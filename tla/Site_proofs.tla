---------------------------- MODULE Site_proofs ----------------------------
(***************************************************************************)
(* What becomes of the options of a site, of its roles, of its forms, of   *)
(* the records of a table, of tags and of what is patched: the theorems    *)
(* about the parts of MCSiteState.                                         *)
(***************************************************************************)
EXTENDS MCSiteState, FiniteSetTheorems, SequenceTheorems, TLAPS

-----------------------------------------------------------------------------
(* Options.  A process whose next request will find nothing to copy has    *)
(* the options that were set last: for any number of processes, options    *)
(* and values, while options are only updated and no process dies in a     *)
(* request.                                                                *)

\* What the theorem assumes beyond the bound of the clock: the reset page is
\* not used, and processes are replaced between requests only.
Undisturbed == ~MayReset /\ ~MayDie

\* Option k is part of an update that has not ended.
Dirty(k) == \E q \in Processes : job[q].pc = "update" /\ k \in DOMAIN job[q].new

\* Process p has option k as it was set last, by the updates that have ended.
Has(p, k) == config[p][k] = Effective(k) \/ Dirty(k)

\* Process p knows the stamp.
Copied(p) == job[p].pc \in {"idle", "serve"} /\ known[p] = stamp

\* Process p will know the stamp when it has copied what it is copying.
Copying(p) ==
    /\ job[p].pc = "reload"
    /\ job[p].value = stamp \/ (job[p].value = Never /\ known[p] = stamp)

\* What was copied since the stamp was read is current, but for updates that
\* are going to change the stamp.
Current(p) ==
    /\ Copied(p) => \A k \in Options : Has(p, k)
    /\ Copying(p) => \A k \in Options \ job[p].left : Has(p, k)

\* The inductive invariant: nobody knows a stamp before its time.
IInv ==
    \A p \in Processes :
        /\ job[p].pc # "reset"
        /\ known[p] <= clock /\ job[p].value <= clock
        /\ Current(p)

-----------------------------------------------------------------------------
(* Types *)

Jobs == [pc : {"idle", "reload", "serve", "update", "reset"},
         left : SUBSET Options, new : Sent, then : {"idle", "serve"}, value : 0..MaxTime]

LEMMA SentValues ==
    ASSUME NEW new \in Sent
    PROVE  /\ DOMAIN new \in SUBSET Options
           /\ \A k \in DOMAIN new : new[k] \in Values
  BY DEF Sent

LEMMA IdleIsJob ==
    ASSUME MaxTime \in Nat
    PROVE  Idle \in Jobs
  <1>1. [k \in {} |-> File] \in [{} -> Values]
    OBVIOUS
  <1>2. [k \in {} |-> File] \in Sent
    BY <1>1 DEF Sent
  <1>. QED  BY <1>2 DEF Idle, Jobs, Never

\* The options and the times are of their type, and so are the jobs.
Typed ==
    /\ info \in [Options -> Values \cup {Unset}]
    /\ clock \in 0..MaxTime
    /\ stamp \in 0..clock
    /\ config \in [Processes -> [Options -> Values \cup {File}]]
    /\ known \in [Processes -> 0..MaxTime]

\* What is left of an update was sent.
OfUpdate(j) == j.pc = "update" => j.left \subseteq DOMAIN j.new

LEMMA Typing ==
    TypeOK <=> /\ Typed
               /\ job \in [Processes -> Jobs]
               /\ \A p \in Processes : OfUpdate(job[p])
  BY DEF TypeOK, Typed, Jobs, OfUpdate

LEMMA EffectiveType ==
    ASSUME TypeOK, NEW k \in Options
    PROVE  Effective(k) \in Values \cup {File}
  BY DEF TypeOK, Effective

\* Process p goes on with job j.
LEMMA JobStep ==
    ASSUME TypeOK, NEW p \in Processes, NEW j,
           job' = [job EXCEPT ![p] = j]
    PROVE  /\ job'[p] = j
           /\ \A q \in Processes \ {p} : job'[q] = job[q]
           /\ Typed' /\ j \in Jobs /\ OfUpdate(j) => TypeOK'
  BY Typing DEF TypeOK, Typed, Jobs, OfUpdate

LEMMA TypeInit ==
    ASSUME MaxTime \in Nat, Init
    PROVE  TypeOK
  <1>1. Typed /\ job \in [Processes -> Jobs] /\ \A p \in Processes : OfUpdate(job[p])
    BY IdleIsJob DEF Init, Typed, Never, OfUpdate, Idle
  <1>. QED  BY <1>1, Typing

LEMMA TypeStep ==
    ASSUME MaxTime \in Nat, TypeOK, [Next]_vars
    PROVE  TypeOK'
  <1>1. Typed /\ job \in [Processes -> Jobs] /\ \A p \in Processes : OfUpdate(job[p])
    BY Typing
  <1>2. Idle \in Jobs /\ OfUpdate(Idle)
    BY IdleIsJob DEF OfUpdate, Idle
  <1>3. stamp \in 0..MaxTime
    BY <1>1 DEF Typed
  <1>4. CASE UNCHANGED vars
    BY <1>4 DEF vars, TypeOK
  <1>5. ASSUME NEW p \in Processes, Request(p)
        PROVE  TypeOK'
    <2>. DEFINE r == [Idle EXCEPT !.pc = "reload", !.left = Options, !.value = stamp,
                                  !.then = "serve"]
                s == [Idle EXCEPT !.pc = "serve"]
    <2>1. r \in Jobs /\ OfUpdate(r) /\ s \in Jobs /\ OfUpdate(s)
      BY <1>2, <1>3 DEF Jobs, OfUpdate
    <2>2. Typed' /\ (job' = [job EXCEPT ![p] = r] \/ job' = [job EXCEPT ![p] = s])
      BY <1>1, <1>5 DEF Request, Typed
    <2>. QED  BY <2>1, <2>2, JobStep
  <1>6. ASSUME NEW p \in Processes, Reload(p)
        PROVE  TypeOK'
    <2>1. CASE job[p].left = {}
      <3>. DEFINE j == [Idle EXCEPT !.pc = job[p].then]
      <3>1. j \in Jobs /\ OfUpdate(j) /\ job[p].value \in 0..MaxTime
        BY <1>1, <1>2 DEF Jobs, OfUpdate
      <3>2. Typed' /\ job' = [job EXCEPT ![p] = j]
        BY <1>1, <1>6, <2>1, <3>1 DEF Reload, Typed
      <3>. QED  BY <3>1, <3>2, JobStep
    <2>2. CASE job[p].left # {}
      <3>1. PICK k \in job[p].left : /\ config' = [config EXCEPT ![p][k] = Effective(k)]
                                     /\ job' = [job EXCEPT ![p].left = @ \ {k}]
        BY <1>6, <2>2 DEF Reload
      <3>. DEFINE j == [job[p] EXCEPT !.left = @ \ {k}]
      <3>2. k \in Options /\ j \in Jobs /\ OfUpdate(j)
        BY <1>1 DEF Jobs, OfUpdate
      <3>3. config' \in [Processes -> [Options -> Values \cup {File}]]
        BY <1>1, <3>1, <3>2, EffectiveType DEF Typed
      <3>4. Typed' /\ job' = [job EXCEPT ![p] = j]
        BY <1>1, <1>6, <2>2, <3>1, <3>3 DEF Reload, Typed
      <3>. QED  BY <3>2, <3>4, JobStep
    <2>. QED  BY <2>1, <2>2
  <1>7. ASSUME NEW p \in Processes, Serve(p)
        PROVE  TypeOK'
    BY <1>1, <1>2, <1>7, JobStep DEF Serve, Typed
  <1>8. ASSUME NEW p \in Processes, StartUpdate(p)
        PROVE  TypeOK'
    <2>1. PICK new \in Sent :
            job' = [job EXCEPT ![p] = [Idle EXCEPT !.pc = "update", !.new = new,
                                                   !.left = DOMAIN new]]
      BY <1>8 DEF StartUpdate
    <2>. DEFINE j == [Idle EXCEPT !.pc = "update", !.new = new, !.left = DOMAIN new]
    <2>2. j \in Jobs /\ OfUpdate(j)
      BY <1>2, SentValues DEF Jobs, OfUpdate
    <2>3. Typed'
      BY <1>1, <1>8 DEF StartUpdate, Typed
    <2>. QED  BY <2>1, <2>2, <2>3, JobStep
  <1>9. ASSUME NEW p \in Processes, StartReset(p)
        PROVE  TypeOK'
    <2>. DEFINE j == [Idle EXCEPT !.pc = "reset", !.left = Options]
    <2>1. j \in Jobs /\ OfUpdate(j)
      BY <1>2 DEF Jobs, OfUpdate
    <2>2. Typed' /\ job' = [job EXCEPT ![p] = j]
      BY <1>1, <1>9 DEF StartReset, Typed
    <2>. QED  BY <2>1, <2>2, JobStep
  <1>10. ASSUME NEW p \in Processes, Update(p)
         PROVE  TypeOK'
    <2>1. CASE job[p].left = {}
      <3>1. Typed' /\ job' = [job EXCEPT ![p] = Idle]
        BY <1>1, <1>10, <2>1 DEF Update, Typed
      <3>. QED  BY <1>2, <3>1, JobStep
    <2>2. CASE job[p].left # {}
      <3>1. PICK k \in job[p].left :
              /\ info' = [info EXCEPT ![k] = job[p].new[k]]
              /\ config' = [config EXCEPT ![p][k] = job[p].new[k]]
              /\ job' = [job EXCEPT ![p].left = @ \ {k}]
        BY <1>10, <2>2 DEF Update
      <3>. DEFINE j == [job[p] EXCEPT !.left = @ \ {k}]
      <3>2. k \in Options /\ j \in Jobs /\ OfUpdate(j)
        BY <1>1 DEF Jobs, OfUpdate
      <3>3. job[p].new[k] \in Values
        <4>1. job[p].pc = "update" /\ job[p].new \in Sent
          BY <1>1, <1>10 DEF Update, At, Jobs
        <4>. QED  BY <1>1, <4>1, SentValues DEF OfUpdate
      <3>4. /\ info' \in [Options -> Values \cup {Unset}]
            /\ config' \in [Processes -> [Options -> Values \cup {File}]]
        BY <1>1, <3>1, <3>2, <3>3 DEF Typed
      <3>5. Typed' /\ job' = [job EXCEPT ![p] = j]
        BY <1>1, <1>10, <2>2, <3>1, <3>4 DEF Update, Typed
      <3>. QED  BY <3>2, <3>5, JobStep
    <2>. QED  BY <2>1, <2>2
  <1>11. ASSUME NEW p \in Processes, Reset(p)
         PROVE  TypeOK'
    <2>1. CASE job[p].left = {}
      <3>. DEFINE j == [Idle EXCEPT !.pc = "reload", !.left = Options]
      <3>1. j \in Jobs /\ OfUpdate(j)
        BY <1>2 DEF Jobs, OfUpdate
      <3>2. Typed' /\ job' = [job EXCEPT ![p] = j]
        BY <1>1, <1>11, <2>1 DEF Reset, Typed
      <3>. QED  BY <3>1, <3>2, JobStep
    <2>2. CASE job[p].left # {}
      <3>1. PICK k \in job[p].left : /\ info' = [info EXCEPT ![k] = Unset]
                                     /\ job' = [job EXCEPT ![p].left = @ \ {k}]
        BY <1>11, <2>2 DEF Reset
      <3>. DEFINE j == [job[p] EXCEPT !.left = @ \ {k}]
      <3>2. j \in Jobs /\ OfUpdate(j)
        BY <1>1 DEF Jobs, OfUpdate
      <3>3. Typed' /\ job' = [job EXCEPT ![p] = j]
        BY <1>1, <1>11, <3>1 DEF Reset, Typed
      <3>. QED  BY <3>2, <3>3, JobStep
    <2>. QED  BY <2>1, <2>2
  <1>12. ASSUME NEW p \in Processes, Restart(p)
         PROVE  TypeOK'
    <2>. DEFINE j == [Idle EXCEPT !.pc = "reload", !.left = Options]
    <2>1. j \in Jobs /\ OfUpdate(j)
      BY <1>2 DEF Jobs, OfUpdate
    <2>2. Typed' /\ job' = [job EXCEPT ![p] = j]
      BY <1>1, <1>12 DEF Restart, Typed, Never
    <2>. QED  BY <2>1, <2>2, JobStep
  <1>. QED  BY <1>4, <1>5, <1>6, <1>7, <1>8, <1>9, <1>10, <1>11, <1>12 DEF Next

\* The options, the times and what every process does are of their types.
THEOREM TypeCorrect ==
    ASSUME MaxTime \in Nat
    PROVE  Spec => []TypeOK
  <1>1. Init => TypeOK
    BY TypeInit
  <1>2. TypeOK /\ [Next]_vars => TypeOK'
    BY TypeStep
  <1>. QED  BY <1>1, <1>2, PTL DEF Spec

-----------------------------------------------------------------------------
(* The invariant *)

\* What process q has of option k is not lost by a step of process p that
\* changes neither, and ends no update.
LEMMA HasStays ==
    ASSUME NEW p \in Processes, NEW q \in Processes, NEW k \in Options, Has(q, k),
           config'[q][k] = config[q][k], info'[k] = info[k],
           \A r \in Processes \ {p} : job'[r] = job[r],
           job[p].pc = "update" => job'[p].pc = "update" /\ job'[p].new = job[p].new
    PROVE  Has(q, k)'
  <1>1. Effective(k)' = Effective(k)
    BY DEF Effective
  <1>2. Dirty(k) => Dirty(k)'
    BY DEF Dirty
  <1>. QED  BY <1>1, <1>2 DEF Has

\* Nor is what another process is doing.
LEMMA OthersCurrent ==
    ASSUME IInv, NEW p \in Processes, NEW q \in Processes \ {p},
           \A r \in Processes \ {p} : job'[r] = job[r],
           known'[q] = known[q], stamp' = stamp,
           \A k \in Options : Has(q, k) => Has(q, k)'
    PROVE  Current(q)'
  BY DEF IInv, Current, Copied, Copying

LEMMA RequestStep ==
    ASSUME TypeOK, IInv, NEW p \in Processes, Request(p)
    PROVE  IInv'
  <1>1. /\ \A q \in Processes \ {p} : job'[q] = job[q]
        /\ job'[p] = IF known[p] # stamp
                     THEN [Idle EXCEPT !.pc = "reload", !.left = Options, !.value = stamp,
                                       !.then = "serve"]
                     ELSE [Idle EXCEPT !.pc = "serve"]
    BY JobStep DEF Request
  <1>2. job[p].pc = "idle" /\ UNCHANGED <<info, stamp, clock, config, known>>
    BY DEF Request, At
  <1>3. \A q \in Processes, k \in Options : Has(q, k) => Has(q, k)'
    BY <1>1, <1>2, HasStays
  <1>4. \A q \in Processes \ {p} : Current(q)'
    BY <1>1, <1>2, <1>3, OthersCurrent
  <1>5. Current(p)'
    <2>1. CASE known[p] # stamp
      <3>1. job'[p].pc = "reload" /\ job'[p].left = Options
        BY <1>1, <2>1 DEF Idle
      <3>. QED  BY <3>1 DEF Current, Copied, Copying
    <2>2. CASE known[p] = stamp
      <3>1. job'[p].pc = "serve"
        BY <1>1, <2>2 DEF Idle
      <3>2. \A k \in Options : Has(p, k)
        BY <1>2, <2>2 DEF IInv, Current, Copied
      <3>. QED  BY <1>3, <3>1, <3>2 DEF Current, Copying
    <2>. QED  BY <2>1, <2>2
  <1>6. job'[p].pc # "reset" /\ job'[p].value <= clock
    BY <1>1 DEF TypeOK, Idle, Never
  <1>. QED  BY <1>1, <1>2, <1>4, <1>5, <1>6 DEF IInv

LEMMA ReloadStep ==
    ASSUME TypeOK, IInv, NEW p \in Processes, Reload(p)
    PROVE  IInv'
  <1>1. job[p].pc = "reload" /\ UNCHANGED <<info, stamp, clock>>
    BY DEF Reload, At
  <1>2. CASE job[p].left = {}
    <2>1. /\ UNCHANGED config
          /\ known' = IF job[p].value # Never THEN [known EXCEPT ![p] = job[p].value] ELSE known
          /\ job' = [job EXCEPT ![p] = [Idle EXCEPT !.pc = job[p].then]]
      BY <1>2 DEF Reload
    <2>2. /\ \A q \in Processes \ {p} : job'[q] = job[q]
          /\ job'[p].pc = job[p].then /\ job'[p].value = Never
      <3>1. /\ \A q \in Processes \ {p} : job'[q] = job[q]
            /\ job'[p] = [Idle EXCEPT !.pc = job[p].then]
        BY <2>1, JobStep
      <3>. QED  BY <3>1 DEF Idle
    <2>3. \A q \in Processes, k \in Options : Has(q, k) => Has(q, k)'
      BY <1>1, <2>1, <2>2, HasStays
    <2>4. \A q \in Processes \ {p} : Current(q)' /\ known'[q] = known[q]
      BY <1>1, <2>1, <2>2, <2>3, OthersCurrent DEF TypeOK
    <2>5. known'[p] = IF job[p].value # Never THEN job[p].value ELSE known[p]
      BY <2>1 DEF TypeOK
    <2>6. job[p].then \in {"idle", "serve"}
      BY DEF TypeOK
    <2>7. Current(p)'
      <3>1. ASSUME Copied(p)'
            PROVE  \A k \in Options : Has(p, k)
        <4>1. Copying(p)
          BY <1>1, <2>5, <3>1 DEF Copied, Copying
        <4>. QED  BY <1>2, <4>1 DEF IInv, Current
      <3>. QED  BY <2>2, <2>3, <2>6, <3>1 DEF Current, Copying
    <2>8. job'[p].pc # "reset" /\ job'[p].value <= clock /\ known'[p] <= clock
      BY <2>2, <2>5, <2>6 DEF IInv, TypeOK, Never
    <2>. QED  BY <1>1, <2>2, <2>4, <2>7, <2>8 DEF IInv
  <1>3. CASE job[p].left # {}
    <2>1. PICK k \in job[p].left : /\ config' = [config EXCEPT ![p][k] = Effective(k)]
                                   /\ job' = [job EXCEPT ![p].left = @ \ {k}]
      BY <1>3 DEF Reload
    <2>2. known' = known
      BY <1>3 DEF Reload
    <2>3. /\ \A q \in Processes \ {p} : job'[q] = job[q] /\ config'[q] = config[q]
          /\ job'[p] = [job[p] EXCEPT !.left = @ \ {k}]
          /\ k \in Options
          /\ config'[p][k] = Effective(k)
          /\ \A i \in Options \ {k} : config'[p][i] = config[p][i]
      BY <2>1 DEF TypeOK
    <2>4. /\ job'[p].pc = "reload" /\ job'[p].value = job[p].value
          /\ job'[p].left = job[p].left \ {k}
      BY <1>1, <2>3 DEF TypeOK
    <2>5. \A q \in Processes \ {p}, i \in Options : Has(q, i) => Has(q, i)'
      BY <1>1, <2>3, HasStays
    <2>6. \A i \in Options \ {k} : Has(p, i) => Has(p, i)'
      BY <1>1, <2>3, HasStays
    <2>7. Has(p, k)'
      BY <1>1, <2>3 DEF Has, Effective
    <2>8. \A q \in Processes \ {p} : Current(q)'
      BY <1>1, <2>2, <2>3, <2>5, OthersCurrent
    <2>9. Current(p)'
      <3>1. Copying(p)' => Copying(p)
        BY <1>1, <2>2, <2>4 DEF Copying
      <3>. QED  BY <2>4, <2>6, <2>7, <3>1 DEF IInv, Current, Copied
    <2>. QED  BY <1>1, <2>2, <2>3, <2>4, <2>8, <2>9 DEF IInv
  <1>. QED  BY <1>2, <1>3

LEMMA ServeStep ==
    ASSUME TypeOK, IInv, NEW p \in Processes, Serve(p)
    PROVE  IInv'
  <1>0. /\ \A q \in Processes \ {p} : job'[q] = job[q]
        /\ job'[p] = Idle
        /\ job[p].pc = "serve" /\ UNCHANGED <<info, stamp, clock, config, known>>
    BY JobStep DEF Serve, At
  <1>1. job'[p].pc = "idle" /\ job'[p].value = Never
    BY <1>0 DEF Idle
  <1>2. \A q \in Processes, k \in Options : Has(q, k) => Has(q, k)'
    BY <1>0, <1>1, HasStays
  <1>3. \A q \in Processes \ {p} : Current(q)'
    BY <1>0, <1>1, <1>2, OthersCurrent
  <1>4. Current(p)'
    BY <1>0, <1>1, <1>2 DEF IInv, Current, Copied, Copying
  <1>. QED  BY <1>0, <1>1, <1>3, <1>4 DEF IInv, TypeOK, Never

LEMMA StartUpdateStep ==
    ASSUME TypeOK, IInv, NEW p \in Processes, StartUpdate(p)
    PROVE  IInv'
  <1>1. /\ job[p].pc = "serve" /\ clock' = clock + 1
        /\ UNCHANGED <<info, stamp, config, known>>
    BY DEF StartUpdate, At
  <1>2. /\ \A q \in Processes \ {p} : job'[q] = job[q]
        /\ job'[p].pc = "update" /\ job'[p].value = Never
    <2>1. PICK new \in Sent :
            job' = [job EXCEPT ![p] = [Idle EXCEPT !.pc = "update", !.new = new,
                                                   !.left = DOMAIN new]]
      BY DEF StartUpdate
    <2>2. /\ \A q \in Processes \ {p} : job'[q] = job[q]
          /\ job'[p] = [Idle EXCEPT !.pc = "update", !.new = new, !.left = DOMAIN new]
      BY <2>1, JobStep
    <2>. QED  BY <2>2 DEF Idle
  <1>3. \A q \in Processes, k \in Options : Has(q, k) => Has(q, k)'
    BY <1>1, <1>2, HasStays
  <1>4. \A q \in Processes \ {p} : Current(q)'
    BY <1>1, <1>2, <1>3, OthersCurrent
  <1>5. Current(p)'
    BY <1>2 DEF Current, Copied, Copying
  <1>. QED  BY <1>1, <1>2, <1>4, <1>5 DEF IInv, TypeOK, Never

LEMMA UpdateStep ==
    ASSUME TypeOK, IInv, NEW p \in Processes, Update(p)
    PROVE  IInv'
  <1>1. job[p].pc = "update" /\ known' = known
    BY DEF Update, At
  <1>2. CASE job[p].left = {}
    <2>1. /\ stamp' = clock + 1 /\ clock' = clock + 1
          /\ \A q \in Processes \ {p} : job'[q] = job[q]
          /\ job'[p].pc = "idle" /\ job'[p].value = Never
      <3>1. stamp' = clock + 1 /\ clock' = clock + 1 /\ job' = [job EXCEPT ![p] = Idle]
        BY <1>2 DEF Update
      <3>2. job'[p] = Idle /\ \A q \in Processes \ {p} : job'[q] = job[q]
        BY <3>1, JobStep
      <3>. QED  BY <3>1, <3>2 DEF Idle
    <2>2. \A q \in Processes : known'[q] # stamp' /\ job'[q].value # stamp'
      BY <1>1, <2>1 DEF IInv, TypeOK, Never
    <2>3. \A q \in Processes : Current(q)'
      BY <2>2 DEF Current, Copied, Copying
    <2>. QED  BY <1>1, <2>1, <2>3 DEF IInv, TypeOK, Never
  <1>3. CASE job[p].left # {}
    <2>1. PICK k \in job[p].left : /\ info' = [info EXCEPT ![k] = job[p].new[k]]
                                   /\ config' = [config EXCEPT ![p][k] = job[p].new[k]]
                                   /\ job' = [job EXCEPT ![p].left = @ \ {k}]
      BY <1>3 DEF Update
    <2>2. UNCHANGED <<stamp, clock>>
      BY <1>3 DEF Update
    <2>3. /\ \A q \in Processes \ {p} : job'[q] = job[q] /\ config'[q] = config[q]
          /\ job'[p].pc = "update" /\ job'[p].new = job[p].new /\ job'[p].value = job[p].value
          /\ k \in Options /\ k \in DOMAIN job[p].new
          /\ \A i \in Options \ {k} : info'[i] = info[i] /\ config'[p][i] = config[p][i]
      BY <1>1, <2>1 DEF TypeOK
    <2>4. \A q \in Processes, i \in Options \ {k} : Has(q, i) => Has(q, i)'
      BY <2>3, HasStays
    <2>5. \A q \in Processes : Has(q, k)'
      BY <2>3 DEF Has, Dirty
    <2>6. \A q \in Processes \ {p} : Current(q)'
      BY <1>1, <2>2, <2>3, <2>4, <2>5, OthersCurrent
    <2>7. Current(p)'
      BY <2>3 DEF Current, Copied, Copying
    <2>. QED  BY <1>1, <2>2, <2>3, <2>6, <2>7 DEF IInv
  <1>. QED  BY <1>2, <1>3

LEMMA RestartStep ==
    ASSUME TypeOK, IInv, ~MayDie, NEW p \in Processes, Restart(p)
    PROVE  IInv'
  <1>1. /\ job[p].pc = "idle"
        /\ UNCHANGED <<info, stamp, clock>>
        /\ \A q \in Processes \ {p} : /\ job'[q] = job[q]
                                      /\ config'[q] = config[q] /\ known'[q] = known[q]
        /\ job'[p].pc = "reload" /\ job'[p].value = Never /\ job'[p].left = Options
        /\ known'[p] = Never
    BY JobStep DEF Restart, At, Idle, TypeOK
  <1>2. \A q \in Processes \ {p}, k \in Options : Has(q, k) => Has(q, k)'
    BY <1>1, HasStays
  <1>3. \A q \in Processes \ {p} : Current(q)'
    BY <1>1, <1>2, OthersCurrent
  <1>4. Current(p)'
    BY <1>1 DEF Current, Copied, Copying
  <1>. QED  BY <1>1, <1>3, <1>4 DEF IInv, TypeOK, Never

LEMMA InvStep ==
    ASSUME Undisturbed, TypeOK, IInv, [Next]_vars
    PROVE  IInv'
  <1>1. CASE UNCHANGED vars
    BY <1>1 DEF vars, IInv, Current, Copied, Copying, Has, Effective, Dirty
  <1>2. ASSUME NEW p \in Processes, StartReset(p) \/ Reset(p)
        PROVE  FALSE
    BY <1>2 DEF Undisturbed, StartReset, Reset, At, IInv
  <1>. QED  BY <1>1, <1>2, RequestStep, ReloadStep, ServeStep, StartUpdateStep, UpdateStep,
               RestartStep DEF Next, Undisturbed

LEMMA InvImplies ==
    ASSUME IInv
    PROVE  UpToDate
  <1> SUFFICES ASSUME \A p \in Processes : job[p].pc \notin {"update", "reset"},
                      NEW p \in Processes, job[p].pc = "idle", known[p] = stamp,
                      NEW k \in Options
               PROVE  config[p][k] = Effective(k)
    BY DEF UpToDate
  <1>1. Has(p, k)
    BY DEF IInv, Current, Copied
  <1>. QED  BY <1>1 DEF Has, Dirty

\* Every process finds out that it must copy the options again, whatever
\* updates race and whenever processes are replaced.
THEOREM UpToDateAlways ==
    ASSUME MaxTime \in Nat, Undisturbed
    PROVE  Spec => []UpToDate
  <1>1. Init => IInv
    <2> SUFFICES ASSUME Init
                 PROVE  IInv
      OBVIOUS
    <2>1. /\ \A p \in Processes : /\ job[p].pc = "idle"
                                   /\ job[p].value = clock /\ known[p] = clock
          /\ clock \in Nat
      BY DEF Init, Idle, Never
    <2>2. \A p \in Processes, k \in Options : Has(p, k)
      BY DEF Init, Has, Effective
    <2>3. \A p \in Processes : Current(p)
      BY <2>1, <2>2 DEF Current, Copying
    <2>4. ASSUME NEW p \in Processes
          PROVE  known[p] <= clock /\ job[p].value <= clock
      <3>1. known[p] = clock /\ job[p].value = clock /\ clock \in Nat
        BY <2>1
      <3>. QED  BY <3>1
    <2>. QED  BY <2>1, <2>3, <2>4 DEF IInv
  <1>2. TypeOK /\ IInv /\ [Next]_vars => IInv'
    BY InvStep
  <1>3. IInv => UpToDate
    BY InvImplies
  <1>. QED  BY <1>1, <1>2, <1>3, TypeCorrect, PTL DEF Spec

-----------------------------------------------------------------------------
(* Roles in an organization, given in one process.                         *)

RoleJobs == [pc : {"idle", "remove", "promote", "add"}, by : Users \cup {Nobody},
             user : Users \cup {Nobody}, role : G!AllNames, had : G!Member]

\* What the process knows of the user whose role it updates: the row is still
\* the one he had; or it is gone, and whoever asked for it may go on.
Giving ==
    LET j == roleJob[p1]
    IN  /\ roles \in [{p1} -> Seq(G!AllNames)]
        /\ member \in [Users -> G!Member]
        /\ roleJob \in [{p1} -> RoleJobs]
        /\ j.pc # "idle" => j.user \in Users /\ j.by \in Users
        /\ j.pc = "remove" => member[j.user] = j.had
        /\ j.pc \in {"promote", "add"} /\ j.user # j.by => G!Allowed(p1)

\* The step of RoleUpdated.
GivesRole ==
    \A p \in {p1} :
        LET u == roleJob[p].user
        IN  roleJob[p].pc # "idle" /\ roleJob'[p].pc = "idle" /\ u # roleJob[p].by =>
              \/ member'[u] = roleJob[p].had
              \/ member'[u] = [state |-> "active", capacity |-> G!Capacity(roleJob[p].role)]

LEMMA RoleTypes ==
    /\ G!Defaults \in Seq(G!AllNames)
    /\ G!NoMember \in G!Member
    /\ G!Idle \in RoleJobs
    /\ \A name : G!Capacity(name) \in G!Capacities
  <1>1. /\ G!System \in G!AllNames /\ G!Town \in G!AllNames
        /\ G!Data \in G!AllNames /\ G!Viewer \in G!AllNames
    BY DEF G!AllNames, G!ToSet, G!Defaults
  <1>2. G!NoMember \in G!Member
    BY DEF G!NoMember, G!Member, G!Capacities
  <1>3. G!Idle \in RoleJobs
    BY <1>1, <1>2 DEF G!Idle, RoleJobs
  <1>4. \A name : G!Capacity(name) \in G!Capacities
    BY DEF G!Capacity, G!Capacities
  <1>. QED  BY <1>1, <1>2, <1>3, <1>4 DEF G!Defaults

LEMMA InitGiving == G!Init => Giving
  <1> SUFFICES ASSUME G!Init PROVE Giving
    OBVIOUS
  <1>1. roleJob[p1].pc = "idle"
    BY DEF G!Init, G!Idle
  <1>2. /\ roles \in [{p1} -> Seq(G!AllNames)]
        /\ member \in [Users -> G!Member]
        /\ roleJob \in [{p1} -> RoleJobs]
    BY RoleTypes DEF G!Init
  <1>. QED  BY <1>1, <1>2 DEF Giving

\* The roles of the process, and who is a sysadmin.
LEMMA RolesGive ==
    ASSUME Giving, UNCHANGED <<member, roleJob>>,
           \/ \E a \in Users, name \in G!AllNames : G!Edit(p1, a, name)
           \/ G!Restart(p1)
           \/ \E a, u \in Users, i \in DOMAIN roles[p1] : G!UpdateUserRole(p1, a, u, i)
           \/ UNCHANGED <<roles, sysadmins>>
    PROVE  Giving' /\ GivesRole
  <1>1. roles' \in [{p1} -> Seq(G!AllNames)]
    <2>1. roles \in [{p1} -> Seq(G!AllNames)]
      BY DEF Giving
    <2>2. ASSUME NEW a, NEW name \in G!AllNames, G!Edit(p1, a, name)
          PROVE  roles' \in [{p1} -> Seq(G!AllNames)]
      <3>1. roles[p1] \in Seq(G!AllNames)
        BY <2>1
      <3>2. CASE \E i \in DOMAIN roles[p1] : roles' = [roles EXCEPT ![p1][i] = name]
        BY <2>1, <3>1, <3>2
      <3>3. CASE roles' = [roles EXCEPT ![p1] = Append(roles[p1], name)]
        BY <2>1, <3>1, <3>3
      <3>. QED  BY <2>2, <3>2, <3>3 DEF G!Edit
    <2>. QED  BY <2>1, <2>2, RoleTypes DEF G!Restart, G!UpdateUserRole
  <1>2. roleJob[p1].pc # "idle" => UNCHANGED sysadmins
    BY DEF G!Edit, G!Restart, G!UpdateUserRole, G!Serves
  <1>. QED  BY <1>1, <1>2 DEF Giving, GivesRole, G!Allowed

LEMMA StartGives ==
    ASSUME Giving, NEW a \in Users, NEW u \in Users, NEW i \in DOMAIN roles[p1],
           G!UpdateUserOrg(p1, a, u, i)
    PROVE  Giving' /\ GivesRole
  <1>1. roles[p1][i] \in G!AllNames
    BY DEF Giving
  <1>. QED  BY <1>1 DEF G!UpdateUserOrg, G!Serves, Giving, GivesRole, RoleJobs

LEMMA RemoveGives ==
    ASSUME Giving, G!RemoveMember(p1)
    PROVE  Giving' /\ GivesRole
  <1>. DEFINE j == roleJob[p1]
  <1>1. /\ j \in RoleJobs /\ j.user \in Users /\ j.by \in Users /\ member[j.user] = j.had
        /\ roles' = roles /\ sysadmins' = sysadmins
    BY DEF G!RemoveMember, Giving
  <1>2. CASE G!Allowed(p1)
    <2>1. member' \in [Users -> G!Member]
      BY <1>2 DEF G!RemoveMember, Giving, G!Member
    <2>2. /\ roleJob' \in [{p1} -> RoleJobs]
          /\ roleJob'[p1].pc \in {"promote", "add"}
          /\ roleJob'[p1].user = j.user /\ roleJob'[p1].by = j.by
      BY <1>2 DEF G!RemoveMember, Giving, RoleJobs
    <2>3. j.user # j.by => member'[j.by] = member[j.by]
      BY <1>1, <1>2 DEF G!RemoveMember, Giving
    <2>4. j.user # j.by => G!Allowed(p1)'
      BY <1>1, <1>2, <2>2, <2>3 DEF G!Allowed
    <2>. QED  BY <1>1, <2>1, <2>2, <2>4 DEF Giving, GivesRole
  <1>3. CASE ~G!Allowed(p1)
    <2>1. roleJob' \in [{p1} -> RoleJobs] /\ roleJob'[p1].pc = "idle" /\ member' = member
      BY <1>3, RoleTypes DEF G!RemoveMember, Giving, G!Idle
    <2>. QED  BY <1>1, <2>1 DEF Giving, GivesRole
  <1>. QED  BY <1>2, <1>3

LEMMA PromoteGives ==
    ASSUME Giving, G!Promote(p1)
    PROVE  Giving' /\ GivesRole
  BY DEF G!Promote, Giving, GivesRole, G!Allowed, RoleJobs

LEMMA AddGives ==
    ASSUME Giving, G!AddMember(p1)
    PROVE  Giving' /\ GivesRole
  <1>. DEFINE j == roleJob[p1]
              m == [state |-> "active", capacity |-> G!Capacity(j.role)]
  <1>1. /\ j \in RoleJobs /\ j.user \in Users
        /\ member \in [Users -> G!Member] /\ roles' = roles
    BY DEF G!AddMember, Giving
  <1>2. roleJob' \in [{p1} -> RoleJobs] /\ roleJob'[p1].pc = "idle"
    BY RoleTypes DEF G!AddMember, Giving, G!Idle
  <1>3. m \in G!Member
    BY RoleTypes DEF G!Member
  <1>4. member' = IF G!Denied(p1) THEN member ELSE [member EXCEPT ![j.user] = m]
    BY DEF G!AddMember
  <1>. HIDE DEF m
  <1>5. member' \in [Users -> G!Member]
    BY <1>1, <1>3, <1>4
  <1>6. j.user # j.by => ~G!Denied(p1)
    BY DEF G!AddMember, G!Denied, Giving
  <1>7. j.user # j.by => member'[j.user] = m
    BY <1>1, <1>4, <1>6
  <1>8. Giving'
    BY <1>1, <1>2, <1>5 DEF Giving
  <1>. QED  BY <1>7, <1>8 DEF GivesRole, m

\* A user whose role in an organization is updated has the new one at the
\* end, or the one he had: in a process that serves alone, whatever the roles
\* are named and however they are edited.
THEOREM RoleAlwaysUpdated == StateSpec => RoleUpdated
  <1>1. StateInit => Giving
    BY InitGiving DEF StateInit
  <1>2. Giving /\ [StateNext]_<<part, vars, store, forms, given, tags, patches>>
          => Giving' /\ (GivesRole \/ UNCHANGED G!vars)
    <2> SUFFICES ASSUME Giving,
                        [StateNext]_<<part, vars, store, forms, given, tags, patches>>
                 PROVE  Giving' /\ (GivesRole \/ UNCHANGED G!vars)
      OBVIOUS
    <2>1. CASE UNCHANGED given
      BY <2>1, RolesGive DEF given, G!vars
    <2>2. CASE G!Next
      <3>1. \/ \E a \in Users, name \in G!AllNames : G!Edit(p1, a, name)
            \/ G!Restart(p1)
            \/ \E a, u \in Users, i \in DOMAIN roles[p1] :
                 G!UpdateUserRole(p1, a, u, i) \/ G!UpdateUserOrg(p1, a, u, i)
            \/ G!RemoveMember(p1) \/ G!Promote(p1) \/ G!AddMember(p1)
        BY <2>2 DEF G!Next
      <3>2. CASE \/ \E a \in Users, name \in G!AllNames : G!Edit(p1, a, name)
                 \/ G!Restart(p1)
                 \/ \E a, u \in Users, i \in DOMAIN roles[p1] : G!UpdateUserRole(p1, a, u, i)
        <4>1. UNCHANGED <<member, roleJob>>
          BY <3>2 DEF G!Edit, G!Restart, G!UpdateUserRole
        <4>. QED  BY <3>2, <4>1, RolesGive
      <3>. QED  BY <3>1, <3>2, StartGives, RemoveGives, PromoteGives, AddGives
    <2>3. G!Next \/ UNCHANGED given
      BY DEF StateNext
    <2>. QED  BY <2>1, <2>2, <2>3
  <1>. QED  BY <1>1, <1>2, PTL DEF StateSpec, RoleUpdated, G!RoleUpdated, GivesRole

-----------------------------------------------------------------------------
(* Forms, one that is posted being served at a time.                       *)

FormJobs == [pc : {"idle", "show", "publish"}, copy : F!Package \cup {Nothing}]

\* What is left to do of a posted form: the dataset is as it was shown, and
\* has a resource if one is required.  The form of the first stage is not
\* rendered for a dataset that is published or deleted.
Filled ==
    /\ pkg \in F!Package
    /\ tab \in [Tabs -> F!Page]
    /\ formJob \in [Tabs -> FormJobs]
    /\ \A t \in Tabs :
         /\ formJob[t].pc = "idle" => formJob[t] = F!Idle
         /\ formJob[t].pc = "publish" => formJob[t].copy = pkg
         /\ formJob[t].pc # "idle" /\ part # "forms quick" => pkg.res # {}
         /\ formJob[t].pc # "idle" => \A u \in Tabs \ {t} : formJob[u] = F!Idle
         /\ tab[t].form = "wizard" => tab[t].seen \in {"none", "draft"}

FormsStep == IF part = "forms quick" THEN Q!Kept ELSE F!Kept

LEMMA FormTypes ==
    /\ F!Idle \in FormJobs /\ F!Blank \in F!Page /\ F!Blank.form # "wizard"
    /\ \A j \in FormJobs : j # F!Idle <=> j.pc # "idle" \/ j.copy # Nothing
  BY DEF F!Idle, FormJobs, F!Blank, F!Page

LEMMA InitFilled == F!Init => Filled
  <1> SUFFICES ASSUME F!Init PROVE Filled
    OBVIOUS
  <1>1. \A t \in Tabs : /\ formJob[t] = F!Idle /\ formJob[t].pc = "idle"
                        /\ tab[t].form # "wizard"
    BY DEF F!Init, F!Idle, F!Blank
  <1>2. /\ pkg \in F!Package
        /\ tab \in [Tabs -> F!Page]
        /\ formJob \in [Tabs -> FormJobs]
    BY FormTypes DEF F!Init, F!Package
  <1>. QED  BY <1>1, <1>2 DEF Filled

\* One form at a time.
LEMMA NobodyServed ==
    ASSUME IsFiniteSet(Tabs), Filled,
           F!Cardinality({u \in Tabs : formJob[u] # F!Idle}) < 1
    PROVE  \A u \in Tabs : formJob[u] = F!Idle
  <1>. DEFINE B == {u \in Tabs : formJob[u] # F!Idle}
  <1>1. F!Cardinality(B) = Cardinality(B)
    BY DEF F!Cardinality, Cardinality, F!IsFiniteSet, IsFiniteSet
  <1>2. IsFiniteSet(B)
    BY FS_Subset
  <1>3. Cardinality(B) = 0
    BY <1>1, <1>2, FS_CardinalityType
  <1>. QED  BY <1>2, <1>3, FS_EmptySet

\* The actions of a site that requires no resource, but for the new dataset.
Pages(t) == F!NewPage(t) \/ F!EditPage(t) \/ F!ResourcePage(t) \/ F!ResourceEditPage(t)
Posts(t) == F!PostAgain(t) \/ F!PostEdit(t) \/ F!PostEmpty(t) \/ F!PostResource(t)
Rests(t) == F!ReadBack(t) \/ F!Publish(t) \/ F!Die(t)

LEMMA QuickForms ==
    ASSUME Q!Next
    PROVE  \/ \E t \in Tabs : Pages(t) \/ Posts(t) \/ Rests(t) \/ Q!PostNew(t)
           \/ F!DeleteResource \/ F!DeleteDataset
  <1>1. Q!Blank = F!Blank /\ Q!Idle = F!Idle /\ (Q!Exists <=> F!Exists)
        /\ \A X : Q!Cardinality(X) = F!Cardinality(X)
    BY DEF Q!Blank, F!Blank, Q!Idle, F!Idle, Q!Exists, F!Exists, Q!Cardinality, F!Cardinality,
           Q!IsFiniteSet, F!IsFiniteSet
  <1>2. \A t \in Tabs : (Q!Post(t) <=> F!Post(t)) /\ (Q!Done(t) <=> F!Done(t))
                        /\ Q!Buttons(t) = F!Buttons(t)
    BY <1>1 DEF Q!Post, F!Post, Q!Done, F!Done, Q!Buttons, F!Buttons
  <1>3. \A t \in Tabs : \A form, res : Q!Show(t, form, res) <=> F!Show(t, form, res)
    BY <1>1 DEF Q!Show, F!Show
  <1>4. \A t \in Tabs : \A next : Q!Continue(t, next) <=> F!Continue(t, next)
    BY DEF Q!Continue, F!Continue
  <1>5. ASSUME NEW t \in Tabs
        PROVE  /\ Q!NewPage(t) => F!NewPage(t)
               /\ Q!EditPage(t) => F!EditPage(t)
               /\ Q!ResourcePage(t) => F!ResourcePage(t)
               /\ Q!ResourceEditPage(t) => F!ResourceEditPage(t)
    BY <1>1, <1>3 DEF Q!NewPage, F!NewPage, Q!EditPage, F!EditPage, Q!ResourcePage,
         F!ResourcePage, Q!ResourceEditPage, F!ResourceEditPage
  <1>6. ASSUME NEW t \in Tabs
        PROVE  /\ Q!PostAgain(t) => F!PostAgain(t)
               /\ Q!PostEdit(t) => F!PostEdit(t)
    BY <1>2 DEF Q!PostAgain, F!PostAgain, Q!PostEdit, F!PostEdit
  <1>7. ASSUME NEW t \in Tabs
        PROVE  Q!PostEmpty(t) => F!PostEmpty(t)
    BY <1>1, <1>2, <1>4 DEF Q!PostEmpty, F!PostEmpty
  <1>8. ASSUME NEW t \in Tabs
        PROVE  Q!PostResource(t) => F!PostResource(t)
    BY <1>1, <1>2, <1>4 DEF Q!PostResource, F!PostResource
  <1>9. ASSUME NEW t \in Tabs
        PROVE  /\ Q!ReadBack(t) => F!ReadBack(t)
               /\ Q!Publish(t) => F!Publish(t)
               /\ Q!Die(t) => F!Die(t)
    BY <1>1, <1>2, <1>4 DEF Q!ReadBack, F!ReadBack, Q!Publish, F!Publish, Q!Die, F!Die
  <1>10. Q!Quiet <=> F!Quiet
    BY <1>1 DEF Q!Quiet, F!Quiet
  <1>11. (Q!DeleteResource => F!DeleteResource) /\ (Q!DeleteDataset => F!DeleteDataset)
    BY <1>1, <1>10 DEF Q!DeleteResource, F!DeleteResource, Q!DeleteDataset, F!DeleteDataset
  <1>. QED  BY <1>5, <1>6, <1>7, <1>8, <1>9, <1>11 DEF Q!Next, Pages, Posts, Rests

LEMMA KeptQuick ==
    ASSUME F!BackByOldForm, F!FieldsByForm
    PROVE  Q!Kept
  <1>1. Q!Blank = F!Blank /\ Q!Idle = F!Idle
    BY DEF Q!Blank, F!Blank, Q!Idle, F!Idle
  <1>2. Q!BackByOldForm
    BY <1>1 DEF Q!BackByOldForm, F!BackByOldForm
  <1>3. Q!FieldsByForm
    BY <1>1 DEF Q!FieldsByForm, F!FieldsByForm
  <1>4. Q!PublishedWithResource
    BY DEF Q!PublishedWithResource
  <1>. QED  BY <1>2, <1>3, <1>4 DEF Q!Kept

\* Tabs show pages; datasets are left alone.
LEMMA PagesFill ==
    ASSUME Filled, UNCHANGED part, NEW t \in Tabs, Pages(t)
    PROVE  Filled' /\ UNCHANGED pkg
  <1>1. /\ UNCHANGED <<pkg, formJob>>
        /\ \E x \in F!Page : /\ tab' = [tab EXCEPT ![t] = x]
                             /\ x.form = "wizard" => x.seen \in {"none", "draft"}
    <2>1. ASSUME F!NewPage(t)
          PROVE  \E x \in F!Page : /\ tab' = [tab EXCEPT ![t] = x]
                                   /\ x.form = "wizard" => x.seen \in {"none", "draft"}
      <3>. DEFINE x == [F!Blank EXCEPT !.form = "wizard"]
      <3>1. x \in F!Page /\ x.seen = "none"
        BY DEF F!Page, F!Blank
      <3>2. tab' = [tab EXCEPT ![t] = x]
        BY <2>1 DEF F!NewPage
      <3>. HIDE DEF x
      <3>. QED  BY <3>1, <3>2
    <2>2. ASSUME NEW form \in {"wizard", "edit", "resource", "resource edit"},
                 NEW res \in Resources \cup {Nothing}, F!Show(t, form, res),
                 form = "wizard" => pkg.state = "draft"
          PROVE  \E x \in F!Page : /\ tab' = [tab EXCEPT ![t] = x]
                                   /\ x.form = "wizard" => x.seen \in {"none", "draft"}
      <3>. DEFINE x == [form |-> form, seen |-> pkg.state, res |-> res]
      <3>1. pkg.state \in {"none", "draft", "active", "deleted"}
        BY DEF Filled, F!Package
      <3>2. x \in F!Page /\ (x.form = "wizard" => x.seen \in {"none", "draft"})
        BY <2>2, <3>1 DEF F!Page
      <3>3. tab' = [tab EXCEPT ![t] = x]
        BY <2>2 DEF F!Show
      <3>. QED  BY <3>2, <3>3
    <2>3. ASSUME F!EditPage(t) \/ F!ResourcePage(t) \/ F!ResourceEditPage(t)
          PROVE  \E x \in F!Page : /\ tab' = [tab EXCEPT ![t] = x]
                                   /\ x.form = "wizard" => x.seen \in {"none", "draft"}
      <3>1. pkg.res \subseteq Resources
        BY DEF Filled, F!Package
      <3>2. CASE F!EditPage(t)
        <4>1. CASE pkg.state = "draft"
          <5>1. F!Show(t, "wizard", Nothing)
            BY <3>2, <4>1 DEF F!EditPage
          <5>. QED  BY <2>2, <4>1, <5>1
        <4>2. CASE pkg.state # "draft"
          <5>1. F!Show(t, "edit", Nothing)
            BY <3>2, <4>2 DEF F!EditPage
          <5>. QED  BY <2>2, <5>1
        <4>. QED  BY <4>1, <4>2
      <3>3. CASE F!ResourcePage(t)
        <4>1. F!Show(t, "resource", Nothing)
          BY <3>3 DEF F!ResourcePage
        <4>. QED  BY <2>2, <4>1
      <3>4. CASE F!ResourceEditPage(t)
        <4>1. PICK r \in pkg.res :
                F!Show(t, IF pkg.state = "draft" THEN "resource" ELSE "resource edit", r)
          BY <3>4 DEF F!ResourceEditPage
        <4>2. F!Show(t, "resource", r) \/ F!Show(t, "resource edit", r)
          BY <4>1
        <4>. QED  BY <2>2, <3>1, <4>2
      <3>. QED  BY <2>3, <3>2, <3>3, <3>4
    <2>. QED  BY <2>1, <2>3 DEF Pages, F!NewPage, F!EditPage, F!ResourcePage, F!ResourceEditPage, F!Show
  <1>. QED  BY <1>1 DEF Filled

\* A form is posted: the dataset may become p, and the form is done or has job
\* j left.
Answered(t, p) ==
    /\ pkg' = p
    /\ \/ F!Done(t)
       \/ \E j \in FormJobs : /\ F!Continue(t, j) /\ j.pc # "idle"
                              /\ j.pc = "publish" => j.copy = p
                              /\ part # "forms quick" => p.res # {}

LEMMA AnswerFills ==
    ASSUME Filled, UNCHANGED part, NEW t \in Tabs, \A u \in Tabs : formJob[u] = F!Idle,
           NEW p \in F!Package, Answered(t, p)
    PROVE  Filled'
  <1>1. CASE F!Done(t)
    <2>1. /\ tab' \in [Tabs -> F!Page] /\ formJob' \in [Tabs -> FormJobs]
          /\ \A u \in Tabs : formJob'[u] = F!Idle
          /\ \A u \in Tabs : tab'[u].form = "wizard" => tab'[u].seen \in {"none", "draft"}
      BY <1>1, FormTypes DEF F!Done, Filled
    <2>2. F!Idle.pc = "idle"
      BY DEF F!Idle
    <2>. QED  BY <2>1, <2>2 DEF Filled, Answered
  <1>2. ASSUME NEW j \in FormJobs, F!Continue(t, j), j.pc # "idle",
               j.pc = "publish" => j.copy = p, part # "forms quick" => p.res # {}
        PROVE  Filled'
    <2>1. F!Idle.pc = "idle"
      BY DEF F!Idle
    <2>2. /\ formJob' \in [Tabs -> FormJobs] /\ formJob'[t] = j
          /\ \A u \in Tabs \ {t} : formJob'[u] = F!Idle
          /\ tab' = tab
      BY <1>2 DEF F!Continue, Filled
    <2>. QED  BY <1>2, <2>1, <2>2 DEF Filled, Answered
  <1>. QED  BY <1>1, <1>2 DEF Answered

\* The forms that are posted.
LEMMA NewFills ==
    ASSUME IsFiniteSet(Tabs), Filled, UNCHANGED part, NEW t \in Tabs,
           \/ part # "forms quick" /\ F!PostNew(t)
           \/ part = "forms quick" /\ Q!PostNew(t)
    PROVE  Filled' /\ FormsStep
  <1>1. Q!Blank = F!Blank /\ Q!Idle = F!Idle /\ (Q!Exists <=> F!Exists)
        /\ \A X : Q!Cardinality(X) = F!Cardinality(X)
    BY DEF Q!Blank, F!Blank, Q!Idle, F!Idle, Q!Exists, F!Exists, Q!Cardinality, F!Cardinality,
           Q!IsFiniteSet, F!IsFiniteSet
  <1>2. F!Post(t) /\ tab[t].form = "wizard" /\ ~F!Exists
    BY <1>1 DEF F!PostNew, Q!PostNew, F!Post, Q!Post
  <1>3. PICK c \in Contents : pkg' = [state |-> "draft", fields |-> c, res |-> {}]
    BY DEF F!PostNew, Q!PostNew
  <1>. DEFINE p == [state |-> "draft", fields |-> c, res |-> {}]
  <1>4. p \in F!Package
    BY DEF F!Package
  <1>5. \A u \in Tabs : formJob[u] = F!Idle
    BY <1>2, NobodyServed DEF F!Post
  <1>6. Answered(t, p)
    <2>1. CASE part # "forms quick"
      BY <1>3, <2>1 DEF Answered, F!PostNew
    <2>2. CASE part = "forms quick"
      <3>. DEFINE j == [pc |-> "publish", copy |-> p]
      <3>1. Q!Continue(t, j)
        BY <1>3, <2>2 DEF Q!PostNew
      <3>2. F!Continue(t, j) /\ j \in FormJobs
        BY <1>4, <3>1 DEF Q!Continue, F!Continue, FormJobs
      <3>. QED  BY <1>3, <2>2, <3>2 DEF Answered
    <2>. QED  BY <2>1, <2>2
  <1>7. Filled'
    BY <1>4, <1>5, <1>6, AnswerFills
  <1>8. F!BackByOldForm /\ F!PublishedWithResource
    BY <1>2, <1>3 DEF F!BackByOldForm, F!PublishedWithResource, F!Exists
  <1>9. F!FieldsByForm
    <2>1. tab'[t] # tab[t] \/ formJob'[t] # formJob[t]
      <3>1. CASE F!Done(t)
        <4>1. tab[t] # F!Blank
          BY <1>2 DEF F!Post
        <4>2. tab'[t] = F!Blank
          BY <3>1 DEF F!Done, Filled
        <4>. QED  BY <4>1, <4>2
      <3>2. ASSUME NEW j \in FormJobs, F!Continue(t, j), j.pc # "idle"
            PROVE  formJob'[t] # formJob[t]
        <4>1. formJob'[t] = j
          BY <3>2 DEF F!Continue, Filled
        <4>2. formJob[t] = F!Idle /\ F!Idle.pc = "idle"
          BY <1>5 DEF F!Idle
        <4>. QED  BY <3>2, <4>1, <4>2
      <3>. QED  BY <1>6, <3>1, <3>2 DEF Answered
    <2>. QED  BY <1>2, <1>5, <2>1 DEF F!FieldsByForm
  <1>. QED  BY <1>7, <1>8, <1>9, KeptQuick DEF FormsStep, F!Kept

LEMMA EditFills ==
    ASSUME IsFiniteSet(Tabs), Filled, UNCHANGED part, NEW t \in Tabs,
           F!PostAgain(t) \/ F!PostEdit(t)
    PROVE  Filled' /\ FormsStep
  <1>1. F!Post(t) /\ F!Done(t)
    BY DEF F!PostAgain, F!PostEdit
  <1>2. PICK c \in Contents : \/ F!PostAgain(t) /\ pkg' = [pkg EXCEPT !.state = "draft", !.fields = c]
                              \/ F!PostEdit(t) /\ pkg' = [pkg EXCEPT !.fields = c]
    BY DEF F!PostAgain, F!PostEdit
  <1>3. pkg' \in F!Package
    BY <1>2 DEF Filled, F!Package
  <1>4. \A u \in Tabs : formJob[u] = F!Idle
    BY <1>1, NobodyServed DEF F!Post
  <1>5. Filled'
    <2>1. /\ tab' \in [Tabs -> F!Page] /\ formJob' \in [Tabs -> FormJobs]
          /\ \A u \in Tabs : formJob'[u] = F!Idle
          /\ \A u \in Tabs : tab'[u].form = "wizard" => tab'[u].seen \in {"none", "draft"}
      BY <1>1, <1>4, FormTypes DEF F!Done, Filled
    <2>2. F!Idle.pc = "idle"
      BY DEF F!Idle
    <2>. QED  BY <1>3, <2>1, <2>2 DEF Filled
  <1>6. tab'[t] = F!Blank /\ tab[t].form \in {"wizard", "edit"} /\ tab[t] # tab'[t]
    BY <1>1 DEF F!Done, F!Post, Filled, F!PostAgain, F!PostEdit
  <1>7. F!BackByOldForm
    <2>1. CASE F!PostAgain(t)
      <3>1. tab[t].form = "wizard" /\ tab[t].seen = "draft"
        BY <2>1 DEF F!PostAgain, Filled
      <3>. QED  BY <1>6, <3>1 DEF F!BackByOldForm
    <2>2. CASE pkg' = [pkg EXCEPT !.fields = c]
      <3>1. pkg'.state = pkg.state
        BY <2>2 DEF Filled, F!Package
      <3>. QED  BY <3>1 DEF F!BackByOldForm
    <2>. QED  BY <1>2, <2>1, <2>2
  <1>8. F!PublishedWithResource
    BY <1>2 DEF F!PublishedWithResource, Filled, F!Package
  <1>9. F!FieldsByForm
    <2>1. formJob[t] = F!Idle
      BY <1>4
    <2>. QED  BY <1>6, <2>1 DEF F!FieldsByForm
  <1>. QED  BY <1>5, <1>7, <1>8, <1>9, KeptQuick DEF FormsStep, F!Kept

\* Nothing but the resources changes, or a dataset is deleted.
LEMMA FieldsKept ==
    ASSUME pkg'.state \in {pkg.state, "deleted"}, pkg'.fields = pkg.fields
    PROVE  FormsStep
  <1>1. F!BackByOldForm /\ F!PublishedWithResource /\ F!FieldsByForm
    BY DEF F!BackByOldForm, F!PublishedWithResource, F!FieldsByForm
  <1>. QED  BY <1>1, KeptQuick DEF FormsStep, F!Kept

LEMMA EmptyFills ==
    ASSUME IsFiniteSet(Tabs), Filled, UNCHANGED part, NEW t \in Tabs, F!PostEmpty(t)
    PROVE  Filled' /\ FormsStep
  <1>1. F!Post(t) /\ pkg' = pkg
    BY DEF F!PostEmpty
  <1>2. \A u \in Tabs : formJob[u] = F!Idle
    BY <1>1, NobodyServed DEF F!Post
  <1>3. [F!Idle EXCEPT !.pc = "show"] \in FormJobs /\ [F!Idle EXCEPT !.pc = "show"].pc = "show"
    BY DEF F!Idle, FormJobs
  <1>4. Answered(t, pkg)
    BY <1>1, <1>3 DEF Answered, F!PostEmpty
  <1>5. pkg \in F!Package
    BY DEF Filled
  <1>6. Filled'
    BY <1>2, <1>4, <1>5, AnswerFills
  <1>. QED  BY <1>1, <1>6, FieldsKept

LEMMA ResourceFills ==
    ASSUME IsFiniteSet(Tabs), Filled, UNCHANGED part, NEW t \in Tabs, F!PostResource(t)
    PROVE  Filled' /\ FormsStep
  <1>1. F!Post(t)
    BY DEF F!PostResource
  <1>2. \A u \in Tabs : formJob[u] = F!Idle
    BY <1>1, NobodyServed DEF F!Post
  <1>3. /\ pkg' \in F!Package /\ pkg'.state = pkg.state /\ pkg'.fields = pkg.fields
        /\ pkg.res \subseteq pkg'.res
        /\ tab[t].res = Nothing => pkg'.res # {}
    <2>1. CASE tab[t].res = Nothing
      <3>1. PICK r \in Resources : pkg' = [pkg EXCEPT !.res = pkg.res \cup {r}]
        BY <2>1 DEF F!PostResource
      <3>. QED  BY <3>1 DEF Filled, F!Package
    <2>2. CASE tab[t].res # Nothing
      BY <2>2 DEF F!PostResource, Filled, F!Package
    <2>. QED  BY <2>1, <2>2
  <1>4. [F!Idle EXCEPT !.pc = "show"] \in FormJobs /\ [F!Idle EXCEPT !.pc = "show"].pc = "show"
    BY DEF F!Idle, FormJobs
  <1>5. Answered(t, pkg')
    <2>1. CASE F!Done(t)
      BY <2>1 DEF Answered
    <2>2. CASE /\ tab[t].res \in pkg.res \cup {Nothing}
               /\ F!Continue(t, [F!Idle EXCEPT !.pc = "show"])
      <3>1. pkg'.res # {}
        BY <1>3, <2>2
      <3>. QED  BY <1>4, <2>2, <3>1 DEF Answered
    <2>. QED  BY <2>1, <2>2 DEF F!PostResource
  <1>6. Filled'
    BY <1>2, <1>3, <1>5, AnswerFills
  <1>. QED  BY <1>3, <1>6, FieldsKept

\* What a form leaves to do.
LEMMA RestsFill ==
    ASSUME Filled, UNCHANGED part, NEW t \in Tabs, Rests(t)
    PROVE  Filled' /\ FormsStep
  <1>0. formJob[t].pc # "idle" \/ formJob[t] # F!Idle
    BY DEF Rests, F!ReadBack, F!Publish, F!Die
  <1>1. CASE F!ReadBack(t)
    <2>. DEFINE j == [pc |-> "publish", copy |-> pkg]
    <2>1. pkg \in F!Package /\ formJob[t].pc = "show"
      BY <1>1 DEF Filled, F!ReadBack
    <2>2. j \in FormJobs
      BY <2>1 DEF FormJobs
    <2>3. /\ formJob' = [formJob EXCEPT ![t] = j] /\ tab' = tab /\ pkg' = pkg
      BY <1>1 DEF F!ReadBack, F!Continue
    <2>4. /\ formJob' \in [Tabs -> FormJobs] /\ formJob'[t] = j
          /\ \A u \in Tabs \ {t} : formJob'[u] = F!Idle
      BY <1>0, <2>1, <2>2, <2>3 DEF Filled
    <2>5. F!Idle.pc = "idle"
      BY DEF F!Idle
    <2>6. part # "forms quick" => pkg.res # {}
      BY <2>1 DEF Filled
    <2>7. Filled'
      BY <2>3, <2>4, <2>5, <2>6 DEF Filled
    <2>. QED  BY <2>3, <2>7, FieldsKept
  <1>2. CASE F!Publish(t) \/ F!Die(t)
    <2>1. F!Done(t)
      BY <1>2 DEF F!Publish, F!Die
    <2>2. \/ F!Die(t) /\ pkg' = pkg
          \/ F!Publish(t) /\ formJob[t].copy = pkg /\ pkg' = [pkg EXCEPT !.state = "active"]
      BY <1>2 DEF F!Publish, F!Die, Filled
    <2>3. pkg' \in F!Package /\ pkg'.fields = pkg.fields /\ pkg'.res = pkg.res
      BY <2>2 DEF Filled, F!Package
    <2>4. Filled'
      <3>1. /\ tab' \in [Tabs -> F!Page] /\ formJob' \in [Tabs -> FormJobs]
            /\ \A u \in Tabs : tab'[u].form = "wizard" => tab'[u].seen \in {"none", "draft"}
        BY <2>1, FormTypes DEF F!Done, Filled
      <3>2. F!Idle.pc = "idle"
        BY DEF F!Idle
      <3>3. \A u \in Tabs : formJob'[u] = IF u = t THEN F!Idle ELSE formJob[u]
        BY <2>1 DEF F!Done, Filled
      <3>4. \A u \in Tabs : formJob'[u].pc = "idle"
        BY <1>0, <3>2, <3>3 DEF Filled
      <3>5. \A u \in Tabs : formJob'[u] = F!Idle
        BY <3>3, <3>4, <1>0 DEF Filled
      <3>. QED  BY <2>3, <3>1, <3>4, <3>5 DEF Filled
    <2>5. CASE pkg' = pkg
      BY <2>4, <2>5, FieldsKept
    <2>6. CASE F!Publish(t) /\ pkg' = [pkg EXCEPT !.state = "active"]
      <3>1. pkg'.state = "active"
        BY <2>6 DEF Filled, F!Package
      <3>2. F!BackByOldForm /\ F!FieldsByForm
        BY <2>3, <3>1 DEF F!BackByOldForm, F!FieldsByForm
      <3>3. part # "forms quick" => F!PublishedWithResource
        BY <1>0, <2>3, <2>6 DEF Filled, F!PublishedWithResource, F!Publish
      <3>. QED  BY <2>4, <3>2, <3>3, KeptQuick DEF FormsStep, F!Kept
    <2>. QED  BY <2>2, <2>5, <2>6
  <1>. QED  BY <1>1, <1>2 DEF Rests

\* A resource is deleted, or the dataset, when no form is served.
LEMMA DeletesFill ==
    ASSUME IsFiniteSet(Tabs), Filled, UNCHANGED part, F!DeleteResource \/ F!DeleteDataset
    PROVE  Filled' /\ FormsStep
  <1>1. \A u \in Tabs : formJob[u] = F!Idle
    BY NobodyServed DEF F!DeleteResource, F!DeleteDataset, F!Quiet
  <1>2. F!Idle.pc = "idle"
    BY DEF F!Idle
  <1>3. /\ pkg' \in F!Package /\ pkg'.state \in {pkg.state, "deleted"}
        /\ pkg'.fields = pkg.fields /\ tab' = tab /\ formJob' = formJob
    BY DEF F!DeleteResource, F!DeleteDataset, Filled, F!Package
  <1>4. Filled'
    BY <1>1, <1>2, <1>3 DEF Filled
  <1>. QED  BY <1>3, <1>4, FieldsKept

\* The forms of a site keep what they do not show, and publish no dataset
\* without the resources that are required: with any number of tabs, whatever
\* they show by now, while one form is served at a time and its process may die.
THEOREM FormsAlwaysKept ==
    ASSUME IsFiniteSet(Tabs)
    PROVE  StateSpec => FormsKept
  <1>1. StateInit => Filled
    BY InitFilled DEF StateInit
  <1>2. Filled /\ [StateNext]_<<part, vars, store, forms, given, tags, patches>>
          => Filled' /\ (FormsStep \/ UNCHANGED forms)
    <2> SUFFICES ASSUME Filled,
                        [StateNext]_<<part, vars, store, forms, given, tags, patches>>
                 PROVE  Filled' /\ (FormsStep \/ UNCHANGED forms)
      OBVIOUS
    <2>1. UNCHANGED part
      BY DEF StateNext
    <2>2. \/ UNCHANGED forms
          \/ part = "forms" /\ F!Next
          \/ part = "forms quick" /\ Q!Next
      BY DEF StateNext
    <2>3. CASE UNCHANGED forms
      BY <2>1, <2>3 DEF forms, Filled
    <2>4. CASE (part = "forms" /\ F!Next) \/ (part = "forms quick" /\ Q!Next)
      <3>1. \/ \E t \in Tabs : \/ Pages(t) \/ Posts(t) \/ Rests(t)
                               \/ part # "forms quick" /\ F!PostNew(t)
                               \/ part = "forms quick" /\ Q!PostNew(t)
            \/ F!DeleteResource \/ F!DeleteDataset
        <4>1. CASE part = "forms" /\ F!Next
          BY <4>1 DEF F!Next, Pages, Posts, Rests
        <4>. QED  BY <2>4, <4>1, QuickForms
      <3>2. ASSUME NEW t \in Tabs, Pages(t)
            PROVE  Filled' /\ FormsStep
        BY <2>1, <3>2, PagesFill, FieldsKept
      <3>. QED  BY <2>1, <3>1, <3>2, NewFills, EditFills, EmptyFills, ResourceFills, RestsFill,
                   DeletesFill DEF Posts
    <2>. QED  BY <2>2, <2>3, <2>4
  <1>. QED  BY <1>1, <1>2, PTL DEF StateSpec, FormsKept, FormsStep

-----------------------------------------------------------------------------
(* The records of requests that write to the table.                        *)

\* Batches are lists of records, of which there is one at least.
Batched ==
    /\ MaxRows \in Nat
    /\ Null \notin Keys /\ Null \notin Numbers
    /\ Batches \subseteq Seq(S!Record)
    /\ <<>> \notin Batches

\* A record does not take the row of another one of its batch: they are told
\* apart by their keys.
Apart(batch) ==
    \/ Len(batch) = 1
    \/ \A m, n \in 1..Len(batch) :
         /\ batch[m].id = S!NoId
         /\ m # n => batch[m].key # batch[n].key \/ batch[m].key = Null

Rows == S!Row \cup {S!Absent}
StoreJobs == [pc : {"idle", "begin", "write", "insert", "blocked", "done"},
              method : {"insert", "update", "upsert"}, dry : BOOLEAN,
              all : Batches \cup {<<>>}, left : Seq(S!Record), put : [S!Ids -> Rows]]

\* What a record says of its row.
Content(r) == [key |-> r.key, val |-> r.val]

\* The records that request q has yet to write are the last of its batch.
Ahead(q) ==
    /\ Len(q.left) <= Len(q.all)
    /\ \A m \in 1..Len(q.left) : q.left[m] = q.all[Len(q.all) - Len(q.left) + m]

\* A row of the transaction holds the record with number m.
Holds(q, m) ==
    \E i \in S!Ids : /\ q.put[i] = Content(q.all[m])
                     /\ q.method = "update" /\ q.all[m].id # S!NoId => i = q.all[m].id

\* Requests that RecordsLand is about.
Watched(q) == (part = "store" \/ q.method # "upsert") /\ Apart(q.all)

\* What is known of a request: its rows have been numbered, the records that
\* are not ahead are in them, and so is one that an upsert has found.
Sound(w, q) ==
    /\ q.pc \in {"idle", "begin"} => q.put = S!NoRows
    /\ \A i \in S!Ids : q.put[i] # S!Absent => i < serial
    /\ q.pc # "idle" => q.all \in Batches /\ Ahead(q)
    /\ q.pc = "begin" => q.left = q.all
    /\ q.pc = "done" => q.left = <<>>
    /\ q.pc \in {"write", "insert", "blocked"} => q.left # <<>>
    /\ q.pc = "insert" => q.method = "upsert"
    /\ q.pc = "blocked" => q.method # "update"
    /\ q.pc # "idle" /\ Watched(q) =>
         \A m \in 1..(Len(q.all) - Len(q.left)) : Holds(q, m)
    /\ part = "store" /\ q.pc = "insert" =>
         \A i \in S!Matching(S!Visible(w), Head(q.left)) : q.put[i] = Content(Head(q.left))

Recorded ==
    /\ rows \in [S!Ids -> Rows]
    /\ serial \in Nat \ {0}
    /\ \A i \in S!Ids : rows[i] # S!Absent => i < serial
    /\ storeJob \in [Workers -> StoreJobs]
    /\ part = "store" => \A w \in Workers \ {One} : storeJob[w].pc = "idle"
    /\ \A w \in Workers : Sound(w, storeJob[w])

\* A request begins, whatever else runs.
Begins(w) ==
    /\ storeJob[w].pc = "idle"
    /\ \E method \in {"insert", "update", "upsert"}, batch \in Batches, dry \in BOOLEAN :
         storeJob' = [storeJob EXCEPT ![w] =
            [S!Idle EXCEPT !.pc = "begin", !.method = method, !.dry = dry,
                           !.all = batch, !.left = batch]]
    /\ UNCHANGED <<rows, serial>>

\* Rows of requests that take one statement.
Whole ==
    /\ UNCHANGED storeJob
    /\ \/ UNCHANGED <<rows, serial>>
       \/ /\ \A w \in Workers : storeJob[w].pc \in {"idle", "begin"}
          /\ rows' \in [S!Ids -> Rows] /\ serial' \in Nat \ {0}
          /\ \A i \in S!Ids : rows'[i] # S!Absent => i < serial'
       \/ /\ UNCHANGED serial
          /\ \E gone \in SUBSET S!Ids :
               rows' = [i \in S!Ids |-> IF i \in gone THEN S!Absent ELSE rows[i]]

LEMMA RowTypes ==
    ASSUME Batched
    PROVE  /\ S!Absent \notin S!Row
           /\ S!NoRows \in [S!Ids -> Rows]
           /\ S!Idle \in StoreJobs
           /\ \A r \in S!Record : Content(r) \in S!Row
           /\ \A i \in S!Ids : i \in Nat \ {0}
  BY DEF Batched, S!Absent, S!Row, Rows, S!NoRows, S!Idle, StoreJobs, S!Record, Content, S!Ids

LEMMA InitRecorded ==
    ASSUME Batched, S!Init
    PROVE  Recorded
  <1>1. \A w \in Workers : storeJob[w] = S!Idle
    BY DEF S!Init
  <1>2. rows = S!NoRows /\ serial = 1 /\ \A i \in S!Ids : S!NoRows[i] = S!Absent
    BY DEF S!Init, S!NoRows
  <1>3. \A w : Sound(w, S!Idle)
    BY <1>2 DEF Sound, S!Idle
  <1>4. storeJob \in [Workers -> StoreJobs] /\ S!Idle.pc = "idle"
    BY RowTypes DEF S!Init, S!Idle
  <1>. QED  BY <1>1, <1>2, <1>3, <1>4, RowTypes DEF Recorded

LEMMA BatchTypes ==
    ASSUME Batched, NEW b \in Batches
    PROVE  /\ b \in Seq(S!Record) /\ Len(b) \in Nat \ {0} /\ DOMAIN b = 1..Len(b)
           /\ \A m \in 1..Len(b) : b[m] \in S!Record
  BY EmptySeq, LenProperties, ElementOfSeq DEF Batched

\* What is ahead when one record is written.
LEMMA TailAhead ==
    ASSUME NEW X, NEW l \in Seq(X), l # <<>>
    PROVE  /\ Len(l) \in Nat \ {0} /\ Head(l) = l[1]
           /\ Tail(l) \in Seq(X) /\ Len(Tail(l)) = Len(l) - 1
           /\ \A m \in 1..(Len(l) - 1) : Tail(l)[m] = l[m + 1]
           /\ Tail(l) = <<>> <=> Len(l) = 1
  <1>1. Len(l) \in Nat
    BY LenProperties
  <1>2. Len(l) # 0
    BY EmptySeq
  <1>3. /\ Tail(l) \in Seq(X) /\ Len(Tail(l)) = Len(l) - 1
        /\ \A m \in 1..(Len(l) - 1) : Tail(l)[m] = l[m + 1]
    BY HeadTailProperties
  <1>4. Tail(l) = <<>> <=> Len(Tail(l)) = 0
    BY <1>3, EmptySeq
  <1>. QED  BY <1>1, <1>2, <1>3, <1>4

\* On to the next record.
LEMMA Advances ==
    ASSUME Batched, NEW q \in StoreJobs, q.all \in Batches, Ahead(q), q.left # <<>>
    PROVE  /\ S!Advance(q) \in StoreJobs
           /\ Ahead(S!Advance(q))
           /\ Len(S!Advance(q).left) = Len(q.left) - 1
           /\ S!Advance(q).all = q.all /\ S!Advance(q).put = q.put
           /\ S!Advance(q).method = q.method /\ S!Advance(q).dry = q.dry
           /\ \/ S!Advance(q).pc = "done" /\ S!Advance(q).left = <<>>
              \/ S!Advance(q).pc = "write" /\ S!Advance(q).left # <<>>
           /\ Len(q.all) - Len(q.left) + 1 \in 1..Len(q.all)
           /\ Len(q.left) \in Nat \ {0}
           /\ Head(q.left) = q.all[Len(q.all) - Len(q.left) + 1]
  <1>1. q.left \in Seq(S!Record)
    BY DEF StoreJobs
  <1>2. /\ Len(q.left) \in Nat \ {0} /\ Head(q.left) = q.left[1]
        /\ Tail(q.left) \in Seq(S!Record) /\ Len(Tail(q.left)) = Len(q.left) - 1
        /\ \A m \in 1..(Len(q.left) - 1) : Tail(q.left)[m] = q.left[m + 1]
        /\ Tail(q.left) = <<>> <=> Len(q.left) = 1
    BY <1>1, TailAhead
  <1>3. Len(q.all) \in Nat
    BY BatchTypes
  <1>4. /\ S!Advance(q).left = Tail(q.left)
        /\ S!Advance(q).pc = IF Len(q.left) = 1 THEN "done" ELSE "write"
        /\ S!Advance(q).all = q.all /\ S!Advance(q).put = q.put
        /\ S!Advance(q).method = q.method /\ S!Advance(q).dry = q.dry
        /\ S!Advance(q) \in StoreJobs
    BY <1>2 DEF StoreJobs, S!Advance
  <1>5. /\ Len(q.left) <= Len(q.all)
        /\ \A m \in 1..Len(q.left) : q.left[m] = q.all[Len(q.all) - Len(q.left) + m]
    BY DEF Ahead
  <1>. DEFINE n == Len(q.left)
              k == Len(q.all)
  <1>6. n \in Nat \ {0} /\ k \in Nat /\ n <= k
    BY <1>2, <1>3, <1>5
  <1>7. Head(q.left) = q.all[k - n + 1]
    <2>1. 1 \in 1..n
      BY <1>6
    <2>. QED  BY <1>2, <1>5, <2>1
  <1>8. ASSUME NEW m \in 1..(n - 1)
        PROVE  Tail(q.left)[m] = q.all[k - (n - 1) + m]
    <2>1. Tail(q.left)[m] = q.left[m + 1]
      BY <1>2
    <2>2. m + 1 \in 1..n /\ k - (n - 1) + m = k - n + (m + 1)
      <3>. HIDE DEF n, k
      <3>. QED  BY <1>6
    <2>3. q.left[m + 1] = q.all[k - n + (m + 1)]
      BY <1>5, <2>2
    <2>. QED  BY <2>1, <2>2, <2>3
  <1>9. Ahead(S!Advance(q))
    <2>1. Len(S!Advance(q).left) = n - 1 /\ Len(S!Advance(q).all) = k
      BY <1>2, <1>4
    <2>2. n - 1 <= k
      <3>. HIDE DEF n, k
      <3>. QED  BY <1>6
    <2>3. \A m \in 1..(n - 1) : S!Advance(q).left[m] = S!Advance(q).all[k - (n - 1) + m]
      BY <1>4, <1>8
    <2>. HIDE DEF n, k
    <2>. QED  BY <2>1, <2>2, <2>3 DEF Ahead
  <1>10. k - n + 1 \in 1..k
    <2>. HIDE DEF n, k
    <2>. QED  BY <1>6
  <1>. QED  BY <1>2, <1>4, <1>7, <1>9, <1>10

\* What is known of a request that does nothing: rows that another one commits
\* matter to an upsert in a race only.
LEMMA SoundKept ==
    ASSUME Recorded, UNCHANGED part, serial' \in Nat, serial <= serial',
           NEW w \in Workers, storeJob'[w] = storeJob[w],
           rows' = rows \/ part # "store" \/ storeJob[w].pc # "insert"
    PROVE  Sound(w, storeJob[w])'
  <1>. DEFINE q == storeJob[w]
  <1>1. Sound(w, q)
    BY DEF Recorded
  <1>2. \A i \in S!Ids : i < serial => i < serial'
    BY DEF Recorded, S!Ids
  <1>3. part = "store" /\ q.pc = "insert" => S!Visible(w)' = S!Visible(w)
    BY DEF S!Visible
  <1>4. Watched(q)' <=> Watched(q)
    BY DEF Watched
  <1>. HIDE DEF q
  <1>5. Sound(w, q)'
    BY <1>1, <1>2, <1>3, <1>4 DEF Sound, q
  <1>. QED  BY <1>5 DEF q

\* The request of one worker goes on; its rows are numbered.
LEMMA WriterStep ==
    ASSUME Recorded, UNCHANGED <<part, rows>>, serial' \in Nat \ {0}, serial <= serial',
           NEW w \in Workers, NEW q \in StoreJobs, storeJob' = [storeJob EXCEPT ![w] = q],
           part = "store" => w = One \/ q.pc = "idle",
           Sound(w, q)'
    PROVE  Recorded'
  <1>1. storeJob' \in [Workers -> StoreJobs] /\ storeJob'[w] = q
        /\ \A x \in Workers \ {w} : storeJob'[x] = storeJob[x]
    BY DEF Recorded
  <1>2. \A x \in Workers \ {w} : Sound(x, storeJob[x])'
    BY <1>1, SoundKept DEF Recorded
  <1>3. \A i \in S!Ids : rows'[i] # S!Absent => i < serial'
    BY DEF Recorded, S!Ids
  <1>4. part' = "store" => \A x \in Workers \ {One} : storeJob'[x].pc = "idle"
    BY <1>1 DEF Recorded
  <1>5. \A x \in Workers : Sound(x, storeJob[x])'
    <2>1. Sound(w, storeJob[w])'
      BY <1>1
    <2>. QED  BY <1>2, <2>1
  <1>6. rows' \in [S!Ids -> Rows]
    BY DEF Recorded
  <1>. QED  BY <1>1, <1>3, <1>4, <1>5, <1>6 DEF Recorded

\* A request ends, and its rows are committed or not.
LEMMA EndRecords ==
    ASSUME Batched, Recorded, UNCHANGED part, serial' \in Nat \ {0}, serial <= serial',
           NEW w \in Workers, S!End(w),
           rows' = rows \/ (storeJob[w].pc # "idle" /\ rows' = S!Visible(w))
    PROVE  Recorded'
  <1>0. \A i \in S!Ids : i < serial => i < serial'
    BY DEF Recorded, S!Ids
  <1>1. /\ storeJob' \in [Workers -> StoreJobs] /\ storeJob'[w] = S!Idle /\ S!Idle.pc = "idle"
        /\ \A x \in Workers \ {w} : storeJob'[x] = storeJob[x]
    BY RowTypes DEF Recorded, S!End, S!Idle
  <1>2. part = "store" => rows' = rows \/ w = One
    BY DEF Recorded
  <1>3. rows' \in [S!Ids -> Rows] /\ \A i \in S!Ids : rows'[i] # S!Absent => i < serial'
    <2>1. CASE rows' = rows
      <3>1. rows' \in [S!Ids -> Rows] /\ \A i \in S!Ids : rows'[i] # S!Absent => i < serial
        BY <2>1 DEF Recorded
      <3>. QED  BY <1>0, <3>1
    <2>2. CASE rows' = S!Visible(w)
      <3>1. storeJob[w].put \in [S!Ids -> Rows]
            /\ \A i \in S!Ids : storeJob[w].put[i] # S!Absent => i < serial
        BY DEF Recorded, Sound, StoreJobs
      <3>2. rows' \in [S!Ids -> Rows] /\ \A i \in S!Ids : rows'[i] # S!Absent => i < serial
        BY <2>2, <3>1 DEF Recorded, S!Visible
      <3>. QED  BY <3>2, <1>0
    <2>. QED  BY <1>0, <2>1, <2>2 DEF Recorded
  <1>4. ASSUME NEW x \in Workers \ {w}
        PROVE  Sound(x, storeJob[x])'
    <2>1. rows' = rows \/ part # "store" \/ storeJob[x].pc # "insert"
      BY <1>2 DEF Recorded
    <2>2. serial' \in Nat /\ serial <= serial'
      BY DEF Recorded
    <2>. QED  BY <1>1, <2>1, <2>2, SoundKept
  <1>5. Sound(w, S!Idle)'
    <2>1. S!Idle.pc = "idle" /\ S!Idle.put = S!NoRows /\ \A i \in S!Ids : S!NoRows[i] = S!Absent
      BY DEF S!Idle, S!NoRows
    <2>. QED  BY <2>1 DEF Sound
  <1>6. \A x \in Workers : Sound(x, storeJob[x])'
    <2>1. Sound(w, storeJob[w])'
      BY <1>1, <1>5
    <2>. QED  BY <1>4, <2>1
  <1>7. part' = "store" => \A x \in Workers \ {One} : storeJob'[x].pc = "idle"
    BY <1>1 DEF Recorded
  <1>8. serial' \in Nat \ {0}
    BY DEF Recorded
  <1>. QED  BY <1>1, <1>3, <1>6, <1>7, <1>8 DEF Recorded

\* Requests of one statement change rows that nobody has written.
LEMMA WholeRecords ==
    ASSUME Batched, Recorded, UNCHANGED part, Whole
    PROVE  Recorded'
  <1>0. UNCHANGED storeJob
    BY DEF Whole
  <1>1. CASE UNCHANGED <<rows, serial>>
    <2>1. serial' \in Nat /\ serial <= serial'
      BY <1>1 DEF Recorded
    <2>2. \A w \in Workers : Sound(w, storeJob[w])'
      BY <1>0, <1>1, <2>1, SoundKept
    <2>. QED  BY <1>0, <1>1, <2>2 DEF Recorded
  <1>2. CASE /\ \A w \in Workers : storeJob[w].pc \in {"idle", "begin"}
             /\ rows' \in [S!Ids -> Rows] /\ serial' \in Nat \ {0}
             /\ \A i \in S!Ids : rows'[i] # S!Absent => i < serial'
    <2>1. ASSUME NEW w \in Workers
          PROVE  Sound(w, storeJob[w])'
      <3>1. Sound(w, storeJob[w]) /\ storeJob[w].pc \in {"idle", "begin"}
        BY <1>2 DEF Recorded
      <3>2. \A i \in S!Ids : storeJob[w].put[i] = S!Absent
        BY <3>1 DEF Sound, S!NoRows
      <3>3. Watched(storeJob[w])' <=> Watched(storeJob[w])
        BY <1>0 DEF Watched
      <3>. QED  BY <1>0, <3>1, <3>2, <3>3 DEF Sound
    <2>. QED  BY <1>0, <1>2, <2>1 DEF Recorded
  <1>3. ASSUME UNCHANGED serial, NEW gone \in SUBSET S!Ids,
               rows' = [i \in S!Ids |-> IF i \in gone THEN S!Absent ELSE rows[i]]
        PROVE  Recorded'
    <2>1. rows' \in [S!Ids -> Rows] /\ \A i \in S!Ids : rows'[i] # S!Absent => i < serial
      BY <1>3 DEF Recorded, Rows
    <2>2. ASSUME NEW w \in Workers
          PROVE  Sound(w, storeJob[w])'
      <3>1. Sound(w, storeJob[w])
        BY DEF Recorded
      <3>2. \A r : S!Matching(S!Visible(w)', r) \subseteq S!Matching(S!Visible(w), r)
        BY <1>0, <1>3 DEF S!Matching, S!Stored, S!Visible
      <3>3. Watched(storeJob[w])' <=> Watched(storeJob[w])
        BY <1>0 DEF Watched
      <3>4. \A i \in S!Matching(S!Visible(w)', Head(storeJob[w].left)) :
              i \in S!Matching(S!Visible(w), Head(storeJob[w].left))
        BY <3>2
      <3>. QED  BY <1>0, <1>3, <3>1, <3>3, <3>4 DEF Sound
    <2>. QED  BY <1>0, <1>3, <2>1, <2>2 DEF Recorded
  <1>. QED  BY <1>1, <1>2, <1>3 DEF Whole

\* The worker whose request goes on; in a store that serves one after another,
\* it is that one.
LEMMA Serves ==
    ASSUME Recorded, NEW w \in Workers, storeJob[w].pc # "idle"
    PROVE  part = "store" => w = One
  BY DEF Recorded

LEMMA BeginRecords ==
    ASSUME Batched, Recorded, UNCHANGED part, NEW w \in Workers, Begins(w),
           part = "store" => w = One
    PROVE  Recorded'
  <1>1. PICK method \in {"insert", "update", "upsert"}, batch \in Batches, dry \in BOOLEAN :
          storeJob' = [storeJob EXCEPT ![w] =
            [S!Idle EXCEPT !.pc = "begin", !.method = method, !.dry = dry,
                           !.all = batch, !.left = batch]]
    BY DEF Begins
  <1>2. PICK q \in StoreJobs :
          q = [S!Idle EXCEPT !.pc = "begin", !.method = method, !.dry = dry,
                             !.all = batch, !.left = batch]
    BY RowTypes, BatchTypes DEF S!Idle, StoreJobs
  <1>3. /\ q.pc = "begin" /\ q.put = S!NoRows /\ q.all = batch /\ q.left = batch
        /\ \A i \in S!Ids : S!NoRows[i] = S!Absent
    BY <1>2 DEF S!Idle, S!NoRows
  <1>4. Len(batch) \in Nat \ {0} /\ Ahead(q)
    <2>. DEFINE k == Len(batch)
    <2>1. k \in Nat \ {0}
      BY BatchTypes
    <2>2. k <= k /\ \A m \in 1..k : k - k + m = m
      <3>. HIDE DEF k
      <3>. QED  BY <2>1
    <2>. QED  BY <1>3, <2>1, <2>2 DEF Ahead
  <1>5. \A m \in 1..(Len(q.all) - Len(q.left)) : FALSE
    BY <1>3, <1>4
  <1>6. Sound(w, q)'
    BY <1>3, <1>4, <1>5 DEF Sound
  <1>7. storeJob' = [storeJob EXCEPT ![w] = q] /\ UNCHANGED <<rows, serial>>
    BY <1>1, <1>2 DEF Begins
  <1>8. serial' \in Nat \ {0} /\ serial <= serial'
    BY <1>7 DEF Recorded
  <1>. QED  BY <1>6, <1>7, <1>8, WriterStep

LEMMA SchemaRecords ==
    ASSUME Batched, Recorded, UNCHANGED part, NEW w \in Workers, S!ReadSchema(w)
    PROVE  Recorded'
  <1>0. UNCHANGED <<rows, serial>> /\ storeJob[w].pc = "begin" /\ serial' \in Nat \ {0} /\ serial <= serial'
    BY DEF S!ReadSchema, S!Serving, S!Step, Recorded
  <1>1. CASE S!End(w)
    BY <1>0, <1>1, EndRecords
  <1>2. CASE storeJob' = [storeJob EXCEPT ![w].pc = "write"]
    <2>0. PICK o : o = storeJob[w]
      OBVIOUS
    <2>1. o \in StoreJobs /\ Sound(w, o) /\ o.pc = "begin"
      BY <1>0, <2>0 DEF Recorded
    <2>9. PICK q : q = [o EXCEPT !.pc = "write"]
      OBVIOUS
    <2>2. /\ q \in StoreJobs /\ q.pc = "write" /\ q.all = o.all /\ q.left = o.left
          /\ q.put = o.put /\ q.method = o.method
      BY <2>1, <2>9 DEF StoreJobs
    <2>3. o.all \in Batches /\ o.left = o.all /\ o.left # <<>>
      BY <2>1 DEF Sound, Batched
    <2>4. Ahead(q)
      BY <2>1, <2>2 DEF Sound, Ahead
    <2>5. Watched(q)' => \A m \in 1..(Len(q.all) - Len(q.left)) : Holds(q, m)
      BY <2>1, <2>2 DEF Sound, Watched, Holds
    <2>6. \A i \in S!Ids : q.put[i] # S!Absent => i < serial'
      BY <1>0, <2>1, <2>2 DEF Sound
    <2>7. Sound(w, q)'
      BY <2>2, <2>3, <2>4, <2>5, <2>6 DEF Sound
    <2>8. storeJob' = [storeJob EXCEPT ![w] = q]
      BY <1>2, <2>0, <2>9
    <2>. QED  BY <1>0, <2>2, <2>7, <2>8, WriterStep, Serves
  <1>. QED  BY <1>1, <1>2 DEF S!ReadSchema

\* A record that is written takes no row of one before it.
LEMMA EarlierHeld ==
    ASSUME Batched, Recorded, NEW w \in Workers,
           storeJob[w].pc \in {"write", "insert", "blocked"}, Watched(storeJob[w]),
           NEW p \in [S!Ids -> Rows],
           \A i \in S!Ids : \/ p[i] = storeJob[w].put[i]
                            \/ storeJob[w].put[i] = S!Absent
                            \/ i \in S!Matching(S!Visible(w), Head(storeJob[w].left)),
           NEW m \in 1..(Len(storeJob[w].all) - Len(storeJob[w].left))
    PROVE  Holds([storeJob[w] EXCEPT !.put = p], m)
  <1>. DEFINE q == storeJob[w]
              r == Head(q.left)
              n == Len(q.left)
              k == Len(q.all)
  <1>1. q \in StoreJobs /\ Sound(w, q) /\ q.all \in Batches /\ Ahead(q) /\ q.left # <<>>
    BY DEF Recorded, Sound
  <1>2. /\ k - n + 1 \in 1..k /\ n \in Nat \ {0} /\ r = q.all[k - n + 1] /\ k \in Nat
        /\ \A j \in 1..k : q.all[j] \in S!Record
    BY <1>1, Advances, BatchTypes
  <1>3. PICK i \in S!Ids : /\ q.put[i] = Content(q.all[m])
                           /\ q.method = "update" /\ q.all[m].id # S!NoId => i = q.all[m].id
    BY <1>1 DEF Sound, Holds
  <1>4. m \in 1..k /\ m # k - n + 1 /\ k # 1
    <2>. HIDE DEF n, k
    <2>1. m \in 1..(k - n)
      BY DEF n, k, q
    <2>. QED  BY <1>2, <2>1
  <1>5. q.put[i] # S!Absent
    BY <1>2, <1>3, <1>4, RowTypes
  <1>6. p[i] = q.put[i]
    <2> SUFFICES ASSUME i \in S!Matching(S!Visible(w), r) PROVE FALSE
      BY <1>5
    <2>1. S!Visible(w)[i] = q.put[i]
      BY <1>5 DEF S!Visible
    <2>2. /\ q.all[k - n + 1].id = S!NoId
          /\ q.all[m].key # q.all[k - n + 1].key \/ q.all[m].key = Null
      BY <1>2, <1>4 DEF Watched, Apart
    <2>3. r.key # Null /\ S!Visible(w)[i].key = r.key
      BY <1>2, <2>2 DEF S!Matching
    <2>4. q.put[i].key = q.all[m].key
      BY <1>3 DEF Content
    <2>5. q.all[m].key = q.all[k - n + 1].key /\ q.all[m].key # Null
      BY <1>2, <2>1, <2>3, <2>4
    <2>. QED  BY <2>2, <2>5
  <1>7. [q EXCEPT !.put = p].put = p /\ [q EXCEPT !.put = p].all = q.all
        /\ [q EXCEPT !.put = p].method = q.method
    BY <1>1 DEF StoreJobs
  <1>. QED  BY <1>3, <1>6, <1>7 DEF Holds

\* The record is written, and it is the next one's turn.
LEMMA WrittenSound ==
    ASSUME Batched, Recorded, UNCHANGED part, NEW w \in Workers,
           storeJob[w].pc \in {"write", "insert", "blocked"},
           NEW p \in [S!Ids -> Rows],
           \A i \in S!Ids : \/ p[i] = storeJob[w].put[i]
                            \/ storeJob[w].put[i] = S!Absent
                            \/ i \in S!Matching(S!Visible(w), Head(storeJob[w].left)),
           \A i \in S!Ids : p[i] # S!Absent => i < serial',
           Watched(storeJob[w]) =>
             \E i \in S!Ids :
               /\ p[i] = Content(Head(storeJob[w].left))
               /\ storeJob[w].method = "update" /\ Head(storeJob[w].left).id # S!NoId
                    => i = Head(storeJob[w].left).id
    PROVE  \E a \in StoreJobs : /\ a = S!Advance([storeJob[w] EXCEPT !.put = p])
                                /\ a.pc # "idle" /\ Sound(w, a)'
  <1>0. PICK o : o = storeJob[w]
    OBVIOUS
  <1>1. o \in StoreJobs /\ o.all \in Batches /\ Ahead(o) /\ o.left # <<>>
    BY <1>0 DEF Recorded, Sound
  <1>2. PICK q : q = [o EXCEPT !.put = p]
    OBVIOUS
  <1>3. /\ q \in StoreJobs /\ q.all = o.all /\ q.left = o.left /\ q.put = p
        /\ q.method = o.method
    BY <1>1, <1>2 DEF StoreJobs
  <1>4. Ahead(q)
    BY <1>1, <1>3 DEF Ahead
  <1>5. PICK a : a = S!Advance(q)
    OBVIOUS
  <1>. DEFINE n == Len(o.left)
              k == Len(o.all)
  <1>6. /\ a \in StoreJobs /\ Ahead(a) /\ Len(a.left) = n - 1
        /\ a.all = o.all /\ a.put = p /\ a.method = o.method
        /\ \/ a.pc = "done" /\ a.left = <<>>
           \/ a.pc = "write" /\ a.left # <<>>
        /\ k - n + 1 \in 1..k /\ n \in Nat \ {0}
        /\ Head(o.left) = o.all[k - n + 1]
    BY <1>1, <1>3, <1>4, <1>5, Advances
  <1>7. ASSUME Watched(o), NEW m \in 1..(k - (n - 1))
        PROVE  Holds(a, m)
    <2>1. k \in Nat
      BY <1>1, BatchTypes
    <2>2. m \in 1..(k - n) \/ m = k - n + 1
      <3>. HIDE DEF n, k
      <3>. QED  BY <1>6, <2>1
    <2>3. CASE m \in 1..(k - n)
      <3>1. Holds(q, m)
        BY <1>0, <1>2, <1>7, <2>3, EarlierHeld
      <3>. QED  BY <1>3, <1>6, <3>1 DEF Holds
    <2>4. CASE m = k - n + 1
      BY <1>0, <1>6, <1>7, <2>4 DEF Holds
    <2>. QED  BY <2>2, <2>3, <2>4
  <1>8. Watched(a)' <=> Watched(o)
    BY <1>6 DEF Watched
  <1>9. Watched(a)' => \A m \in 1..(Len(a.all) - Len(a.left)) : Holds(a, m)
    BY <1>6, <1>7, <1>8
  <1>10. \A i \in S!Ids : a.put[i] # S!Absent => i < serial'
    BY <1>6
  <1>11. a.all \in Batches
    BY <1>1, <1>6
  <1>12. Sound(w, a)'
    BY <1>6, <1>9, <1>10, <1>11 DEF Sound
  <1>13. a = S!Advance([storeJob[w] EXCEPT !.put = p])
    BY <1>0, <1>2, <1>5
  <1>. QED  BY <1>6, <1>12, <1>13

\* The rows that a request sees have been numbered.
LEMMA MatchingRows ==
    ASSUME Recorded, NEW w \in Workers, NEW r, NEW i \in S!Matching(S!Visible(w), r)
    PROVE  /\ i \in S!Ids /\ i < serial
           /\ r.id # S!NoId => i = r.id
  <1>1. i \in S!Ids /\ S!Visible(w)[i] # S!Absent
    BY DEF S!Matching, S!Stored
  <1>2. storeJob[w].put[i] # S!Absent \/ rows[i] # S!Absent
    BY <1>1 DEF S!Visible
  <1>. QED  BY <1>1, <1>2 DEF Recorded, Sound, S!Matching

LEMMA RecordAhead ==
    ASSUME Batched, Recorded, NEW w \in Workers,
           storeJob[w].pc \in {"write", "insert", "blocked"}
    PROVE  /\ Head(storeJob[w].left) \in S!Record
           /\ Content(Head(storeJob[w].left)) \in S!Row
           /\ storeJob[w] \in StoreJobs /\ Sound(w, storeJob[w])
           /\ part = "store" => w = One
  <1>1. /\ storeJob[w] \in StoreJobs /\ Sound(w, storeJob[w])
        /\ storeJob[w].left \in Seq(S!Record) /\ storeJob[w].left # <<>>
    BY DEF Recorded, Sound, StoreJobs
  <1>2. Head(storeJob[w].left) \in S!Record
    BY <1>1, HeadTailProperties
  <1>. QED  BY <1>1, <1>2, RowTypes, Serves

LEMMA UpdateRecords ==
    ASSUME Batched, Recorded, UNCHANGED part, NEW w \in Workers, S!Update(w)
    PROVE  Recorded'
  <1>0. /\ UNCHANGED <<rows, serial>> /\ storeJob[w].pc = "write"
        /\ serial' \in Nat \ {0} /\ serial <= serial'
    BY DEF S!Update, S!Serving, S!Step, Recorded
  <1>1. PICK o, r : o = storeJob[w] /\ r = Head(o.left)
    OBVIOUS
  <1>2. /\ o \in StoreJobs /\ Sound(w, o) /\ r \in S!Record /\ Content(r) \in S!Row
        /\ part = "store" => w = One
    BY <1>0, <1>1, RecordAhead
  <1>3. PICK found : found = S!Matching(S!Visible(w), r)
    OBVIOUS
  <1>4. \A i \in found : i \in S!Ids /\ i < serial /\ (r.id # S!NoId => i = r.id)
    BY <1>3, MatchingRows
  <1>5. PICK p : p = [i \in S!Ids |-> IF i \in found THEN Content(r) ELSE o.put[i]]
    OBVIOUS
  <1>6. p \in [S!Ids -> Rows]
    BY <1>2, <1>5 DEF StoreJobs, Rows
  <1>7. \A i \in S!Ids : p[i] # S!Absent => i < serial'
    BY <1>0, <1>2, <1>4, <1>5 DEF Sound
  <1>8. \A i \in S!Ids : p[i] = o.put[i] \/ i \in found
    BY <1>5
  <1>9. \/ S!End(w)
        \/ /\ o.method = "update" /\ S!Cardinality(found) = 1
           /\ storeJob' = [storeJob EXCEPT ![w] = S!Advance([o EXCEPT !.put = p])]
        \/ /\ o.method \notin {"insert", "update"}
           /\ storeJob' = [storeJob EXCEPT ![w] = [o EXCEPT !.put = p, !.pc = "insert"]]
    BY <1>1, <1>3, <1>5 DEF S!Update, Content
  <1>10. CASE S!End(w)
    BY <1>0, <1>10, EndRecords
  <1>11. CASE /\ o.method = "update" /\ S!Cardinality(found) = 1
              /\ storeJob' = [storeJob EXCEPT ![w] = S!Advance([o EXCEPT !.put = p])]
    <2>1. found # {}
      <3>1. S!Cardinality({}) = 0
        BY FS_EmptySet DEF S!Cardinality, Cardinality, S!IsFiniteSet, IsFiniteSet
      <3>. QED  BY <1>11, <3>1
    <2>2. \E i \in S!Ids : p[i] = Content(r) /\ (o.method = "update" /\ r.id # S!NoId => i = r.id)
      BY <1>4, <1>5, <2>1
    <2>3. \E a \in StoreJobs : /\ a = S!Advance([storeJob[w] EXCEPT !.put = p])
                               /\ a.pc # "idle" /\ Sound(w, a)'
      BY <1>0, <1>1, <1>3, <1>6, <1>7, <1>8, <2>2, WrittenSound
    <2>. QED  BY <1>0, <1>1, <1>2, <1>11, <2>3, WriterStep
  <1>12. CASE /\ o.method \notin {"insert", "update"}
              /\ storeJob' = [storeJob EXCEPT ![w] = [o EXCEPT !.put = p, !.pc = "insert"]]
    <2>1. PICK q : q = [o EXCEPT !.put = p, !.pc = "insert"]
      OBVIOUS
    <2>2. /\ q \in StoreJobs /\ q.pc = "insert" /\ q.method = "upsert" /\ q.put = p
          /\ q.all = o.all /\ q.left = o.left
      BY <1>2, <1>6, <1>12, <2>1 DEF StoreJobs
    <2>3. storeJob'[w] = q
      BY <1>12, <2>1 DEF Recorded
    <2>4. /\ o.all \in Batches /\ Ahead(o) /\ o.left # <<>> /\ o.pc = "write"
      BY <1>0, <1>1, <1>2 DEF Sound
    <2>5. Ahead(q)
      BY <2>2, <2>4 DEF Ahead
    <2>6. Watched(q)' => \A m \in 1..(Len(q.all) - Len(q.left)) : Holds(q, m)
      <3>1. ASSUME Watched(q)', NEW m \in 1..(Len(q.all) - Len(q.left))
            PROVE  Holds(q, m)
        <4>1. Watched(o)
          BY <2>2, <3>1, <1>12, <1>2 DEF Watched, StoreJobs
        <4>2. Holds([o EXCEPT !.put = p], m)
          BY <1>0, <1>1, <1>3, <1>6, <1>8, <2>2, <3>1, <4>1, EarlierHeld
        <4>3. [o EXCEPT !.put = p].put = p /\ [o EXCEPT !.put = p].all = o.all
              /\ [o EXCEPT !.put = p].method = o.method /\ o.method = "upsert"
          BY <1>2, <1>12 DEF StoreJobs
        <4>. QED  BY <2>2, <4>2, <4>3 DEF Holds
      <3>. QED  BY <3>1
    <2>7. \A i \in S!Matching(S!Visible(w)', r) : q.put[i] = Content(r)
      <3>1. ASSUME NEW i \in S!Matching(S!Visible(w)', r), i \notin found
            PROVE  FALSE
        <4>1. i \in S!Ids /\ p[i] = o.put[i]
          BY <1>8, <3>1 DEF S!Matching, S!Stored
        <4>2. S!Visible(w)'[i] = S!Visible(w)[i]
          BY <1>0, <1>1, <2>2, <2>3, <4>1 DEF S!Visible
        <4>3. i \in S!Matching(S!Visible(w), r)
          BY <3>1, <4>2 DEF S!Matching, S!Stored
        <4>. QED  BY <1>3, <3>1, <4>3
      <3>. QED  BY <1>4, <1>5, <2>2, <3>1
    <2>8. Head(q.left) = r
      BY <1>1, <2>2
    <2>9. Sound(w, q)'
      BY <1>7, <2>2, <2>4, <2>5, <2>6, <2>7, <2>8 DEF Sound
    <2>. QED  BY <1>0, <1>2, <1>12, <2>1, <2>2, <2>9, WriterStep
  <1>. QED  BY <1>9, <1>10, <1>11, <1>12

\* A new row.
LEMMA InsertRowRecords ==
    ASSUME Batched, Recorded, UNCHANGED <<part, rows>>, NEW w \in Workers,
           storeJob[w].pc \in {"write", "insert", "blocked"}, storeJob[w].method # "update",
           S!InsertRow(w, Head(storeJob[w].left))
    PROVE  Recorded'
  <1>0. /\ serial <= MaxRows /\ serial' = serial + 1 /\ serial \in Nat \ {0} /\ MaxRows \in Nat
        /\ serial' \in Nat \ {0} /\ serial <= serial' /\ serial \in S!Ids
    BY DEF S!InsertRow, Recorded, Batched, S!Ids
  <1>1. PICK o, r : o = storeJob[w] /\ r = Head(o.left)
    OBVIOUS
  <1>2. /\ o \in StoreJobs /\ Sound(w, o) /\ r \in S!Record /\ Content(r) \in S!Row
        /\ part = "store" => w = One
    BY <1>1, RecordAhead
  <1>3. CASE S!End(w)
    BY <1>0, <1>3, EndRecords
  <1>4. CASE storeJob' = [storeJob EXCEPT ![w] = S!Advance(S!Put(storeJob[w], serial, r))]
    <2>1. PICK p : p = [o.put EXCEPT ![serial] = Content(r)]
      OBVIOUS
    <2>2. p \in [S!Ids -> Rows] /\ o.put \in [S!Ids -> Rows]
      BY <1>2, <2>1 DEF StoreJobs, Rows
    <2>3. S!Put(o, serial, r) = [o EXCEPT !.put = p]
      BY <1>2, <2>1 DEF S!Put, Content, StoreJobs
    <2>4. \A i \in S!Ids : i \in Nat /\ (o.put[i] # S!Absent => i < serial)
      BY <1>2, RowTypes DEF Sound
    <2>5. \A i \in S!Ids : p[i] = o.put[i] \/ o.put[i] = S!Absent
      BY <1>0, <2>1, <2>2, <2>4
    <2>6. ASSUME NEW i \in S!Ids, p[i] # S!Absent
          PROVE  i < serial'
      <3>1. i = serial \/ i < serial
        BY <1>0, <2>1, <2>2, <2>4, <2>6
      <3>. QED  BY <1>0, <2>4, <3>1
    <2>7. p[serial] = Content(r)
      BY <1>0, <2>1, <2>2
    <2>8. \E a \in StoreJobs : /\ a = S!Advance([storeJob[w] EXCEPT !.put = p])
                               /\ a.pc # "idle" /\ Sound(w, a)'
      BY <1>0, <1>1, <2>2, <2>5, <2>6, <2>7, WrittenSound
    <2>. QED  BY <1>0, <1>1, <1>2, <1>4, <2>3, <2>8, WriterStep
  <1>. QED  BY <1>1, <1>3, <1>4 DEF S!InsertRow

LEMMA InsertRecords ==
    ASSUME Batched, Recorded, UNCHANGED part, NEW w \in Workers,
           S!Insert(w) \/ S!Unblock(w)
    PROVE  Recorded'
  <1>0. /\ rows' = rows /\ storeJob[w].pc \in {"write", "insert", "blocked"}
        /\ storeJob[w].method # "update"
    BY DEF S!Insert, S!Unblock, S!Serving, S!Step, Recorded, Sound
  <1>1. CASE S!InsertRow(w, Head(storeJob[w].left))
    BY <1>0, <1>1, InsertRowRecords
  <1>2. PICK o, r : o = storeJob[w] /\ r = Head(o.left)
    OBVIOUS
  <1>3. /\ o \in StoreJobs /\ Sound(w, o) /\ r \in S!Record /\ Content(r) \in S!Row
        /\ part = "store" => w = One
    BY <1>0, <1>2, RecordAhead
  <1>4. ASSUME S!Insert(w), UNCHANGED serial
        PROVE  serial' \in Nat \ {0} /\ serial <= serial' /\ o.pc \in {"write", "insert"}
    BY <1>2, <1>4 DEF Recorded, S!Insert, S!Step
  <1>5. CASE /\ S!Insert(w) /\ o.method = "upsert" /\ S!Matching(S!Visible(w), r) # {}
             /\ storeJob' = [storeJob EXCEPT ![w] = S!Advance(@)] /\ UNCHANGED serial
    <2>1. o.pc = "insert"
      BY <1>2, <1>5 DEF S!Insert, S!Step
    <2>2. Watched(o) => \A i \in S!Matching(S!Visible(w), r) : o.put[i] = Content(r)
      BY <1>2, <1>3, <1>5, <2>1 DEF Sound, Watched
    <2>3. Watched(o) => \E i \in S!Ids : o.put[i] = Content(r)
      BY <1>5, <2>2, MatchingRows
    <2>4. /\ o.put \in [S!Ids -> Rows] /\ [o EXCEPT !.put = o.put] = o
          /\ \A i \in S!Ids : o.put[i] # S!Absent => i < serial'
      BY <1>3, <1>5 DEF StoreJobs, Sound
    <2>5. \E a \in StoreJobs : /\ a = S!Advance([storeJob[w] EXCEPT !.put = o.put])
                               /\ a.pc # "idle" /\ Sound(w, a)'
      BY <1>0, <1>2, <1>5, <2>3, <2>4, WrittenSound
    <2>. QED  BY <1>0, <1>2, <1>3, <1>4, <1>5, <2>4, <2>5, WriterStep
  <1>6. CASE /\ S!Insert(w)
             /\ storeJob' = [storeJob EXCEPT ![w].pc = "blocked"] /\ UNCHANGED serial
    <2>1. PICK q : q = [o EXCEPT !.pc = "blocked"]
      OBVIOUS
    <2>2. /\ q \in StoreJobs /\ q.pc = "blocked" /\ q.method = o.method /\ q.put = o.put
          /\ q.all = o.all /\ q.left = o.left
      BY <1>3, <2>1 DEF StoreJobs
    <2>3. o.all \in Batches /\ Ahead(o) /\ o.left # <<>>
      BY <1>2, <1>3, <1>4, <1>6 DEF Sound
    <2>4. Ahead(q)
      BY <2>2, <2>3 DEF Ahead
    <2>5. Watched(q)' => \A m \in 1..(Len(q.all) - Len(q.left)) : Holds(q, m)
      BY <1>3, <1>4, <1>6, <2>2 DEF Sound, Watched, Holds
    <2>6. Sound(w, q)'
      BY <1>0, <1>2, <1>3, <1>6, <2>2, <2>3, <2>4, <2>5 DEF Sound
    <2>7. storeJob' = [storeJob EXCEPT ![w] = q]
      BY <1>2, <1>6, <2>1
    <2>. QED  BY <1>0, <1>3, <1>4, <1>6, <2>2, <2>6, <2>7, WriterStep
  <1>. QED  BY <1>1, <1>2, <1>5, <1>6 DEF S!Insert, S!Unblock

LEMMA EndsRecord ==
    ASSUME Batched, Recorded, UNCHANGED part, NEW w \in Workers,
           S!Commit(w) \/ S!Abort(w)
    PROVE  Recorded'
  <1>1. /\ S!End(w) /\ storeJob[w].pc # "idle" /\ UNCHANGED serial
        /\ rows' = rows \/ rows' = S!Visible(w)
    BY DEF S!Commit, S!Abort, S!Step, S!Serving
  <1>2. serial' \in Nat \ {0} /\ serial <= serial'
    BY <1>1 DEF Recorded
  <1>. QED  BY <1>1, <1>2, EndRecords

\* What is committed holds the records that were sent.
LEMMA CommitLands ==
    ASSUME Batched, Recorded, NEW w \in Workers, S!Commits(w), Watched(storeJob[w])
    PROVE  S!Landed(w)
  <1>1. PICK q : q = storeJob[w]
    OBVIOUS
  <1>2. q \in StoreJobs /\ Sound(w, q) /\ q.pc = "done" /\ rows' = S!Visible(w)
    BY <1>1 DEF Recorded, S!Commits, S!Commit, S!Step
  <1>3. q.all \in Batches /\ q.left = <<>>
    BY <1>2 DEF Sound
  <1>4. Len(q.all) \in Nat /\ DOMAIN q.all = 1..Len(q.all) /\ \A m \in 1..Len(q.all) : q.all[m] \in S!Record
    BY <1>3, BatchTypes
  <1>5. \A m \in 1..Len(q.all) : Holds(q, m)
    <2>1. Len(q.left) = 0
      BY <1>3
    <2>2. \A m \in 1..(Len(q.all) - Len(q.left)) : Holds(q, m)
      BY <1>1, <1>2 DEF Sound
    <2>. QED  BY <1>4, <2>1, <2>2
  <1>6. ASSUME NEW r \in S!ToSet(q.all)
        PROVE  \E i \in S!Stored(rows') :
                  /\ rows'[i] = [key |-> r.key, val |-> r.val]
                  /\ q.method = "update" /\ r.id # S!NoId => i = r.id
    <2>1. PICK m \in 1..Len(q.all) : r = q.all[m]
      BY <1>4 DEF S!ToSet
    <2>2. PICK i \in S!Ids : /\ q.put[i] = Content(r)
                             /\ q.method = "update" /\ r.id # S!NoId => i = r.id
      BY <1>5, <2>1 DEF Holds
    <2>3. Content(r) # S!Absent
      BY <1>4, <2>1, RowTypes
    <2>4. rows'[i] = Content(r)
      BY <1>1, <1>2, <2>2, <2>3 DEF S!Visible
    <2>. QED  BY <2>2, <2>3, <2>4 DEF S!Stored, Content
  <1>. QED  BY <1>1, <1>6 DEF S!Landed

\* The two stores differ in what runs alone only.
LEMMA StoresAgree ==
    /\ R!Ids = S!Ids /\ R!Absent = S!Absent /\ R!NoRows = S!NoRows /\ R!Idle = S!Idle
    /\ R!NoId = S!NoId /\ R!Open = S!Open
    /\ \A X : R!Stored(X) = S!Stored(X)
    /\ \A w, pc : R!Step(w, pc) <=> S!Step(w, pc)
    /\ \A w \in Workers : (R!End(w) <=> S!End(w)) /\ (R!Serving(w) <=> S!Serving(w))
    /\ \A batch : R!Appended(batch) = S!Appended(batch)
  <1>1. R!Ids = S!Ids /\ R!Absent = S!Absent /\ R!NoId = S!NoId /\ R!Open = S!Open
    BY DEF R!Ids, S!Ids, R!Absent, S!Absent, R!NoId, S!NoId, R!Open, S!Open
  <1>2. R!NoRows = S!NoRows
    BY <1>1 DEF R!NoRows, S!NoRows
  <1>3. R!Idle = S!Idle
    BY <1>2 DEF R!Idle, S!Idle
  <1>4. \A X : R!Stored(X) = S!Stored(X)
    BY <1>1 DEF R!Stored, S!Stored
  <1>5. \A batch : R!Appended(batch) = S!Appended(batch)
    BY <1>1 DEF R!Appended, S!Appended
  <1>6. \A w \in Workers : (R!End(w) <=> S!End(w)) /\ (R!Serving(w) <=> S!Serving(w))
    BY <1>3 DEF R!End, S!End, R!Serving, S!Serving
  <1>7. \A w, pc : R!Step(w, pc) <=> S!Step(w, pc)
    BY DEF R!Step, S!Step
  <1>. QED  BY <1>1, <1>2, <1>3, <1>4, <1>5, <1>6, <1>7

LEMMA RaceWrites ==
    ASSUME NEW w \in Workers
    PROVE  /\ R!ReadSchema(w) => S!ReadSchema(w)
           /\ R!Update(w) => S!Update(w)
           /\ R!Insert(w) => S!Insert(w)
           /\ R!Unblock(w) => S!Unblock(w)
           /\ R!Commit(w) => S!Commit(w)
           /\ R!Abort(w) => S!Abort(w)
  <1>1. R!Visible(w) = S!Visible(w)
    BY StoresAgree DEF R!Visible, S!Visible
  <1>2. \A X, r : R!Matching(X, r) = S!Matching(X, r)
    BY StoresAgree DEF R!Matching, S!Matching
  <1>3. /\ \A i : R!RowLocked(w, i) <=> S!RowLocked(w, i)
        /\ \A k : R!KeyLocked(w, k) <=> S!KeyLocked(w, k)
        /\ \A i, k : R!KeyTaken(w, i, k) <=> S!KeyTaken(w, i, k)
    BY StoresAgree, <1>1 DEF R!RowLocked, S!RowLocked, R!KeyLocked, S!KeyLocked, R!KeyTaken,
       S!KeyTaken, R!Others, S!Others
  <1>4. \A q, i, r : R!Advance(q) = S!Advance(q) /\ R!Put(q, i, r) = S!Put(q, i, r)
    BY DEF R!Advance, S!Advance, R!Put, S!Put
  <1>5. \A X : R!Cardinality(X) = S!Cardinality(X) /\ R!ToSet(X) = S!ToSet(X)
    BY DEF R!Cardinality, S!Cardinality, R!IsFiniteSet, S!IsFiniteSet, R!ToSet, S!ToSet
  <1>6. R!ReadSchema(w) => S!ReadSchema(w)
    BY StoresAgree, <1>5 DEF R!ReadSchema, S!ReadSchema
  <1>7. R!Update(w) => S!Update(w)
    BY StoresAgree, <1>1, <1>2, <1>3, <1>4, <1>5 DEF R!Update, S!Update
  <1>8. \A r : R!InsertRow(w, r) => S!InsertRow(w, r)
    BY StoresAgree, <1>3, <1>4 DEF R!InsertRow, S!InsertRow
  <1>9. R!Insert(w) => S!Insert(w)
    BY StoresAgree, <1>1, <1>2, <1>3, <1>4, <1>8 DEF R!Insert, S!Insert
  <1>10. R!Unblock(w) => S!Unblock(w)
    BY StoresAgree, <1>3, <1>8 DEF R!Unblock, S!Unblock
  <1>11. (R!Commit(w) => S!Commit(w)) /\ (R!Abort(w) => S!Abort(w))
    BY StoresAgree, <1>1 DEF R!Commit, S!Commit, R!Abort, S!Abort
  <1>. QED  BY <1>6, <1>7, <1>9, <1>10, <1>11

\* datastore_create appends its records as rows that follow the others.
LEMMA CreateIsWhole ==
    ASSUME Batched, Recorded, UNCHANGED storeJob, S!Open = {},
           NEW batch \in Batches \cup {<<>>},
           \/ rows' = S!Appended(batch) /\ serial' = serial + Len(batch)
           \/ rows' = rows /\ serial' \in {serial, serial + Len(batch)}
    PROVE  Whole
  <1>1. Len(batch) \in Nat /\ \A m \in 1..Len(batch) : batch[m] \in S!Record
    BY BatchTypes
  <1>2. \A w \in Workers : storeJob[w].pc \in {"idle", "begin"}
    BY DEF S!Open, Recorded, StoreJobs
  <1>3. /\ rows \in [S!Ids -> Rows] /\ serial \in Nat \ {0}
        /\ \A i \in S!Ids : i \in Nat /\ (rows[i] # S!Absent => i < serial)
    BY RowTypes DEF Recorded
  <1>4. CASE rows' = rows /\ serial' \in {serial, serial + Len(batch)}
    <2>1. serial' \in Nat \ {0} /\ serial <= serial'
      BY <1>1, <1>3, <1>4
    <2>2. \A i \in S!Ids : rows'[i] # S!Absent => i < serial'
      BY <1>3, <1>4, <2>1
    <2>. QED  BY <1>2, <1>3, <1>4, <2>1, <2>2 DEF Whole
  <1>5. CASE rows' = S!Appended(batch) /\ serial' = serial + Len(batch)
    <2>. DEFINE n == Len(batch)
    <2>1. ASSUME NEW i \in S!Ids, i \in serial..serial + n - 1
          PROVE  [key |-> batch[i - serial + 1].key, val |-> batch[i - serial + 1].val] \in Rows
                 /\ i < serial + n
      <3>1. i - serial + 1 \in 1..n /\ i < serial + n
        <4>1. n \in Nat
          BY <1>1
        <4>. HIDE DEF n
        <4>. QED  BY <1>3, <2>1, <4>1
      <3>2. batch[i - serial + 1] \in S!Record
        BY <1>1, <3>1
      <3>. QED  BY <3>1, <3>2, RowTypes DEF Content, Rows
    <2>2. serial + n \in Nat \ {0} /\ serial <= serial + n
      <3>1. n \in Nat
        BY <1>1
      <3>. HIDE DEF n
      <3>. QED  BY <1>3, <3>1
    <2>. HIDE DEF n
    <2>3. \A i \in S!Ids : i < serial => i < serial + n
      BY <1>3, <2>2
    <2>4. serial' = serial + n
      BY <1>5 DEF n
    <2>5. \A i \in S!Ids : rows'[i] \in Rows /\ (rows'[i] # S!Absent => i < serial + n)
      BY <1>3, <1>5, <2>1, <2>3 DEF S!Appended, n
    <2>6. rows' \in [S!Ids -> Rows]
      BY <1>5, <2>5 DEF S!Appended
    <2>. QED  BY <1>2, <2>2, <2>4, <2>5, <2>6 DEF Whole
  <1>. QED  BY <1>4, <1>5

LEMMA WholeSteps ==
    ASSUME Batched, Recorded,
           \/ \E batch \in Batches \cup {<<>>}, key \in BOOLEAN :
                S!Create(batch, key) \/ R!Create(batch, key)
           \/ \E K : S!DeleteRows(K) \/ R!DeleteRows(K)
           \/ S!Drop \/ R!Drop
           \/ \E limit, text : S!Dump(limit, text) \/ R!Dump(limit, text)
           \/ S!DumpPage \/ R!DumpPage
    PROVE  Whole
  <1>1. ASSUME NEW batch \in Batches \cup {<<>>}, NEW key \in BOOLEAN,
               S!Create(batch, key) \/ R!Create(batch, key)
        PROVE  Whole
    <2>1. /\ S!Open = {} /\ UNCHANGED storeJob
          /\ \/ rows' = S!Appended(batch) /\ serial' = serial + Len(batch)
             \/ rows' = rows /\ serial' \in {serial, serial + Len(batch)}
      BY <1>1, StoresAgree DEF S!Create, R!Create
    <2>. QED  BY <2>1, CreateIsWhole
  <1>2. ASSUME NEW K, S!DeleteRows(K) \/ R!DeleteRows(K)
        PROVE  Whole
    <2>1. UNCHANGED <<storeJob, serial>>
      BY <1>2 DEF S!DeleteRows, R!DeleteRows
    <2>2. \E gone \in SUBSET S!Ids :
            rows' = [i \in S!Ids |-> IF i \in gone THEN S!Absent ELSE rows[i]]
      <3>1. {i \in S!Stored(rows) : rows[i].key \in K} \in SUBSET S!Ids
        BY DEF S!Stored
      <3>. QED  BY <1>2, <3>1, StoresAgree DEF S!DeleteRows, R!DeleteRows
    <2>. QED  BY <2>1, <2>2 DEF Whole
  <1>3. ASSUME S!Drop \/ R!Drop
        PROVE  Whole
    <2>1. S!Open = {} /\ UNCHANGED storeJob /\ rows' = S!NoRows /\ serial' = 1
      BY <1>3, StoresAgree DEF S!Drop, R!Drop
    <2>2. \A w \in Workers : storeJob[w].pc \in {"idle", "begin"}
      BY <2>1 DEF S!Open, Recorded, StoreJobs
    <2>3. \A i \in S!Ids : S!NoRows[i] = S!Absent
      BY DEF S!NoRows
    <2>. QED  BY <2>1, <2>2, <2>3, RowTypes DEF Whole
  <1>4. ASSUME NEW limit, NEW text, S!Dump(limit, text) \/ R!Dump(limit, text)
        PROVE  Whole
    BY <1>4 DEF S!Dump, R!Dump, Whole
  <1>5. ASSUME S!DumpPage \/ R!DumpPage
        PROVE  Whole
    BY <1>5 DEF S!DumpPage, R!DumpPage, Whole
  <1>. QED  BY <1>1, <1>2, <1>3, <1>4, <1>5

LEMMA BeginSteps ==
    ASSUME Recorded, NEW w \in Workers, NEW method \in {"insert", "update", "upsert"},
           NEW batch \in Batches, NEW dry \in BOOLEAN,
           S!Begin(w, method, batch, dry) \/ R!Begin(w, method, batch, dry)
    PROVE  Begins(w) /\ storeJob'[w] # storeJob[w]
  <1>1. /\ storeJob[w].pc = "idle" /\ UNCHANGED <<rows, serial>>
        /\ storeJob' = [storeJob EXCEPT ![w] =
            [S!Idle EXCEPT !.pc = "begin", !.method = method, !.dry = dry,
                           !.all = batch, !.left = batch]]
    BY StoresAgree DEF S!Begin, R!Begin, S!Step, R!Step
  <1>2. storeJob'[w].pc = "begin"
    BY <1>1 DEF Recorded, S!Idle
  <1>. QED  BY <1>1, <1>2 DEF Begins

\* The steps of either store are these.
LEMMA StoreSteps ==
    ASSUME Batched, Recorded,
           \/ part = "store" /\ OneByOne
           \/ part # "store" /\ R!Next
    PROVE  \/ \E w \in Workers :
                \/ Begins(w) /\ (part = "store" => w = One)
                \/ S!ReadSchema(w) \/ S!Update(w) \/ S!Insert(w) \/ S!Unblock(w)
                \/ S!Commit(w) \/ S!Abort(w)
           \/ Whole
  <1>1. CASE part = "store" /\ OneByOne
    <2>1. S!Next /\ \A w \in Workers \ {One} : storeJob'[w] = storeJob[w]
      BY <1>1 DEF OneByOne
    <2>2. ASSUME NEW w \in Workers, NEW method \in {"insert", "update", "upsert"},
                 NEW batch \in Batches, NEW dry \in BOOLEAN, S!Begin(w, method, batch, dry)
          PROVE  Begins(w) /\ w = One
      BY <2>1, <2>2, BeginSteps
    <2>. QED  BY <2>1, <2>2, WholeSteps DEF S!Next
  <1>2. CASE part # "store" /\ R!Next
    BY <1>2, BeginSteps, RaceWrites, WholeSteps DEF R!Next
  <1>. QED  BY <1>1, <1>2

LEMMA RecordedStep ==
    ASSUME Batched, Recorded, [StateNext]_<<part, vars, store, forms, given, tags, patches>>
    PROVE  Recorded'
  <1>1. UNCHANGED part
    BY DEF StateNext
  <1>2. \/ UNCHANGED store
        \/ part = "store" /\ OneByOne
        \/ part = "store race" /\ R!Next
    BY DEF StateNext
  <1>3. CASE UNCHANGED store
    BY <1>1, <1>3, WholeRecords DEF store, Whole
  <1>4. CASE \/ part = "store" /\ OneByOne
             \/ part # "store" /\ R!Next
    BY <1>1, <1>4, StoreSteps, BeginRecords, SchemaRecords, UpdateRecords, InsertRecords,
       EndsRecord, WholeRecords
  <1>. QED  BY <1>2, <1>3, <1>4

\* What was written is there when its transaction has committed, whatever
\* other transactions do; of an upsert too, when requests are served one after
\* another.
THEOREM RecordsAlwaysLand ==
    ASSUME Batched, \A batch \in Batches : Apart(batch)
    PROVE  StateSpec => RecordsLand
  <1>1. StateInit => Recorded
    BY InitRecorded DEF StateInit
  <1>2. Recorded /\ [StateNext]_<<part, vars, store, forms, given, tags, patches>> => Recorded'
    BY RecordedStep
  <1>3. Recorded => \A w \in Workers :
          S!Commits(w) /\ (part = "store" \/ storeJob[w].method # "upsert") => S!Landed(w)
    <2> SUFFICES ASSUME Recorded, NEW w \in Workers, S!Commits(w),
                        part = "store" \/ storeJob[w].method # "upsert"
                 PROVE  S!Landed(w)
      OBVIOUS
    <2>1. storeJob[w].all \in Batches
      BY DEF Recorded, Sound, S!Commits, S!Commit, S!Step
    <2>. QED  BY <2>1, CommitLands DEF Watched
  <1>. QED  BY <1>1, <1>2, <1>3, PTL DEF StateSpec, RecordsLand

-----------------------------------------------------------------------------
(* The download of the table.                                              *)

\* What the download needs of its constants.  The limits are below the number
\* that stands for none.
Paged ==
    /\ PaginateBy \in Nat \ {0} /\ RowsMax \in Nat \ {0}
    /\ DumpLimits \subseteq 0..MaxRows

\* How many of the rows X have a number up to i.
Rank(X, i) == S!Cardinality({j \in X : j <= i})

LEMMA CountsAgree == \A X : S!Cardinality(X) = Cardinality(X)
  BY DEF S!Cardinality, Cardinality, S!IsFiniteSet, IsFiniteSet

LEMMA SmallerOfTwo ==
    ASSUME NEW a \in Nat, NEW b \in Nat
    PROVE  S!Min({a, b}) = IF a <= b THEN a ELSE b
  BY DEF S!Min

LEMMA Intervals ==
    ASSUME NEW m \in Nat
    PROVE  IsFiniteSet(1..m) /\ Cardinality(1..m) = m
  BY FS_Interval

\* Ranks are in the order of the numbers, and all of 1 to the number of rows.
LEMMA Ranks ==
    ASSUME Batched, NEW X \in SUBSET S!Ids
    PROVE  /\ IsFiniteSet(X) /\ Cardinality(X) \in 0..MaxRows
           /\ \A i \in X : Rank(X, i) \in 1..Cardinality(X)
           /\ \A i, j \in X : i < j <=> Rank(X, i) < Rank(X, j)
           /\ \A k \in 1..Cardinality(X) : \E i \in X : Rank(X, i) = k
  <1>1. MaxRows \in Nat /\ S!Ids = 1..MaxRows
    BY DEF Batched, S!Ids
  <1>2. IsFiniteSet(S!Ids) /\ Cardinality(S!Ids) = MaxRows
    BY <1>1, Intervals
  <1>3. IsFiniteSet(X) /\ Cardinality(X) \in Nat
    BY <1>2, FS_Subset, FS_CardinalityType
  <1>4. Cardinality(X) <= MaxRows
    <2>1. Cardinality(X) <= Cardinality(S!Ids)
      BY <1>2, FS_Subset
    <2>. QED  BY <2>1, <1>2
  <1> DEFINE n == Cardinality(X)
             upto(i) == {j \in X : j <= i}
             rank(i) == Rank(X, i)
  <1>5. \A i : upto(i) \in SUBSET X /\ rank(i) = Cardinality(upto(i))
    BY CountsAgree DEF Rank
  <1>6. \A i : IsFiniteSet(upto(i)) /\ rank(i) \in Nat /\ rank(i) <= n
    <2> TAKE i
    <2>1. IsFiniteSet(upto(i)) /\ Cardinality(upto(i)) <= n
      BY <1>3, <1>5, FS_Subset
    <2>2. Cardinality(upto(i)) \in Nat
      BY <2>1, FS_CardinalityType
    <2>. QED  BY <2>1, <2>2, <1>5
  <1>7. \A i \in X : i \in Nat
    BY <1>1
  <1>8. ASSUME NEW i \in X
        PROVE  rank(i) # 0
    <2>1. i \in upto(i)
      BY <1>7
    <2>. QED  BY <2>1, <1>5, <1>6, FS_EmptySet
  <1>9. ASSUME NEW i \in X, NEW j \in X, i < j
        PROVE  rank(i) < rank(j)
    <2>1. upto(i) \in SUBSET upto(j)
      BY <1>7, <1>9
    <2>2. j \in upto(j) /\ j \notin upto(i)
      BY <1>7, <1>9
    <2> HIDE DEF upto
    <2>3. upto(i) # upto(j)
      BY <2>2
    <2>4. IsFiniteSet(upto(j))
      BY <1>6
    <2>5. Cardinality(upto(i)) <= Cardinality(upto(j)) /\ Cardinality(upto(i)) # Cardinality(upto(j))
      BY <2>1, <2>3, <2>4, FS_Subset
    <2> HIDE DEF rank
    <2>. QED  BY <2>5, <1>5, <1>6
  <1> HIDE DEF n, rank
  <1>10. ASSUME NEW i \in X, NEW j \in X
         PROVE  i < j <=> rank(i) < rank(j)
    <2>1. i < j \/ i = j \/ j < i
      BY <1>7
    <2>2. rank(i) \in Nat /\ rank(j) \in Nat
      BY <1>6
    <2>3. i < j => rank(i) < rank(j)
      BY <1>9
    <2>4. j < i => rank(j) < rank(i)
      BY <1>9
    <2>5. i \in Nat /\ j \in Nat
      BY <1>7
    <2>6. i = j => rank(i) = rank(j)
      OBVIOUS
    <2> DEFINE a == rank(i)
               b == rank(j)
    <2> HIDE DEF a, b
    <2>7. a \in Nat /\ b \in Nat /\ (i < j => a < b) /\ (j < i => b < a) /\ (i = j => a = b)
      BY <2>2, <2>3, <2>4, <2>6 DEF a, b
    <2>8. i < j <=> a < b
      BY <2>1, <2>5, <2>7
    <2>. QED  BY <2>8 DEF a, b
  <1>11. n \in Nat /\ Cardinality(X) = n
    BY <1>3 DEF n
  <1>12. ASSUME NEW i \in X
         PROVE  rank(i) \in 1..n
    <2> DEFINE a == rank(i)
    <2>1. a \in Nat /\ a <= n /\ a # 0
      BY <1>6, <1>8
    <2> HIDE DEF a
    <2>2. a \in 1..n
      BY <2>1, <1>11
    <2>. QED  BY <2>2 DEF a
  <1>13. \A k \in 1..n : \E i \in X : rank(i) = k
    <2> DEFINE f == [i \in X |-> rank(i)]
    <2>1. f \in [X -> 1..n]
      BY <1>12
    <2>2. \A i, j \in X : f[i] = f[j] => i = j
      <3>1. ASSUME NEW i \in X, NEW j \in X, rank(i) = rank(j)
            PROVE  i = j
        <4>1. rank(i) \in Nat /\ i \in Nat /\ j \in Nat
          BY <1>6, <1>7
        <4>2. ~(i < j) /\ ~(j < i)
          BY <4>1, <3>1, <1>10
        <4>. QED  BY <4>1, <4>2
      <3>. QED  BY <3>1
    <2>3. f \in Injection(X, 1..n)
      BY <2>1, <2>2 DEF Injection, IsInjective
    <2>4. IsFiniteSet(1..n) /\ Cardinality(1..n) = n
      BY <1>11, Intervals
    <2> HIDE DEF f
    <2>5. f \in Surjection(X, 1..n)
      BY <2>3, <2>4, <1>11, FS_Injection
    <2>6. \A k \in 1..n : \E i \in X : f[i] = k
      BY <2>5 DEF Surjection
    <2>. QED  BY <2>6 DEF f
  <1>14. n \in 0..MaxRows
    BY <1>1, <1>4, <1>11
  <1>. QED  BY <1>3, <1>10, <1>12, <1>13, <1>14 DEF n, rank

\* Rows that come after all others do not change the ranks of these.
LEMMA RanksStay ==
    ASSUME Batched, NEW X \in SUBSET S!Ids, NEW Y \in SUBSET S!Ids, X \subseteq Y,
           \A i \in Y \ X, j \in X : j < i,
           NEW i \in X
    PROVE  Rank(Y, i) = Rank(X, i)
  <1>1. \A j \in Y : j \in Nat
    BY DEF Batched, S!Ids
  <1>2. \A j \in Y : j <= i => j \in X
    BY <1>1
  <1>3. {j \in Y : j <= i} = {j \in X : j <= i}
    BY <1>2
  <1>. QED  BY <1>3 DEF Rank

\* The order of the rows.
LEMMA OrderedRanks ==
    ASSUME Batched, NEW X, X = S!Stored(rows)
    PROVE  /\ X \in SUBSET S!Ids
           /\ S!Ordered(rows) \in Seq(S!Ids)
           /\ Len(S!Ordered(rows)) = Cardinality(X)
           /\ \A k \in 1..Cardinality(X) : /\ S!Ordered(rows)[k] \in X
                                           /\ Rank(X, S!Ordered(rows)[k]) = k
  <1> DEFINE n == Cardinality(X)
             o == S!Ordered(rows)
  <1>1. X \in SUBSET S!Ids
    BY DEF S!Stored
  <1>2. n \in Nat
    BY <1>1, Ranks DEF Batched
  <1>3. o = [k \in 1..n |-> CHOOSE i \in X : Rank(X, i) = k]
    BY CountsAgree DEF S!Ordered, Rank
  <1>4. \A k \in 1..n : o[k] \in X /\ Rank(X, o[k]) = k
    BY <1>1, <1>3, Ranks
  <1>5. o \in [1..n -> S!Ids]
    BY <1>1, <1>3, <1>4
  <1> HIDE DEF n, o
  <1>6. o \in Seq(S!Ids)
    BY <1>2, <1>5, SeqDef
  <1>7. Len(o) = n
    BY <1>2, <1>5, <1>6, LenProperties
  <1>. QED  BY <1>1, <1>4, <1>6, <1>7 DEF n, o

\* A page has the rows with the next ranks, as many as it may have.
NextPage(X, o, pl, page) ==
    /\ page \in Seq(S!Ids)
    /\ Cardinality(X) <= o => Len(page) = 0
    /\ o <= Cardinality(X) => Len(page) = IF o + pl <= Cardinality(X) THEN pl
                                                                     ELSE Cardinality(X) - o
    /\ \A m \in 1..Len(page) : page[m] \in X /\ Rank(X, page[m]) = o + m
    /\ \A i \in X : o < Rank(X, i) /\ Rank(X, i) <= o + pl =>
          \E m \in 1..Len(page) : page[m] = i

LEMMA PageRanks ==
    ASSUME Batched, NEW o \in Nat, NEW l, S!PageLimit(l) \in Nat
    PROVE  NextPage(S!Stored(rows), o, S!PageLimit(l), S!PageAt(o, l))
  <1> DEFINE X == S!Stored(rows)
             n == Cardinality(X)
             pl == S!PageLimit(l)
             page == S!PageAt(o, l)
  <1>14. X = S!Stored(rows) /\ n = Cardinality(X) /\ pl = S!PageLimit(l) /\ page = S!PageAt(o, l)
    OBVIOUS
  <1>15. pl \in Nat
    OBVIOUS
  <1> HIDE DEF X, n, pl, page
  <1> DEFINE all == S!Ordered(rows)
             h == IF o + pl <= n THEN o + pl ELSE n
  <1>1. X \in SUBSET S!Ids
    BY <1>14, OrderedRanks
  <1>2. n \in Nat
    BY <1>1, <1>14, Ranks DEF Batched
  <1>3. all \in Seq(S!Ids) /\ Len(all) = n
    BY <1>14, OrderedRanks
  <1>4. \A k \in 1..n : all[k] \in X /\ Rank(X, all[k]) = k
    BY <1>14, OrderedRanks
  <1> HIDE DEF all
  <1>5. S!Min({o + pl, n}) = h
    BY <1>2, <1>15, SmallerOfTwo
  <1>6. page = SubSeq(all, o + 1, h)
    BY <1>3, <1>5, <1>14 DEF S!PageAt, all
  <1>7. h \in Nat /\ h <= n
    BY <1>2, <1>15
  <1> HIDE DEF h
  <1>8. \A k \in (o + 1)..h : all[k] \in S!Ids
    BY <1>1, <1>2, <1>4, <1>7
  <1>9. /\ page \in Seq(S!Ids)
        /\ Len(page) = IF o + 1 <= h THEN h - (o + 1) + 1 ELSE 0
        /\ \A m \in 1..(h - (o + 1) + 1) : page[m] = all[o + 1 + m - 1]
    <2>1. o + 1 \in Int /\ h \in Int
      BY <1>7
    <2>. QED  BY <2>1, <1>6, <1>8, SubSeqProperties
  <1>10. Len(page) \in Nat /\ \A m \in 1..Len(page) : o + m \in 1..n /\ page[m] = all[o + m]
    <2>1. Len(page) \in Nat
      BY <1>7, <1>9
    <2>2. ASSUME NEW m \in 1..Len(page)
          PROVE  o + m \in 1..n /\ page[m] = all[o + m]
      <3> DEFINE len == Len(page)
      <3>1. len \in Nat /\ len = IF o + 1 <= h THEN h - (o + 1) + 1 ELSE 0
        BY <2>1, <1>9
      <3>2. m \in 1..len
        OBVIOUS
      <3> HIDE DEF len
      <3>3. m \in 1..(h - (o + 1) + 1) /\ o + 1 + m - 1 = o + m /\ o + m \in 1..n
        BY <3>1, <3>2, <1>2, <1>7
      <3>. QED  BY <3>3, <1>9
    <2>. QED  BY <2>1, <2>2
  <1>11. \A m \in 1..Len(page) : page[m] \in X /\ Rank(X, page[m]) = o + m
    BY <1>4, <1>10
  <1>12. /\ n <= o => Len(page) = 0
         /\ o <= n => Len(page) = IF o + pl <= n THEN pl ELSE n - o
    BY <1>2, <1>9, <1>15 DEF h
  <1>13. ASSUME NEW i \in X, o < Rank(X, i), Rank(X, i) <= o + pl
         PROVE  \E m \in 1..Len(page) : page[m] = i
    <2> DEFINE r == Rank(X, i)
    <2>1. r \in 1..n
      BY <1>1, <1>14, Ranks
    <2>2. all[r] = i
      <3>1. all[r] \in X /\ Rank(X, all[r]) = r
        BY <2>1, <1>4
      <3>2. ~(all[r] < i) /\ ~(i < all[r])
        BY <3>1, <2>1, <1>1, Ranks
      <3>3. all[r] \in Nat /\ i \in Nat
        BY <3>1, <1>1, RowTypes
      <3>. QED  BY <3>2, <3>3
    <2>3. o < r /\ r <= o + pl
      BY <1>13
    <2> HIDE DEF r
    <2>4. r - o \in 1..Len(page) /\ o + (r - o) = r
      <3> DEFINE len == Len(page)
      <3>1. len = IF o + 1 <= h THEN h - (o + 1) + 1 ELSE 0
        BY <1>9
      <3> HIDE DEF len
      <3>2. r - o \in 1..len /\ o + (r - o) = r
        BY <3>1, <2>1, <2>3, <1>2, <1>15 DEF h
      <3>. QED  BY <3>2 DEF len
    <2>. QED  BY <2>2, <2>4, <1>10
  <1>. QED  BY <1>9, <1>11, <1>12, <1>13, <1>14 DEF NextPage

Smaller(a, b) == IF a <= b THEN a ELSE b

Downloads == [pc : {"idle", "page", "done"}, offset : Nat, limit : Nat, by : Nat,
              text : BOOLEAN, asked : Nat, out : Seq(S!Ids), kept : SUBSET S!Ids]

\* What a download has still to read is what was asked for without what it has
\* passed.  Pages are as far apart as they are long, but for a last one.
Fits(d) ==
    /\ d.by # 0
    /\ \/ /\ d.limit = S!NoLimit /\ d.asked = S!NoLimit
          /\ d.by = S!PageLimit(S!NoLimit)
       \/ /\ d.asked # S!NoLimit /\ d.limit \in 0..MaxRows /\ d.offset + d.limit = d.asked
          /\ d.by = Smaller(PaginateBy, RowsMax)
             \/ (d.limit <= d.by /\ S!PageLimit(d.limit) = d.limit)

LEMMA PageLimits ==
    ASSUME Paged, NEW l \in Nat
    PROVE  /\ S!PageLimit(l) = Smaller(Smaller(PaginateBy, l), RowsMax)
           /\ S!PageLimit(l) \in Nat
           /\ S!PageLimit(l) = Smaller(l, Smaller(PaginateBy, RowsMax))
           /\ S!PageLimit(l) = 0 <=> l = 0
  <1>1. PaginateBy \in Nat \ {0} /\ RowsMax \in Nat \ {0}
    BY DEF Paged
  <1>2. S!Min({PaginateBy, l}) = Smaller(PaginateBy, l) /\ Smaller(PaginateBy, l) \in Nat
    BY <1>1, SmallerOfTwo DEF Smaller
  <1>3. S!PageLimit(l) = Smaller(Smaller(PaginateBy, l), RowsMax)
    <2>1. S!Min({Smaller(PaginateBy, l), RowsMax}) = Smaller(Smaller(PaginateBy, l), RowsMax)
      BY <1>1, <1>2, SmallerOfTwo DEF Smaller
    <2>. QED  BY <1>2, <2>1 DEF S!PageLimit, S!SearchLimit
  <1>. QED  BY <1>1, <1>3 DEF Smaller

\* The limit of the page that a download reads.
LEMMA NextLimit ==
    ASSUME Batched, Paged, NEW d \in Downloads, Fits(d)
    PROVE  /\ S!PageLimit(d.limit) \in Nat
           /\ S!PageLimit(d.limit) = IF d.limit = S!NoLimit THEN d.by ELSE Smaller(d.limit, d.by)
           /\ S!NoLimit \in Nat \ {0}
  <1>1. d.limit \in Nat /\ d.by \in Nat
    BY DEF Downloads
  <1>2. S!NoLimit = MaxRows + 1 /\ MaxRows \in Nat
    BY DEF S!NoLimit, Batched
  <1>3. S!PageLimit(d.limit) = Smaller(d.limit, Smaller(PaginateBy, RowsMax))
        /\ S!PageLimit(d.limit) \in Nat
    BY <1>1, PageLimits
  <1>4. CASE d.limit = S!NoLimit
    BY <1>2, <1>3, <1>4 DEF Fits
  <1>5. CASE d.limit # S!NoLimit /\ d.by = Smaller(PaginateBy, RowsMax)
    BY <1>2, <1>3, <1>5
  <1>6. CASE d.limit <= d.by /\ S!PageLimit(d.limit) = d.limit /\ d.limit # S!NoLimit
    BY <1>1, <1>2, <1>3, <1>6 DEF Smaller
  <1>. QED  BY <1>2, <1>3, <1>4, <1>5, <1>6 DEF Fits

\* A page is read: the last one, or one that is as long as the distance to
\* the next.
Reads(d, pl, page, e) ==
    /\ e.out = d.out \o page
    /\ e.kept = d.kept /\ e.asked = d.asked
    /\ d.out \o page \in Seq(S!Ids) => e \in Downloads
    /\ \/ /\ e.pc = "done"
          /\ \/ d.asked # S!NoLimit /\ d.offset + pl = d.asked
             \/ pl = d.by /\ Len(page) < d.by
       \/ /\ e.pc = "page" /\ pl = d.by /\ e.offset = d.offset + d.by
          /\ Fits(e) /\ e.limit # 0

LEMMA ReadCases ==
    ASSUME Batched, Paged, NEW d \in Downloads, Fits(d), d.limit # 0,
           S!PageAt(d.offset, d.limit) \in Seq(S!Ids)
    PROVE  Reads(d, S!PageLimit(d.limit), S!PageAt(d.offset, d.limit), S!Read(d))
  <1>10. PICK pl, page, e : /\ pl = S!PageLimit(d.limit) /\ page = S!PageAt(d.offset, d.limit)
                            /\ e = S!Read(d)
    OBVIOUS
  <1> DEFINE left == IF d.limit = S!NoLimit THEN S!NoLimit
                     ELSE IF d.limit > d.by THEN d.limit - d.by ELSE 0
             last == \/ d.limit = 0
                     \/ left = 0
                     \/ IF d.text THEN page = <<>> ELSE Len(page) < d.by
  <1>1. e = [d EXCEPT !.out = IF d.limit = 0 THEN @ ELSE @ \o page,
                      !.offset = IF last THEN @ ELSE @ + d.by,
                      !.limit = IF last THEN @ ELSE left,
                      !.pc = IF last THEN "done" ELSE "page"]
    BY <1>10 DEF S!Read
  <1>2. /\ d.limit \in Nat /\ d.by \in Nat /\ d.offset \in Nat /\ d.asked \in Nat
        /\ d.by # 0 /\ S!NoLimit \in Nat \ {0}
    BY NextLimit DEF Downloads, Fits
  <1>3. pl \in Nat /\ pl = IF d.limit = S!NoLimit THEN d.by ELSE Smaller(d.limit, d.by)
    BY <1>10, NextLimit
  <1>4. left \in Nat
    BY <1>2
  <1>5. Len(page) \in Nat /\ (page = <<>> => Len(page) = 0)
    BY <1>10, LenProperties, EmptySeq
  <1> HIDE DEF left, last
  <1>6. /\ e.out = d.out \o page /\ e.kept = d.kept /\ e.asked = d.asked
        /\ e.offset = IF last THEN d.offset ELSE d.offset + d.by
        /\ e.limit = IF last THEN d.limit ELSE left
        /\ e.pc = IF last THEN "done" ELSE "page"
        /\ e.by = d.by /\ e.text = d.text
    BY <1>1 DEF Downloads
  <1>7. ASSUME d.out \o page \in Seq(S!Ids)
        PROVE  e \in Downloads
    <2> DEFINE out == d.out \o page
               offset == IF last THEN d.offset ELSE d.offset + d.by
               limit == IF last THEN d.limit ELSE left
               pc == IF last THEN "done" ELSE "page"
    <2>1. out \in Seq(S!Ids) /\ offset \in Nat /\ limit \in Nat /\ pc \in {"page", "done"}
      BY <1>2, <1>4, <1>7
    <2>2. e = [d EXCEPT !.out = out, !.offset = offset, !.limit = limit, !.pc = pc]
      BY <1>1 DEF Downloads
    <2> HIDE DEF out, offset, limit, pc
    <2>. QED  BY <2>1, <2>2 DEF Downloads
  <1>8. ASSUME last
        PROVE  Reads(d, pl, page, e)
    <2>1. left = 0 => d.asked # S!NoLimit /\ d.offset + pl = d.asked
      BY <1>2, <1>3 DEF left, Fits, Smaller
    <2>2. left # 0 => pl = d.by
      BY <1>2, <1>3 DEF left, Smaller
    <2>3. left # 0 => Len(page) < d.by
      BY <1>2, <1>5, <1>8 DEF last
    <2>. QED  BY <1>6, <1>7, <1>8, <2>1, <2>2, <2>3 DEF Reads
  <1>9. ASSUME ~last
        PROVE  Reads(d, pl, page, e)
    <2>1. left # 0
      BY <1>9 DEF last
    <2>2. pl = d.by
      BY <2>1, <1>2, <1>3 DEF left, Smaller
    <2>3. e.limit = left /\ e.offset = d.offset + d.by /\ e.pc = "page"
      BY <1>6, <1>9
    <2>4. Fits(e)
      <3>1. CASE d.limit = S!NoLimit
        <4>1. d.asked = S!NoLimit /\ d.by = S!PageLimit(S!NoLimit) /\ left = S!NoLimit
          BY <3>1, <1>2 DEF Fits, left, S!NoLimit, Batched
        <4>. QED  BY <4>1, <1>2, <1>6, <2>3 DEF Fits
      <3>2. CASE d.limit # S!NoLimit
        <4>1. left = d.limit - d.by /\ d.limit > d.by
          BY <3>2, <2>1, <1>2 DEF left
        <4>2. d.by = Smaller(PaginateBy, RowsMax) /\ d.limit \in 0..MaxRows /\ d.asked # S!NoLimit
              /\ d.offset + d.limit = d.asked
          BY <3>2, <4>1, <1>2 DEF Fits
        <4>3. left \in 0..MaxRows /\ d.offset + d.by + left = d.asked
          <5>1. d.limit \in Nat /\ d.by \in Nat /\ d.offset \in Nat /\ d.asked \in Nat /\ MaxRows \in Nat
            BY <1>2 DEF Batched
          <5>2. left \in Nat /\ left <= d.limit
            BY <1>4, <4>1, <5>1
          <5>3. d.limit <= MaxRows
            BY <4>2, <5>1
          <5>4. d.offset + d.by + left = d.offset + d.limit
            BY <4>1, <5>1
          <5>. QED  BY <4>2, <5>1, <5>2, <5>3, <5>4
        <4>. QED  BY <4>2, <4>3, <1>6, <2>3, <1>2 DEF Fits
      <3>. QED  BY <3>1, <3>2
    <2>. QED  BY <1>6, <1>7, <2>1, <2>2, <2>3, <2>4 DEF Reads
  <1>. QED  BY <1>8, <1>9, <1>10

Increasing(s) == \A m, n \in DOMAIN s : m < n => s[m] < s[n]
InSeq(s, i) == \E m \in DOMAIN s : s[m] = i

\* The rows out are the ones of X up to rank top, as far as they are kept.
\* They are as many as that, unless a page was short: then none is left.
Gathered(X, out, kept, top) ==
    /\ \A m \in DOMAIN out : out[m] \in X /\ Rank(X, out[m]) <= top
    /\ \A i \in kept : Rank(X, i) <= top => InSeq(out, i)
    /\ Len(out) <= top
    /\ Len(out) = top \/ \A i \in kept : InSeq(out, i)

\* An increasing list of rows is not longer than the table can be.
LEMMA IncreasingBound ==
    ASSUME Batched, NEW s \in Seq(S!Ids), Increasing(s)
    PROVE  Len(s) <= MaxRows
  <1> DEFINE n == Len(s)
  <1>1. n \in Nat /\ s \in [1..n -> S!Ids] /\ DOMAIN s = 1..n
    BY LenProperties
  <1> HIDE DEF n
  <1>2. \A i, j \in 1..n : s[i] = s[j] => i = j
    <2>1. ASSUME NEW i \in 1..n, NEW j \in 1..n, s[i] = s[j], i < j
          PROVE  FALSE
      <3>1. s[i] < s[j] /\ s[i] \in Nat
        BY <2>1, <1>1, RowTypes DEF Increasing
      <3>. QED  BY <3>1, <2>1
    <2>2. \A i, j \in 1..n : i < j \/ j < i \/ i = j
      BY <1>1
    <2>. QED  BY <2>1, <2>2
  <1>3. s \in Injection(1..n, S!Ids)
    BY <1>1, <1>2 DEF Injection, IsInjective
  <1>4. IsFiniteSet(S!Ids) /\ Cardinality(S!Ids) = MaxRows /\ Cardinality(1..n) = n
    BY <1>1, Intervals DEF Batched, S!Ids
  <1>5. n <= MaxRows
    BY <1>3, <1>4, FS_Injection
  <1>. QED  BY <1>5 DEF n

\* A page goes on where the last one ended.
GoesOn(X, out, kept, o, pl, page) ==
    /\ page \in Seq(S!Ids) /\ out \o page \in Seq(S!Ids)
    /\ Increasing(out \o page)
    /\ Gathered(X, out \o page, kept, o + pl)
    /\ Len(page) < pl => \A i \in kept : InSeq(out \o page, i)

LEMMA PageGathers ==
    ASSUME Batched, NEW out \in Seq(S!Ids), Increasing(out),
           NEW kept \in SUBSET S!Stored(rows), NEW o \in Nat,
           Gathered(S!Stored(rows), out, kept, o),
           NEW l, S!PageLimit(l) \in Nat
    PROVE  GoesOn(S!Stored(rows), out, kept, o, S!PageLimit(l), S!PageAt(o, l))
  <1>22. PICK X, pl, page :
            X = S!Stored(rows) /\ pl = S!PageLimit(l) /\ page = S!PageAt(o, l)
    OBVIOUS
  <1>23. pl \in Nat /\ kept \in SUBSET X /\ Gathered(X, out, kept, o)
    BY <1>22
  <1> DEFINE n == Cardinality(X)
  <1>1. X \in SUBSET S!Ids
    BY <1>22, OrderedRanks
  <1>2. n \in Nat /\ \A i \in X : Rank(X, i) \in 1..n
    BY <1>1, Ranks DEF Batched
  <1>20. n = Cardinality(X)
    OBVIOUS
  <1> HIDE DEF n
  <1>3. /\ page \in Seq(S!Ids)
        /\ n <= o => Len(page) = 0
        /\ o <= n => Len(page) = IF o + pl <= n THEN pl ELSE n - o
        /\ \A m \in 1..Len(page) : page[m] \in X /\ Rank(X, page[m]) = o + m
        /\ \A i \in X : o < Rank(X, i) /\ Rank(X, i) <= o + pl =>
              \E m \in 1..Len(page) : page[m] = i
    <2>1. NextPage(X, o, pl, page)
      BY <1>22, PageRanks
    <2>. QED  BY <1>20, <2>1 DEF NextPage
  <1> DEFINE new == out \o page
             a == Len(out)
             b == Len(page)
  <1>4. a \in Nat /\ b \in Nat
    BY <1>3, LenProperties
  <1>21. DOMAIN out = 1..a
    BY LenProperties
  <1>5. /\ new \in Seq(S!Ids) /\ Len(new) = a + b
        /\ \A m \in 1..(a + b) : new[m] = IF m <= a THEN out[m] ELSE page[m - a]
    BY <1>3, ConcatProperties
  <1>6. DOMAIN new = 1..(a + b)
    BY <1>5, LenProperties
  <1> HIDE DEF new, a, b
  <1>7. b <= pl /\ (b < pl => n <= o + pl)
    BY <1>2, <1>3, <1>4, <1>23 DEF b
  <1>8. \A m \in 1..a : m \in 1..(a + b) /\ new[m] = out[m]
    BY <1>4, <1>5
  <1>9. \A m \in 1..b : a + m \in 1..(a + b) /\ new[a + m] = page[m]
    <2> TAKE m \in 1..b
    <2> DEFINE k == a + m
    <2>1. k \in 1..(a + b) /\ ~(k <= a) /\ k - a = m
      BY <1>4
    <2> HIDE DEF k
    <2>2. new[k] = page[m]
      BY <2>1, <1>5
    <2>. QED  BY <2>1, <2>2 DEF k
  <1>10. \A m \in 1..(a + b) : m \in 1..a \/ \E k \in 1..b : m = a + k
    <2> TAKE m \in 1..(a + b)
    <2>1. CASE m <= a
      BY <2>1, <1>4
    <2>2. CASE ~(m <= a)
      <3>1. m - a \in 1..b /\ m = a + (m - a)
        BY <2>2, <1>4
      <3>. QED  BY <3>1
    <2>. QED  BY <2>1, <2>2
  <1>11. ASSUME NEW m \in 1..(a + b)
         PROVE  new[m] \in X /\ Rank(X, new[m]) <= o + pl /\ (m \in 1..a => Rank(X, new[m]) <= o)
    <2>1. CASE m \in 1..a
      <3>1. out[m] \in X /\ Rank(X, out[m]) <= o
        BY <2>1, <1>21, <1>23 DEF Gathered
      <3>2. Rank(X, out[m]) <= o + pl
        BY <3>1, <1>2, <1>23
      <3>3. new[m] = out[m]
        BY <2>1, <1>8
      <3>. QED  BY <3>1, <3>2, <3>3
    <2>2. CASE m \notin 1..a
      <3>1. PICK k \in 1..b : m = a + k
        BY <2>2, <1>10
      <3>2. new[m] = page[k] /\ page[k] \in X /\ Rank(X, page[k]) = o + k
        BY <3>1, <1>3, <1>9 DEF b
      <3>3. k <= pl
        BY <1>4, <1>7, <1>23
      <3>4. o + k <= o + pl
        BY <3>3, <1>4, <1>23
      <3>. QED  BY <3>2, <3>4, <2>2
    <2>. QED  BY <2>1, <2>2
  <1>12. \A i \in X : InSeq(out, i) => InSeq(new, i)
    BY <1>21, <1>6, <1>8 DEF InSeq
  <1>13. ASSUME NEW i \in kept, Rank(X, i) <= o + pl
         PROVE  InSeq(new, i)
    <2>1. CASE Rank(X, i) <= o
      BY <2>1, <1>12, <1>23 DEF Gathered
    <2>2. CASE ~(Rank(X, i) <= o)
      <3>1. o < Rank(X, i)
        BY <2>2, <1>2, <1>23
      <3>2. PICK m \in 1..b : page[m] = i
        BY <3>1, <1>3, <1>13, <1>23 DEF b
      <3>. QED  BY <3>2, <1>6, <1>9 DEF InSeq
    <2>. QED  BY <2>1, <2>2
  <1>14. b < pl => \A i \in kept : InSeq(new, i)
    <2> SUFFICES ASSUME b < pl, NEW i \in kept
                 PROVE  InSeq(new, i)
      OBVIOUS
    <2>1. Rank(X, i) <= o + pl
      BY <1>2, <1>7, <1>23
    <2>. QED  BY <2>1, <1>13
  <1>15. a <= o /\ (a = o \/ \A i \in kept : InSeq(out, i))
    BY <1>23 DEF Gathered, a
  <1>16. a + b <= o + pl /\ (a = o /\ b = pl => a + b = o + pl)
    BY <1>4, <1>7, <1>15, <1>23
  <1>17. a + b = o + pl \/ \A i \in kept : InSeq(new, i)
    BY <1>4, <1>7, <1>12, <1>14, <1>15, <1>16, <1>23
  <1>18. Gathered(X, new, kept, o + pl)
    BY <1>5, <1>6, <1>11, <1>13, <1>16, <1>17, <1>23 DEF Gathered
  <1>19. Increasing(new)
    <2> SUFFICES ASSUME NEW m \in 1..(a + b), NEW k \in 1..(a + b), m < k
                 PROVE  new[m] < new[k]
      BY <1>6 DEF Increasing
    <2>1. CASE k \in 1..a
      <3>1. m \in 1..a
        BY <2>1, <1>4
      <3>2. out[m] < out[k]
        BY <2>1, <3>1, <1>21 DEF Increasing
      <3>. QED  BY <2>1, <3>1, <3>2, <1>8
    <2>2. CASE k \notin 1..a
      <3>1. PICK y \in 1..b : k = a + y
        BY <2>2, <1>10
      <3>2. new[k] = page[y] /\ page[y] \in X /\ Rank(X, page[y]) = o + y
        BY <3>1, <1>3, <1>9 DEF b
      <3>3. Rank(X, new[m]) < Rank(X, new[k])
        <4>1. CASE m \in 1..a
          <5>1. Rank(X, new[m]) <= o /\ Rank(X, new[m]) \in 1..n
            BY <4>1, <1>2, <1>11
          <5>2. o < o + y
            BY <1>4
          <5> DEFINE r == Rank(X, new[m])
          <5>3. r \in 1..n /\ r <= o
            BY <5>1
          <5> HIDE DEF r
          <5>4. r < o + y
            BY <5>2, <5>3, <1>2
          <5>. QED  BY <5>4, <3>2 DEF r
        <4>2. CASE m \notin 1..a
          <5>1. PICK x \in 1..b : m = a + x
            BY <4>2, <1>10
          <5>2. new[m] = page[x] /\ Rank(X, page[x]) = o + x
            BY <5>1, <1>3, <1>9 DEF b
          <5>3. o + x < o + y
            BY <3>1, <5>1, <1>4
          <5>. QED  BY <5>2, <5>3, <3>2
        <4>. QED  BY <4>1, <4>2
      <3>. QED  BY <3>3, <1>1, <1>11, Ranks
    <2>. QED  BY <2>1, <2>2
  <1>24. GoesOn(X, out, kept, o, pl, page)
    BY <1>3, <1>5, <1>14, <1>18, <1>19 DEF GoesOn, new, b
  <1>. QED  BY <1>22, <1>24

\* What a download that reads has, and one that is done.
Underway(d) ==
    /\ Fits(d)
    /\ d.kept \subseteq S!Stored(rows)
    /\ Gathered(S!Stored(rows), d.out, d.kept, d.offset)

Complete(d) ==
    /\ Len(d.out) <= d.asked
    /\ \A i \in d.kept \ S!ToSet(d.out) :
         Len(d.out) = d.asked /\ \A j \in S!ToSet(d.out) : j < i

Sighted(d) ==
    /\ d \in Downloads
    /\ Increasing(d.out)
    /\ d.pc = "page" => Underway(d) /\ d.limit # 0
    /\ d.pc = "done" => Complete(d)

Fetched == Sighted(dump)

LEMMA Listed ==
    ASSUME NEW s, NEW i
    PROVE  i \in S!ToSet(s) <=> InSeq(s, i)
  BY DEF S!ToSet, InSeq

\* The last page: what is asked for is there, or there is no more.
LEMMA LastCompletes ==
    ASSUME Batched, NEW X \in SUBSET S!Ids, NEW e \in Downloads, e.kept \subseteq X,
           NEW top \in Nat, Gathered(X, e.out, e.kept, top), Increasing(e.out),
           \/ e.asked # S!NoLimit /\ top = e.asked
           \/ \A i \in e.kept : InSeq(e.out, i),
           e.asked = S!NoLimit \/ top <= e.asked
    PROVE  Complete(e)
  <1>1. Len(e.out) <= e.asked
    <2>1. CASE e.asked = S!NoLimit
      <3>1. Len(e.out) <= MaxRows /\ Len(e.out) \in Nat
        BY IncreasingBound, LenProperties DEF Downloads
      <3>. QED  BY <2>1, <3>1 DEF S!NoLimit, Batched
    <2>2. CASE top <= e.asked
      <3>1. Len(e.out) <= top /\ Len(e.out) \in Nat /\ e.asked \in Nat
        BY LenProperties DEF Gathered, Downloads
      <3>. QED  BY <2>2, <3>1
    <2>. QED  BY <2>1, <2>2
  <1>2. ASSUME NEW i \in e.kept, ~InSeq(e.out, i)
        PROVE  Len(e.out) = e.asked /\ \A j \in S!ToSet(e.out) : j < i
    <2>1. Len(e.out) = top /\ top = e.asked
      BY <1>2 DEF Gathered
    <2>2. ~(Rank(X, i) <= top) /\ i \in X
      BY <1>2 DEF Gathered
    <2>3. ASSUME NEW j \in S!ToSet(e.out)
          PROVE  j < i
      <3>1. j \in X /\ Rank(X, j) <= top
        BY <2>3 DEF S!ToSet, Gathered
      <3>2. Rank(X, i) \in 1..Cardinality(X) /\ Rank(X, j) \in 1..Cardinality(X)
            /\ Cardinality(X) \in 0..MaxRows
        BY <2>2, <3>1, Ranks
      <3> DEFINE a == Rank(X, i)
                 b == Rank(X, j)
                 n == Cardinality(X)
      <3>3. a \in 1..n /\ b \in 1..n /\ n \in 0..MaxRows /\ ~(a <= top) /\ b <= top
        BY <2>2, <3>1, <3>2
      <3> HIDE DEF a, b, n
      <3>4. b < a
        BY <3>3 DEF Batched
      <3>. QED  BY <2>2, <3>1, <3>4, Ranks DEF a, b
    <2>. QED  BY <2>1, <2>3
  <1>. QED  BY <1>1, <1>2, Listed DEF Complete

\* A download reads a page.
LEMMA ReadFetches ==
    ASSUME Batched, Paged, NEW d \in Downloads, Underway(d), Increasing(d.out),
           d.limit = 0 => d.offset = 0
    PROVE  Sighted(S!Read(d))
  <1>6. PICK e : e = S!Read(d)
    OBVIOUS
  <1> DEFINE X == S!Stored(rows)
  <1>1. X \in SUBSET S!Ids
    BY OrderedRanks
  <1>2. Fits(d) /\ d.kept \subseteq X /\ Gathered(X, d.out, d.kept, d.offset)
    BY DEF Underway
  <1>3. d.out \in Seq(S!Ids) /\ d.offset \in Nat /\ d.asked \in Nat /\ d.by \in Nat /\ d.limit \in Nat
        /\ d.kept \in SUBSET S!Ids
    BY DEF Downloads
  <1>4. ASSUME d.limit = 0
        PROVE  Sighted(e)
    <2>1. d.asked = 0 /\ d.asked # S!NoLimit
      <3>1. S!NoLimit \in Nat \ {0}
        BY <1>2, NextLimit
      <3>2. d.offset = 0
        BY <1>4
      <3>. QED  BY <1>2, <1>3, <1>4, <3>1, <3>2 DEF Fits
    <2>2. Len(d.out) = 0
      BY <1>2, <1>3, <1>4, LenProperties DEF Gathered
    <2>3. e.out = d.out /\ e.kept = d.kept /\ e.asked = d.asked /\ e.pc = "done" /\ e \in Downloads
      BY <1>4, <1>6 DEF S!Read, Downloads
    <2>4. DOMAIN d.out = {}
      BY <1>3, <2>2, LenProperties
    <2>5. Complete(e)
      BY <2>1, <2>2, <2>3, <2>4 DEF Complete, S!ToSet
    <2>6. Increasing(e.out)
      BY <2>3
    <2>. QED  BY <2>3, <2>5, <2>6 DEF Sighted
  <1>5. ASSUME d.limit # 0
        PROVE  Sighted(e)
    <2>1. PICK pl, page : pl = S!PageLimit(d.limit) /\ page = S!PageAt(d.offset, d.limit)
      OBVIOUS
    <2>2. pl \in Nat /\ (d.limit = S!NoLimit \/ pl <= d.limit)
      BY <1>2, <1>3, <2>1, NextLimit DEF Smaller
    <2>3. /\ page \in Seq(S!Ids) /\ d.out \o page \in Seq(S!Ids)
          /\ Increasing(d.out \o page)
          /\ Gathered(X, d.out \o page, d.kept, d.offset + pl)
          /\ Len(page) < pl => \A i \in d.kept : InSeq(d.out \o page, i)
      <3>1. GoesOn(X, d.out, d.kept, d.offset, S!PageLimit(d.limit), S!PageAt(d.offset, d.limit))
        BY <1>2, <1>3, <2>1, <2>2, PageGathers
      <3>. QED  BY <3>1, <2>1 DEF GoesOn
    <2>4. /\ e.out = d.out \o page
          /\ e.kept = d.kept /\ e.asked = d.asked
          /\ e \in Downloads
          /\ \/ /\ e.pc = "done"
                /\ \/ d.asked # S!NoLimit /\ d.offset + pl = d.asked
                   \/ pl = d.by /\ Len(page) < d.by
             \/ /\ e.pc = "page" /\ pl = d.by /\ e.offset = d.offset + d.by
                /\ Fits(e) /\ e.limit # 0
      <3>1. Reads(d, S!PageLimit(d.limit), S!PageAt(d.offset, d.limit), e)
        BY <1>2, <1>5, <1>6, <2>1, <2>3, ReadCases
      <3>. QED  BY <3>1, <2>1, <2>3 DEF Reads
    <2>5. ASSUME e.pc = "page"
          PROVE  Sighted(e)
      BY <1>2, <2>3, <2>4, <2>5 DEF Underway, Sighted
    <2>6. ASSUME e.pc = "done"
          PROVE  Sighted(e)
      <3>1. d.offset + pl \in Nat
        BY <1>3, <2>2
      <3>2. e.asked = S!NoLimit \/ d.offset + pl <= e.asked
        <4>1. CASE d.limit = S!NoLimit
          BY <1>2, <1>3, <2>4, <4>1, NextLimit DEF Fits, S!NoLimit, Batched
        <4>2. CASE d.limit # S!NoLimit
          <5>1. pl <= d.limit /\ d.offset + d.limit = d.asked
            BY <1>2, <2>2, <4>2 DEF Fits
          <5>. QED  BY <5>1, <1>3, <2>2, <2>4
        <4>. QED  BY <4>1, <4>2
      <3>3. (e.asked # S!NoLimit /\ d.offset + pl = e.asked) \/ \A i \in e.kept : InSeq(e.out, i)
        BY <2>3, <2>4, <2>6
      <3>4. Gathered(X, e.out, e.kept, d.offset + pl) /\ Increasing(e.out) /\ e.kept \subseteq X
        BY <1>2, <2>3, <2>4
      <3>5. Complete(e)
        BY <1>1, <2>4, <3>1, <3>2, <3>3, <3>4, LastCompletes
      <3>. QED  BY <2>3, <2>4, <2>6, <3>5 DEF Sighted
    <2>. QED  BY <2>4, <2>5, <2>6
  <1>. QED  BY <1>4, <1>5, <1>6

LEMMA NothingFetched ==
    ASSUME Batched, dump' = S!NoDump
    PROVE  Fetched'
  <1>1. <<>> \in Seq(S!Ids) /\ Len(<<>>) = 0 /\ S!NoLimit \in Nat
    BY EmptySeq DEF Batched, S!NoLimit
  <1>2. DOMAIN <<>> = {}
    BY <1>1, LenProperties
  <1>3. /\ dump'.out = <<>> /\ dump'.pc = "idle" /\ dump' \in Downloads
    BY <1>1 DEF S!NoDump, Downloads
  <1>4. Increasing(dump'.out)
    BY <1>2, <1>3 DEF Increasing
  <1>. QED  BY <1>3, <1>4 DEF Fetched, Sighted

\* A download begins.
LEMMA DumpFetches ==
    ASSUME Batched, Paged, NEW limit \in DumpLimits \cup {S!NoLimit}, NEW text \in BOOLEAN,
           S!Dump(limit, text)
    PROVE  Fetched'
  <1>1. PICK d : d = [S!NoDump EXCEPT !.limit = limit, !.asked = limit, !.text = text,
                                      !.by = S!PageStep(limit), !.kept = S!Stored(rows)]
    OBVIOUS
  <1>2. PICK X : X = S!Stored(rows)
    OBVIOUS
  <1>3. /\ PaginateBy \in Nat \ {0} /\ RowsMax \in Nat \ {0}
        /\ limit \in Nat /\ S!NoLimit \in Nat \ {0}
        /\ limit = S!NoLimit \/ (limit # S!NoLimit /\ limit \in 0..MaxRows)
    BY DEF Paged, Batched, S!NoLimit
  <1>4. X \in SUBSET S!Ids
    BY <1>2 DEF S!Stored
  <1>5. /\ S!PageLimit(limit) \in Nat
        /\ S!PageLimit(limit) = Smaller(limit, Smaller(PaginateBy, RowsMax))
        /\ S!PageLimit(limit) = 0 <=> limit = 0
    BY <1>3, PageLimits
  <1>6. S!PageStep(limit) \in Nat
    BY <1>3, <1>5 DEF S!PageStep
  <1>7. /\ d.limit = limit /\ d.asked = limit /\ d.by = S!PageStep(limit) /\ d.kept = X
        /\ d.offset = 0 /\ d.out = <<>> /\ d.pc = "idle" /\ d \in Downloads
    <2>1. <<>> \in Seq(S!Ids)
      BY EmptySeq
    <2>. QED  BY <1>1, <1>2, <1>3, <1>4, <1>6, <2>1 DEF S!NoDump, Downloads
  <1>8. Fits(d)
    <2>1. CASE limit = S!NoLimit
      BY <2>1, <1>3, <1>5, <1>7 DEF Fits, S!PageStep
    <2>2. CASE limit # S!NoLimit /\ S!PageLimit(limit) # limit
      BY <2>2, <1>3, <1>5, <1>7 DEF Fits, S!PageStep, Smaller
    <2>3. CASE limit # S!NoLimit /\ S!PageLimit(limit) = limit
      <3>1. limit = Smaller(limit, Smaller(PaginateBy, RowsMax))
        BY <2>3, <1>5
      <3>2. limit <= PaginateBy
        BY <1>3, <3>1 DEF Smaller
      <3>3. d.by = PaginateBy /\ d.limit = limit /\ d.asked = limit /\ d.offset = 0
        BY <2>3, <1>7 DEF S!PageStep
      <3>4. 0 + limit = limit
        BY <1>3
      <3>. QED  BY <2>3, <1>3, <3>2, <3>3, <3>4 DEF Fits
    <2>. QED  BY <2>1, <2>2, <2>3
  <1>9. Len(d.out) = 0 /\ DOMAIN d.out = {}
    BY <1>7, EmptySeq, LenProperties
  <1>10. \A i \in X : ~(Rank(X, i) <= 0)
    <2>1. \A i \in X : Rank(X, i) \in 1..Cardinality(X)
      BY <1>4, Ranks
    <2>2. Cardinality(X) \in Nat
      BY <1>4, Ranks DEF Batched
    <2>. QED  BY <2>1, <2>2
  <1>11. Gathered(X, d.out, d.kept, d.offset)
    BY <1>7, <1>9, <1>10 DEF Gathered
  <1>12. Increasing(d.out)
    BY <1>9 DEF Increasing
  <1>13. Underway(d)
    BY <1>2, <1>7, <1>8, <1>11 DEF Underway
  <1>14. Sighted(S!Read(d))
    BY <1>7, <1>12, <1>13, ReadFetches
  <1>15. dump' = S!Read(d) /\ rows' = rows
    BY <1>1 DEF S!Dump
  <1>. QED  BY <1>14, <1>15 DEF Fetched, Sighted, Underway, Complete

LEMMA PageFetches ==
    ASSUME Batched, Paged, Fetched, S!DumpPage
    PROVE  Fetched'
  <1>1. rows' = rows /\ dump.pc = "page"
    BY DEF S!DumpPage
  <1>2. CASE dump' = S!Read(dump)
    <2>1. Sighted(S!Read(dump))
      BY <1>1, ReadFetches DEF Fetched, Sighted
    <2>. QED  BY <1>1, <1>2, <2>1 DEF Fetched, Sighted, Underway, Complete
  <1>3. CASE dump' = S!NoDump
    BY <1>3, NothingFetched
  <1>. QED  BY <1>2, <1>3 DEF S!DumpPage

\* The table gets rows that come after the others.
LEMMA GrowthKeeps ==
    ASSUME Batched, Fetched, dump' = dump,
           S!Stored(rows) \subseteq S!Stored(rows'),
           \A i \in S!Stored(rows') \ S!Stored(rows), j \in S!Stored(rows) : j < i
    PROVE  Fetched'
  <1>1. PICK X, Y : X = S!Stored(rows) /\ Y = S!Stored(rows')
    OBVIOUS
  <1>2. X \in SUBSET S!Ids /\ Y \in SUBSET S!Ids /\ X \subseteq Y
        /\ \A i \in Y \ X, j \in X : j < i
    BY <1>1 DEF S!Stored
  <1>3. \A i \in X : Rank(Y, i) = Rank(X, i)
    BY <1>2, RanksStay
  <1>4. ASSUME Underway(dump)
        PROVE  Underway(dump)'
    <2>1. dump.kept \subseteq X /\ Gathered(X, dump.out, dump.kept, dump.offset)
      BY <1>1, <1>4 DEF Underway
    <2>2. Gathered(Y, dump.out, dump.kept, dump.offset)
      BY <1>2, <1>3, <2>1 DEF Gathered
    <2>3. Gathered(S!Stored(rows'), dump.out, dump.kept, dump.offset)
      BY <1>1, <2>2
    <2>4. dump.kept \subseteq S!Stored(rows')
      BY <1>1, <1>2, <2>1
    <2>. QED  BY <1>4, <2>3, <2>4 DEF Underway
  <1>. QED  BY <1>4 DEF Fetched, Sighted, Complete

\* Rows go, but not while they are downloaded.
LEMMA LossKeeps ==
    ASSUME Fetched, dump.pc # "page", NEW kept \in SUBSET dump.kept,
           dump' = [dump EXCEPT !.kept = kept]
    PROVE  Fetched'
  <1>1. dump \in Downloads /\ Increasing(dump.out) /\ (dump.pc = "done" => Complete(dump))
    BY DEF Fetched, Sighted
  <1>2. /\ dump'.pc = dump.pc /\ dump'.out = dump.out /\ dump'.asked = dump.asked
        /\ dump'.kept = kept /\ dump' \in Downloads
    BY <1>1 DEF Downloads
  <1>3. Complete(dump) => Complete(dump')
    BY <1>2 DEF Complete
  <1>. QED  BY <1>1, <1>2, <1>3 DEF Fetched, Sighted

-----------------------------------------------------------------------------
\* What a transaction adds to the table comes after all that is there.
Orderly ==
    \A w \in Workers, i \in S!Ids :
        storeJob[w].put[i] # S!Absent /\ rows[i] = S!Absent =>
            \A j \in S!Stored(rows) : j < i

\* A transaction writes the rows it has, rows that are stored, and one at
\* the end.
Puts ==
    /\ UNCHANGED <<rows, dump>>
    /\ \A w \in Workers, i \in S!Ids :
         storeJob'[w].put[i] # S!Absent =>
            storeJob[w].put[i] # S!Absent \/ rows[i] # S!Absent \/ i = serial

LEMMA PutsInOrder ==
    ASSUME Batched, Recorded, Orderly, Puts
    PROVE  Orderly'
  <1>1. rows' = rows
    BY DEF Puts
  <1>2. ASSUME NEW w \in Workers, NEW i \in S!Ids,
               storeJob'[w].put[i] # S!Absent, rows[i] = S!Absent,
               NEW j \in S!Stored(rows)
        PROVE  j < i
    <2>1. CASE i = serial
      BY <2>1 DEF Recorded, S!Stored
    <2>2. CASE storeJob[w].put[i] # S!Absent
      BY <1>2, <2>2 DEF Orderly
    <2>. QED  BY <1>2, <2>1, <2>2 DEF Puts
  <1>. QED  BY <1>1, <1>2 DEF Orderly

LEMMA WriterPuts ==
    ASSUME Batched, Recorded, NEW w \in Workers,
           \/ \E method \in {"insert", "update", "upsert"}, batch \in Batches, dry \in BOOLEAN :
                S!Begin(w, method, batch, dry)
           \/ S!ReadSchema(w) \/ S!Update(w) \/ S!Insert(w) \/ S!Unblock(w) \/ S!Abort(w)
    PROVE  Puts
  <1>1. UNCHANGED <<rows, dump>>
    BY DEF S!Begin, S!ReadSchema, S!Update, S!Insert, S!Unblock, S!Abort, S!Serving
  <1>2. PICK o, r : o = storeJob[w] /\ r = Head(o.left)
    OBVIOUS
  <1>3. o \in StoreJobs /\ storeJob \in [Workers -> StoreJobs]
    BY <1>2 DEF Recorded
  <1>4. S!Idle.put = S!NoRows /\ \A i \in S!Ids : S!NoRows[i] = S!Absent
    BY DEF S!Idle, S!NoRows
  <1>5. ASSUME NEW q, storeJob' = [storeJob EXCEPT ![w] = q],
               \A i \in S!Ids : q.put[i] # S!Absent =>
                    o.put[i] # S!Absent \/ rows[i] # S!Absent \/ i = serial
        PROVE  Puts
    <2>1. storeJob'[w] = q /\ \A x \in Workers \ {w} : storeJob'[x] = storeJob[x]
      BY <1>3, <1>5
    <2>. QED  BY <1>1, <1>2, <1>5, <2>1 DEF Puts
  <1>6. S!End(w) => Puts
    BY <1>4, <1>5 DEF S!End
  <1>7. \A q : q \in StoreJobs => S!Advance(q).put = q.put
    BY DEF S!Advance, StoreJobs
  <1>8. ASSUME NEW method, NEW batch, NEW dry, S!Begin(w, method, batch, dry)
        PROVE  Puts
    <2> DEFINE q == [S!Idle EXCEPT !.pc = "begin", !.method = method, !.dry = dry,
                                   !.all = batch, !.left = batch]
    <2>1. q.put = S!NoRows
      BY DEF S!Idle
    <2>2. storeJob' = [storeJob EXCEPT ![w] = q]
      BY <1>8 DEF S!Begin
    <2> HIDE DEF q
    <2>. QED  BY <1>4, <1>5, <2>1, <2>2
  <1>9. ASSUME NEW pc, storeJob' = [storeJob EXCEPT ![w].pc = pc]
        PROVE  Puts
    <2>1. PICK q : q = [o EXCEPT !.pc = pc]
      OBVIOUS
    <2>2. q.put = o.put /\ storeJob' = [storeJob EXCEPT ![w] = q]
      BY <1>2, <1>3, <1>9, <2>1 DEF StoreJobs
    <2>. QED  BY <1>5, <2>2
  <1>10. CASE S!ReadSchema(w)
    BY <1>6, <1>9, <1>10 DEF S!ReadSchema
  <1>11. CASE S!Update(w)
    <2>1. PICK found, put :
            /\ found = S!Matching(S!Visible(w), r)
            /\ put = [i \in S!Ids |-> IF i \in found THEN [key |-> r.key, val |-> r.val]
                                                    ELSE o.put[i]]
      OBVIOUS
    <2>2. \/ S!End(w)
          \/ storeJob' = [storeJob EXCEPT ![w] = S!Advance([o EXCEPT !.put = put])]
          \/ storeJob' = [storeJob EXCEPT ![w] = [o EXCEPT !.put = put, !.pc = "insert"]]
      BY <1>2, <1>11, <2>1 DEF S!Update
    <2>3. \A i \in S!Ids : put[i] # S!Absent =>
                    o.put[i] # S!Absent \/ rows[i] # S!Absent \/ i = serial
      BY <1>2, <2>1 DEF S!Matching, S!Stored, S!Visible
    <2>4. S!Advance([o EXCEPT !.put = put]).put = put /\ [o EXCEPT !.put = put, !.pc = "insert"].put = put
      BY <1>3 DEF S!Advance, StoreJobs
    <2>5. CASE storeJob' = [storeJob EXCEPT ![w] = S!Advance([o EXCEPT !.put = put])]
      BY <1>5, <2>3, <2>4, <2>5
    <2>6. CASE storeJob' = [storeJob EXCEPT ![w] = [o EXCEPT !.put = put, !.pc = "insert"]]
      BY <1>5, <2>3, <2>4, <2>6
    <2>. QED  BY <1>6, <2>2, <2>5, <2>6
  <1>12. CASE S!InsertRow(w, r)
    <2>1. PICK q : q = S!Advance(S!Put(o, serial, r))
      OBVIOUS
    <2>2. S!End(w) \/ storeJob' = [storeJob EXCEPT ![w] = q]
      BY <1>2, <1>12, <2>1 DEF S!InsertRow
    <2>3. q.put = [o.put EXCEPT ![serial] = [key |-> r.key, val |-> r.val]]
      BY <1>3, <2>1 DEF S!Advance, S!Put, StoreJobs
    <2>4. \A i \in S!Ids : i # serial => q.put[i] = o.put[i]
      BY <1>3, <2>3 DEF StoreJobs
    <2>. QED  BY <1>5, <1>6, <2>2, <2>4
  <1>13. CASE storeJob' = [storeJob EXCEPT ![w] = S!Advance(@)]
    <2>1. PICK q : q = S!Advance(o)
      OBVIOUS
    <2>2. q.put = o.put /\ storeJob' = [storeJob EXCEPT ![w] = q]
      BY <1>2, <1>3, <1>7, <1>13, <2>1
    <2>. QED  BY <1>5, <2>2
  <1>14. CASE S!Insert(w)
    BY <1>2, <1>9, <1>12, <1>13, <1>14 DEF S!Insert
  <1>15. CASE S!Unblock(w)
    BY <1>2, <1>12, <1>15 DEF S!Unblock
  <1>16. CASE S!Abort(w)
    BY <1>6, <1>16 DEF S!Abort
  <1>. QED  BY <1>8, <1>10, <1>11, <1>14, <1>15, <1>16

\* The rows that a transaction adds are the last ones.
LEMMA CommitInOrder ==
    ASSUME Batched, Recorded, part = "store", Orderly, Fetched, NEW w \in Workers, S!Commit(w)
    PROVE  Orderly' /\ Fetched'
  <1>1. /\ storeJob' = [storeJob EXCEPT ![w] = S!Idle] /\ dump' = dump
        /\ rows' = rows \/ rows' = S!Visible(w)
        /\ storeJob[w].pc # "idle"
    BY DEF S!Commit, S!End, S!Step
  <1>2. S!Idle.put = S!NoRows /\ \A i \in S!Ids : S!NoRows[i] = S!Absent
    BY DEF S!Idle, S!NoRows
  <1>3. \A x \in Workers, i \in S!Ids : storeJob'[x].put[i] = S!Absent
    <2>1. storeJob'[w] = S!Idle /\ \A x \in Workers \ {w} : storeJob'[x] = storeJob[x]
      BY <1>1 DEF Recorded
    <2>2. \A x \in Workers \ {w} : storeJob[x].pc = "idle" /\ storeJob[x].put = S!NoRows
      BY <1>1 DEF Recorded, Sound
    <2>3. \A x \in Workers : storeJob'[x].put = S!NoRows
      BY <1>2, <2>1, <2>2
    <2>. QED  BY <1>2, <2>3
  <1>4. Orderly'
    BY <1>3 DEF Orderly
  <1>5. S!Stored(rows) \subseteq S!Stored(rows')
    BY <1>1 DEF S!Stored, S!Visible
  <1>6. \A i \in S!Stored(rows') \ S!Stored(rows), j \in S!Stored(rows) : j < i
    <2>1. CASE rows' = rows
      BY <2>1
    <2>2. CASE rows' = S!Visible(w)
      <3>1. \A i \in S!Stored(rows') \ S!Stored(rows) :
              i \in S!Ids /\ storeJob[w].put[i] # S!Absent /\ rows[i] = S!Absent
        BY <2>2 DEF S!Stored, S!Visible
      <3>. QED  BY <3>1 DEF Orderly
    <2>. QED  BY <1>1, <2>1, <2>2
  <1>. QED  BY <1>1, <1>4, <1>5, <1>6, GrowthKeeps

\* Rows are appended, or go.
LEMMA WholeInOrder ==
    ASSUME Batched, Recorded, part = "store", Orderly, Fetched,
           \/ \E batch \in Batches \cup {<<>>}, key \in BOOLEAN : S!Create(batch, key)
           \/ \E K : S!DeleteRows(K)
           \/ S!Drop
    PROVE  Orderly' /\ Fetched'
  <1>1. ASSUME NEW batch \in Batches \cup {<<>>}, NEW key \in BOOLEAN, S!Create(batch, key)
        PROVE  Orderly' /\ Fetched'
    <2>1. /\ storeJob' = storeJob /\ dump' = dump /\ S!Open = {}
          /\ rows' = rows \/ rows' = S!Appended(batch)
      BY <1>1 DEF S!Create
    <2>2. \A w \in Workers : storeJob[w].put = S!NoRows
      BY <2>1 DEF S!Open, Recorded, StoreJobs, Sound
    <2>3. \A w \in Workers, i \in S!Ids : storeJob'[w].put[i] = S!Absent
      BY <2>1, <2>2 DEF S!NoRows
    <2>4. Orderly'
      BY <2>3 DEF Orderly
    <2>5. CASE rows' = rows
      BY <2>1, <2>4, <2>5 DEF Fetched, Sighted, Underway, Complete
    <2>6. CASE rows' = S!Appended(batch)
      <3>1. \A i \in S!Ids : ~(serial <= i) => rows'[i] = rows[i]
        BY <2>6 DEF S!Appended
      <3>2. \A i \in S!Ids : i \in Nat /\ (rows[i] # S!Absent => i < serial) /\ serial \in Nat
        BY RowTypes DEF Recorded
      <3>3. \A i \in S!Stored(rows) : i \in S!Stored(rows') /\ i < serial
        BY <3>1, <3>2 DEF S!Stored
      <3>4. \A i \in S!Stored(rows') \ S!Stored(rows) : i \in S!Ids /\ serial <= i
        BY <3>1, <3>2 DEF S!Stored
      <3>5. \A i \in S!Stored(rows') \ S!Stored(rows), j \in S!Stored(rows) : j < i
        BY <3>2, <3>3, <3>4 DEF S!Stored
      <3>. QED  BY <2>1, <2>4, <3>3, <3>5, GrowthKeeps
    <2>. QED  BY <2>1, <2>4, <2>5, <2>6
  <1>2. ASSUME NEW K, S!DeleteRows(K)
        PROVE  Orderly' /\ Fetched'
    <2>1. PICK gone : /\ gone = {i \in S!Stored(rows) : rows[i].key \in K}
                      /\ \A w \in Workers, i \in gone : storeJob[w].put[i] = S!Absent
                      /\ rows' = [i \in S!Ids |-> IF i \in gone THEN S!Absent ELSE rows[i]]
                      /\ dump' = [dump EXCEPT !.kept = @ \ gone]
                      /\ storeJob' = storeJob
      BY <1>2 DEF S!DeleteRows
    <2>2. dump.pc # "page"
      BY <1>2 DEF S!DeleteRows, S!Request, S!MayBegin
    <2>3. Orderly'
      <3>1. \A i \in S!Ids : rows'[i] # S!Absent => rows[i] # S!Absent
        BY <2>1
      <3>2. \A i \in S!Ids \ gone : rows'[i] = rows[i]
        BY <2>1
      <3>. QED  BY <2>1, <3>1, <3>2 DEF Orderly, S!Stored
    <2>4. PICK kept \in SUBSET dump.kept : dump' = [dump EXCEPT !.kept = kept]
      <3>1. dump.kept \ gone \in SUBSET dump.kept /\ dump' = [dump EXCEPT !.kept = dump.kept \ gone]
        BY <2>1
      <3>. QED  BY <3>1
    <2>. QED  BY <2>2, <2>3, <2>4, LossKeeps
  <1>3. ASSUME S!Drop
        PROVE  Orderly' /\ Fetched'
    <2>1. storeJob' = storeJob /\ rows' = S!NoRows /\ S!Open = {}
          /\ dump' = [dump EXCEPT !.kept = {}]
      BY <1>3 DEF S!Drop
    <2>2. dump.pc # "page"
      BY <1>3 DEF S!Drop, S!Request, S!MayBegin
    <2>3. S!Stored(rows') = {}
      BY <2>1 DEF S!Stored, S!NoRows
    <2>4. Orderly'
      BY <2>3 DEF Orderly
    <2>. QED  BY <2>1, <2>2, <2>4, LossKeeps
  <1>. QED  BY <1>1, <1>2, <1>3

\* A step of the table keeps the order of the rows, and what a download has.
LEMMA FetchedStep ==
    ASSUME Batched, Paged, Recorded, part = "store", Orderly, Fetched, S!Next
    PROVE  Orderly' /\ Fetched'
  <1>1. ASSUME Puts
        PROVE  Orderly' /\ Fetched'
    <2>1. Orderly'
      BY <1>1, PutsInOrder
    <2>2. Fetched'
      BY <1>1 DEF Puts, Fetched, Sighted, Underway, Complete
    <2>. QED  BY <2>1, <2>2
  <1>2. ASSUME NEW w \in Workers,
               \/ \E method \in {"insert", "update", "upsert"}, batch \in Batches, dry \in BOOLEAN :
                    S!Begin(w, method, batch, dry)
               \/ S!ReadSchema(w) \/ S!Update(w) \/ S!Insert(w) \/ S!Unblock(w) \/ S!Abort(w)
        PROVE  Orderly' /\ Fetched'
    BY <1>1, <1>2, WriterPuts
  <1>3. ASSUME NEW w \in Workers, S!Commit(w)
        PROVE  Orderly' /\ Fetched'
    BY <1>3, CommitInOrder
  <1>4. CASE \/ \E batch \in Batches \cup {<<>>}, key \in BOOLEAN : S!Create(batch, key)
             \/ \E K : S!DeleteRows(K)
             \/ S!Drop
    BY <1>4, WholeInOrder
  <1>5. ASSUME NEW limit \in DumpLimits \cup {S!NoLimit}, NEW text \in BOOLEAN,
               S!Dump(limit, text)
        PROVE  Orderly' /\ Fetched'
    <2>1. rows' = rows /\ storeJob' = storeJob
      BY <1>5 DEF S!Dump
    <2>. QED  BY <1>5, <2>1, DumpFetches DEF Orderly
  <1>6. CASE S!DumpPage
    <2>1. rows' = rows /\ storeJob' = storeJob
      BY <1>6 DEF S!DumpPage
    <2>. QED  BY <1>6, <2>1, PageFetches DEF Orderly
  <1>. QED  BY <1>2, <1>3, <1>4, <1>5, <1>6 DEF S!Next

\* A download gives every row that was there from its beginning to its end, up
\* to the limit, none twice and all in order, whatever is added meanwhile.
THEOREM DumpAlwaysWhole ==
    ASSUME Batched, Paged
    PROVE  StateSpec => []DumpWhole
  <1> DEFINE DInv == Recorded /\ (part = "store" => Orderly /\ Fetched)
  <1>1. StateInit => DInv
    <2> SUFFICES ASSUME StateInit
                 PROVE  DInv
      OBVIOUS
    <2>1. Recorded
      BY InitRecorded DEF StateInit
    <2>2. rows = S!NoRows /\ dump = S!NoDump /\ \A w \in Workers : storeJob[w] = S!Idle
      BY DEF StateInit, S!Init
    <2>3. Orderly
      BY <2>2 DEF Orderly, S!Idle, S!NoRows
    <2>4. Fetched
      <3>1. <<>> \in Seq(S!Ids) /\ Len(<<>>) = 0 /\ S!NoLimit \in Nat
        BY EmptySeq DEF Batched, S!NoLimit
      <3>2. DOMAIN <<>> = {}
        BY <3>1, LenProperties
      <3>3. dump.out = <<>> /\ dump.pc = "idle" /\ dump \in Downloads
        BY <2>2, <3>1 DEF S!NoDump, Downloads
      <3>4. Increasing(dump.out)
        BY <3>2, <3>3 DEF Increasing
      <3>. QED  BY <3>3, <3>4 DEF Fetched, Sighted
    <2>. QED  BY <2>1, <2>3, <2>4
  <1>2. DInv /\ [StateNext]_<<part, vars, store, forms, given, tags, patches>> => DInv'
    <2> SUFFICES ASSUME DInv, [StateNext]_<<part, vars, store, forms, given, tags, patches>>
                 PROVE  DInv'
      OBVIOUS
    <2>1. ASSUME UNCHANGED <<part, store>>
          PROVE  DInv'
      <3>1. UNCHANGED <<rows, dump, storeJob, part>>
        BY <2>1 DEF store
      <3>2. Recorded'
        BY <2>1, WholeRecords DEF store, Whole
      <3>. QED  BY <3>1, <3>2 DEF Orderly, Fetched, Sighted, Underway, Complete
    <2>2. CASE StateNext
      <3>1. Recorded' /\ part' = part
        BY <2>2, RecordedStep DEF StateNext
      <3>2. part = "store" => S!Next \/ UNCHANGED store
        BY <2>2 DEF StateNext, OneByOne
      <3>3. CASE part = "store" /\ S!Next
        BY <3>1, <3>3, FetchedStep
      <3>4. CASE UNCHANGED store
        BY <2>1, <3>1, <3>4
      <3>. QED  BY <3>1, <3>2, <3>3, <3>4
    <2>. QED  BY <2>1, <2>2
  <1>3. DInv => DumpWhole
    BY DEF DumpWhole, Fetched, Sighted, Complete, Increasing, S!DumpMissesNone, S!DumpInOrder
  <1>. QED  BY <1>1, <1>2, <1>3, PTL DEF StateSpec
-----------------------------------------------------------------------------
(* Tags.                                                                   *)

\* No name is the one of nothing, vocabularies are not renamed, and a free
\* tag has none.
Tagging ==
    /\ MaxTags \in Nat
    /\ T!None \notin TagNames \cup Datasets \cup Labels
    /\ Free \notin Vocabularies
    /\ ~MayRename

TagJobs == [ds : Datasets \cup {T!None}, tags : SUBSET T!Tag, seen : SUBSET T!Ids]

\* The inductive invariant: what is linked, or was found by a request, is a
\* row; a vocabulary that has tags exists; and documents are current.
Attached ==
    /\ label \in [Vocabularies -> Labels \cup {T!None}]
    /\ tag \in [T!Ids -> T!Tag \cup {T!NoTag}]
    /\ link \in [Datasets \X T!Ids -> {"none", "active", "deleted"}]
    /\ tagJob \in [Workers -> TagJobs]
    /\ \A x \in Datasets \X T!Ids : link[x] # "none" => x[2] \in T!Rows
    /\ \A i \in T!Rows : tag[i].vocab # Free => label[tag[i].vocab] # T!None
    /\ \A w \in Workers : \A i \in tagJob[w].seen : i \in T!Rows /\ tag[i] \in tagJob[w].tags
    /\ T!IndexTagsCurrent

\* With one request after another, a request has found what there is, and a
\* free tag has one row.
Unique(t) == \A i, j \in T!RowsOf(t) : i = j
FoundAll(w) == \A t \in tagJob[w].tags : T!RowsOf(t) # {} => tagJob[w].seen \cap T!RowsOf(t) # {}

FreeOnce ==
    /\ \A t \in T!Tag : t.vocab = Free => Unique(t)
    /\ \A w \in Workers : FoundAll(w) /\ (w # One => tagJob[w] = T!Idle)

LEMMA CountsSame == \A X : T!Cardinality(X) = Cardinality(X)
  BY DEF T!Cardinality, Cardinality, T!IsFiniteSet, IsFiniteSet

LEMMA TagsAre ==
    ASSUME Tagging
    PROVE  /\ T!Idle \in TagJobs
           /\ T!NoTag \notin T!Tag
           /\ \A t \in T!Tag : t.name \in TagNames /\ t.vocab \in Vocabularies \cup {Free}
           /\ IsFiniteSet(T!Ids)
  <1>1. IsFiniteSet(T!Ids)
    BY FS_Interval DEF Tagging, T!Ids
  <1>. QED  BY <1>1 DEF Tagging, TagJobs, T!Idle, T!NoTag, T!Tag, T!Place

LEMMA InitTags ==
    ASSUME Tagging, T!Init
    PROVE  Attached /\ FreeOnce
  <1>1. T!Rows = {}
    BY DEF T!Init, T!Rows
  <1>2. tagJob \in [Workers -> TagJobs] /\ \A w \in Workers : tagJob[w].tags = {} /\ tagJob[w].seen = {}
    BY TagsAre DEF T!Init, T!Idle
  <1>3. T!IndexTagsCurrent
    BY DEF T!Init, T!IndexTagsCurrent, T!Indexed, T!Tagged
  <1>4. \A t : T!RowsOf(t) = {}
    BY <1>1 DEF T!RowsOf
  <1>5. Attached
    <2>1. label \in [Vocabularies -> Labels \cup {T!None}]
      BY DEF T!Init
    <2>2. tag \in [T!Ids -> T!Tag \cup {T!NoTag}]
      BY DEF T!Init
    <2>3. link \in [Datasets \X T!Ids -> {"none", "active", "deleted"}]
      BY DEF T!Init
    <2>4. \A x \in Datasets \X T!Ids : link[x] = "none"
      BY DEF T!Init
    <2>. QED  BY <1>1, <1>2, <1>3, <2>1, <2>2, <2>3, <2>4 DEF Attached
  <1>6. FreeOnce
    BY <1>2, <1>4 DEF FreeOnce, Unique, FoundAll, T!Init
  <1>. QED  BY <1>5, <1>6

\* As many rows as tags, and each tag in one of them: each tag in one row.
LEMMA NamedApart ==
    ASSUME Tagging, NEW ids \in SUBSET T!Ids, NEW new, NEW named \in [ids -> new],
           T!Cardinality(ids) = T!Cardinality(new), {named[i] : i \in ids} = new
    PROVE  \A i, j \in ids : named[i] = named[j] => i = j
  <1>1. IsFiniteSet(ids)
    BY TagsAre, FS_Subset
  <1>2. named \in Surjection(ids, new)
    BY DEF Surjection
  <1>3. named \in Injection(ids, new)
    BY <1>1, <1>2, CountsSame, FS_SurjSameCardinalityImpliesInj
  <1>. QED  BY <1>3 DEF Injection, IsInjective

-----------------------------------------------------------------------------
\* What the index says of a dataset stays right when its links, its rows and
\* the names of their vocabularies stay.
LEMMA SameIndexed ==
    ASSUME NEW d, d \in deleted' <=> d \in deleted, T!Tagged(link', d) = T!Tagged(link, d),
           \A i \in T!Tagged(link, d) : /\ tag'[i] = tag[i]
                                        /\ tag[i].vocab # Free => label'[tag[i].vocab] = label[tag[i].vocab]
    PROVE  T!Indexed(tag', link', label', deleted', d) = T!Indexed(tag, link, label, deleted, d)
  <1>. DEFINE Doc(tt, ll, i) == <<tt[i].name, IF tt[i].vocab = Free THEN Free ELSE ll[tt[i].vocab]>>
  <1>1. \A i \in T!Tagged(link, d) : Doc(tag', label', i) = Doc(tag, label, i)
    OBVIOUS
  <1>2. {Doc(tag', label', i) : i \in T!Tagged(link', d)} = {Doc(tag, label, i) : i \in T!Tagged(link, d)}
    BY <1>1
  <1>. QED  BY <1>2 DEF T!Indexed

LEMMA SameDocuments ==
    ASSUME T!IndexTagsCurrent, index' = index,
           \A d \in Datasets :
               T!Indexed(tag', link', label', deleted', d) = T!Indexed(tag, link, label, deleted, d)
    PROVE  T!IndexTagsCurrent'
  BY DEF T!IndexTagsCurrent

LEMMA Reindexed ==
    ASSUME NEW touched, T!IndexTagsCurrent, T!Reindex(touched),
           \A d \in Datasets \ touched :
               T!Indexed(tag', link', label', deleted', d) = T!Indexed(tag, link, label, deleted, d)
    PROVE  T!IndexTagsCurrent'
  BY DEF T!IndexTagsCurrent, T!Reindex

\* What is linked is a row.
LEMMA LinkedRows ==
    ASSUME Attached, NEW d \in Datasets, NEW i \in T!Tagged(link, d)
    PROVE  i \in T!Ids /\ link[<<d, i>>] = "active" /\ i \in T!Rows /\ tag[i] \in T!Tag
  <1>1. i \in T!Ids /\ link[<<d, i>>] = "active"
    BY DEF T!Tagged
  <1>2. <<d, i>> \in Datasets \X T!Ids /\ <<d, i>>[2] = i
    BY <1>1
  <1>3. i \in T!Rows
    BY <1>1, <1>2 DEF Attached
  <1>. QED  BY <1>1, <1>3 DEF Attached, T!Rows

-----------------------------------------------------------------------------
(* Requests for datasets *)

LEMMA LookTags ==
    ASSUME Tagging, Attached, NEW w \in Workers, NEW d \in Datasets, NEW want \in SUBSET T!Tag,
           T!Look(w, d, want)
    PROVE  /\ Attached'
           /\ FreeOnce /\ (\A v \in Workers \ {One} : UNCHANGED tagJob[v]) => FreeOnce'
  <1>1. PICK seen \in SUBSET T!Rows :
          /\ \A t \in want : T!Cardinality(seen \cap T!RowsOf(t)) = T!Min({1, T!Cardinality(T!RowsOf(t))})
          /\ \A i \in seen : tag[i] \in want
          /\ tagJob' = [tagJob EXCEPT ![w] = [ds |-> d, tags |-> want, seen |-> seen]]
    BY DEF T!Look
  <1>2. UNCHANGED <<label, tag, link, deleted, index>>
    BY DEF T!Look
  <1>3. seen \in SUBSET T!Ids
    BY DEF T!Rows
  <1>4. [ds |-> d, tags |-> want, seen |-> seen] \in TagJobs
    BY <1>3 DEF TagJobs
  <1>5. tagJob' \in [Workers -> TagJobs]
    BY <1>1, <1>4 DEF Attached
  <1>6. /\ tagJob'[w].tags = want /\ tagJob'[w].seen = seen
        /\ \A v \in Workers \ {w} : tagJob'[v] = tagJob[v]
    BY <1>1 DEF Attached
  <1>7. T!Rows' = T!Rows /\ \A t : T!RowsOf(t)' = T!RowsOf(t)
    BY <1>2 DEF T!Rows, T!RowsOf
  <1>8. T!IndexTagsCurrent'
    BY <1>2 DEF Attached, T!IndexTagsCurrent
  <1>9. Attached'
    BY <1>1, <1>2, <1>5, <1>6, <1>7, <1>8 DEF Attached
  <1>10. ASSUME FreeOnce, \A v \in Workers \ {One} : UNCHANGED tagJob[v]
         PROVE  FreeOnce'
    <2>1. \A t \in want : T!RowsOf(t) # {} => seen \cap T!RowsOf(t) # {}
      <3> SUFFICES ASSUME NEW t \in want, T!RowsOf(t) # {}, seen \cap T!RowsOf(t) = {}
                   PROVE  FALSE
        OBVIOUS
      <3>1. IsFiniteSet(T!RowsOf(t))
        BY TagsAre, FS_Subset DEF T!RowsOf, T!Rows
      <3>2. T!Cardinality(T!RowsOf(t)) \in Nat \ {0}
        BY <3>1, CountsSame, FS_EmptySet, FS_CardinalityType
      <3>3. T!Min({1, T!Cardinality(T!RowsOf(t))}) = 1
        BY <3>2 DEF T!Min
      <3>4. T!Cardinality(seen \cap T!RowsOf(t)) = 0
        BY CountsSame, FS_EmptySet
      <3>. QED  BY <1>1, <3>3, <3>4
    <2>2. FoundAll(w)'
      BY <1>6, <1>7, <2>1 DEF FoundAll
    <2>3. \A v \in Workers \ {w} : FoundAll(v)'
      BY <1>6, <1>7, <1>10 DEF FoundAll, FreeOnce
    <2>4. \A t \in T!Tag : t.vocab = Free => Unique(t)'
      BY <1>7, <1>10 DEF FreeOnce, Unique
    <2>. QED  BY <1>10, <2>2, <2>3, <2>4 DEF FreeOnce
  <1>. QED  BY <1>9, <1>10

LEMMA FailTags ==
    ASSUME Tagging, Attached, NEW w \in Workers, T!Fail(w)
    PROVE  Attached' /\ (FreeOnce => FreeOnce')
  <1>1. tagJob' \in [Workers -> TagJobs]
    BY TagsAre DEF Attached, T!Fail
  <1>2. \A v \in Workers : tagJob'[v] = tagJob[v] \/ (tagJob'[v] = T!Idle /\ T!Idle.tags = {} /\ T!Idle.seen = {})
    BY DEF Attached, T!Fail, T!Idle
  <1>3. UNCHANGED <<label, tag, link, deleted, index>>
    BY DEF T!Fail
  <1>4. T!Rows' = T!Rows /\ \A t : T!RowsOf(t)' = T!RowsOf(t)
    BY <1>3 DEF T!Rows, T!RowsOf
  <1>5. T!IndexTagsCurrent'
    BY <1>3 DEF Attached, T!IndexTagsCurrent
  <1>6. \A v \in Workers : \A i \in tagJob'[v].seen : i \in T!Rows' /\ tag'[i] \in tagJob'[v].tags
    BY <1>2, <1>3, <1>4 DEF Attached
  <1>7. Attached'
    BY <1>1, <1>3, <1>4, <1>5, <1>6 DEF Attached
  <1>8. FreeOnce => FreeOnce'
    <2> SUFFICES ASSUME FreeOnce
                 PROVE  FreeOnce'
      OBVIOUS
    <2>1. \A v \in Workers : FoundAll(v)' /\ (v # One => tagJob'[v] = T!Idle)
      BY <1>2, <1>4 DEF FreeOnce, FoundAll
    <2>2. \A t \in T!Tag : t.vocab = Free => Unique(t)'
      BY <1>4 DEF FreeOnce, Unique
    <2>. QED  BY <2>1, <2>2 DEF FreeOnce
  <1>. QED  BY <1>7, <1>8

\* What a request that saves the tags of its dataset does, if it does not
\* fail.
Lacks(w) == {t \in tagJob[w].tags : ~\E i \in tagJob[w].seen : tag[i] = t}

Inserts(w, ids, named) ==
    /\ ids \in SUBSET (T!Ids \ T!Rows) /\ named \in [ids -> Lacks(w)]
    /\ T!Cardinality(ids) = T!Cardinality(Lacks(w))
    /\ {named[i] : i \in ids} = Lacks(w)
    /\ tag' = [i \in T!Ids |-> IF i \in ids THEN named[i] ELSE tag[i]]
    /\ T!SaveLinks(tagJob[w].ds, tagJob[w].seen \cup ids)
    /\ tagJob' = [tagJob EXCEPT ![w] = T!Idle]
    /\ UNCHANGED <<label, deleted>>
    /\ T!Reindex(IF link' # link THEN {tagJob[w].ds} ELSE {})
    /\ T!Valid(tagJob[w].tags)

LEMMA SaveCases ==
    ASSUME NEW w \in Workers, T!Save(w)
    PROVE  /\ tagJob[w].ds # T!None
           /\ T!Fail(w) \/ \E ids, named : Inserts(w, ids, named)
  BY Zenon DEF T!Save, Lacks, Inserts

\* The rows after it, its links, and the tags its dataset has.
LEMMA InsertedRows ==
    ASSUME Tagging, Attached, NEW w \in Workers, tagJob[w].ds # T!None,
           NEW ids, NEW named, Inserts(w, ids, named)
    PROVE  /\ tagJob[w].ds \in Datasets /\ tagJob[w].seen \subseteq T!Rows /\ tagJob[w].tags \subseteq T!Tag
           /\ tag' \in [T!Ids -> T!Tag \cup {T!NoTag}]
           /\ T!Rows' = T!Rows \cup ids
           /\ \A i \in T!Rows : tag'[i] = tag[i]
           /\ \A i \in ids : tag'[i] = named[i] /\ tag'[i] \in Lacks(w)
           /\ link' \in [Datasets \X T!Ids -> {"none", "active", "deleted"}]
           /\ \A x \in Datasets \X T!Ids : link'[x] # "none" => x[2] \in T!Rows'
           /\ \A d \in Datasets \ {tagJob[w].ds} : T!Tagged(link', d) = T!Tagged(link, d)
           /\ T!Tagged(link', tagJob[w].ds) = tagJob[w].seen \cup ids
           /\ {tag'[i] : i \in T!Tagged(link', tagJob[w].ds)} = tagJob[w].tags
  <1>1. tagJob[w] \in TagJobs
    BY DEF Attached
  <1>2. tagJob[w].ds \in Datasets /\ tagJob[w].tags \subseteq T!Tag /\ tagJob[w].seen \subseteq T!Ids
    BY <1>1 DEF TagJobs
  <1>3. tagJob[w].seen \subseteq T!Rows /\ \A i \in tagJob[w].seen : tag[i] \in tagJob[w].tags
    BY DEF Attached
  <1>4. Lacks(w) \subseteq T!Tag /\ T!NoTag \notin T!Tag
    BY <1>2, TagsAre DEF Lacks
  <1>5. ids \subseteq T!Ids /\ ids \cap T!Rows = {} /\ \A i \in ids : named[i] \in Lacks(w)
    BY DEF Inserts
  <1>6. /\ \A i \in T!Ids : tag'[i] = IF i \in ids THEN named[i] ELSE tag[i]
        /\ tag' \in [T!Ids -> T!Tag \cup {T!NoTag}]
    BY <1>4, <1>5 DEF Inserts, Attached
  <1>7. T!Rows' = T!Rows \cup ids
    BY <1>4, <1>5, <1>6 DEF T!Rows
  <1>8. \A i \in T!Rows : tag'[i] = tag[i]
    BY <1>5, <1>6 DEF T!Rows
  <1>9. \A i \in ids : tag'[i] = named[i] /\ tag'[i] \in Lacks(w)
    BY <1>5, <1>6
  <1>. DEFINE found == tagJob[w].seen \cup ids
              Now(x) == CASE x[1] = tagJob[w].ds /\ x[2] \in found -> "active"
                          [] x[1] = tagJob[w].ds /\ x[2] \notin found /\ link[x] # "none" -> "deleted"
                          [] OTHER -> link[x]
  <1>10. found \subseteq T!Ids /\ found \subseteq T!Rows'
    BY <1>2, <1>3, <1>5, <1>7
  <1>11. link' = [x \in Datasets \X T!Ids |-> Now(x)]
    BY DEF Inserts, T!SaveLinks, Attached
  <1>12. \A x \in Datasets \X T!Ids :
           /\ link'[x] \in {"none", "active", "deleted"}
           /\ x[1] # tagJob[w].ds => link'[x] = link[x]
           /\ x[1] = tagJob[w].ds => (link'[x] = "active" <=> x[2] \in found)
           /\ link'[x] # "none" => link[x] # "none" \/ x[2] \in found
    <2> SUFFICES ASSUME NEW x \in Datasets \X T!Ids
                 PROVE  /\ link'[x] \in {"none", "active", "deleted"}
                        /\ x[1] # tagJob[w].ds => link'[x] = link[x]
                        /\ x[1] = tagJob[w].ds => (link'[x] = "active" <=> x[2] \in found)
                        /\ link'[x] # "none" => link[x] # "none" \/ x[2] \in found
      OBVIOUS
    <2>1. link[x] \in {"none", "active", "deleted"} /\ link'[x] = Now(x)
      BY <1>11 DEF Attached
    <2>2. CASE x[1] # tagJob[w].ds
      BY <2>1, <2>2
    <2>3. CASE x[1] = tagJob[w].ds /\ x[2] \in found
      BY <2>1, <2>3
    <2>4. CASE x[1] = tagJob[w].ds /\ x[2] \notin found
      BY <2>1, <2>4
    <2>. QED  BY <2>2, <2>3, <2>4
  <1>13. link' \in [Datasets \X T!Ids -> {"none", "active", "deleted"}]
    BY <1>11, <1>12
  <1>14. \A x \in Datasets \X T!Ids : link'[x] # "none" => x[2] \in T!Rows'
    BY <1>7, <1>10, <1>12 DEF Attached
  <1>. HIDE DEF found, Now
  <1>15. \A d \in Datasets, i \in T!Ids : <<d, i>> \in Datasets \X T!Ids /\ <<d, i>>[1] = d /\ <<d, i>>[2] = i
    OBVIOUS
  <1>16. \A d \in Datasets \ {tagJob[w].ds} : T!Tagged(link', d) = T!Tagged(link, d)
    BY <1>12, <1>15 DEF T!Tagged
  <1>17. T!Tagged(link', tagJob[w].ds) = found
    BY <1>2, <1>10, <1>12, <1>15 DEF T!Tagged
  <1>18. {tag'[i] : i \in found} = tagJob[w].tags
    <2>1. \A i \in found : tag'[i] \in tagJob[w].tags
      BY <1>3, <1>8, <1>9 DEF found, Lacks
    <2>2. ASSUME NEW t \in tagJob[w].tags
          PROVE  \E i \in found : tag'[i] = t
      <3>1. CASE t \in Lacks(w)
        <4>1. PICK i \in ids : named[i] = t
          BY <3>1 DEF Inserts
        <4>. QED  BY <4>1, <1>9 DEF found
      <3>2. CASE t \notin Lacks(w)
        <4>1. PICK i \in tagJob[w].seen : tag[i] = t
          BY <3>2 DEF Lacks
        <4>. QED  BY <4>1, <1>3, <1>8 DEF found
      <3>. QED  BY <3>1, <3>2
    <2>. QED  BY <2>1, <2>2
  <1>. QED  BY <1>2, <1>3, <1>6, <1>7, <1>8, <1>9, <1>13, <1>14, <1>16, <1>17, <1>18 DEF found

LEMMA InsertTags ==
    ASSUME Tagging, Attached, NEW w \in Workers, tagJob[w].ds # T!None,
           NEW ids, NEW named, Inserts(w, ids, named)
    PROVE  Attached'
  <1>1. /\ tagJob[w].ds \in Datasets /\ tagJob[w].tags \subseteq T!Tag
        /\ T!Rows' = T!Rows \cup ids
        /\ \A i \in T!Rows : tag'[i] = tag[i]
        /\ \A i \in ids : tag'[i] \in Lacks(w)
        /\ \A x \in Datasets \X T!Ids : link'[x] # "none" => x[2] \in T!Rows'
        /\ \A d \in Datasets \ {tagJob[w].ds} : T!Tagged(link', d) = T!Tagged(link, d)
        /\ tag' \in [T!Ids -> T!Tag \cup {T!NoTag}]
        /\ link' \in [Datasets \X T!Ids -> {"none", "active", "deleted"}]
    BY InsertedRows
  <1>2. UNCHANGED <<label, deleted>> /\ tagJob' = [tagJob EXCEPT ![w] = T!Idle]
    BY DEF Inserts
  <1>3. tagJob' \in [Workers -> TagJobs]
    BY <1>2, TagsAre DEF Attached
  <1>4. \A v \in Workers : tagJob'[v] = tagJob[v] \/ (tagJob'[v] = T!Idle /\ T!Idle.seen = {})
    BY <1>2 DEF Attached, T!Idle
  <1>5. \A v \in Workers : \A i \in tagJob'[v].seen : i \in T!Rows' /\ tag'[i] \in tagJob'[v].tags
    BY <1>1, <1>4 DEF Attached
  <1>6. \A i \in T!Rows' : tag'[i].vocab # Free => label'[tag'[i].vocab] # T!None
    <2>1. \A t \in Lacks(w) : t.vocab # Free => label[t.vocab] # T!None
      BY <1>1, TagsAre DEF Inserts, T!Valid, Lacks
    <2>. QED  BY <1>1, <1>2, <2>1 DEF Attached
  <1>7. ASSUME NEW d \in Datasets, T!Tagged(link', d) = T!Tagged(link, d)
        PROVE  T!Indexed(tag', link', label', deleted', d) = T!Indexed(tag, link, label, deleted, d)
    <2>1. \A i \in T!Tagged(link, d) : tag'[i] = tag[i]
      BY <1>1, LinkedRows
    <2>. QED  BY <1>2, <1>7, <2>1, SameIndexed
  <1>8. \A d \in Datasets \ (IF link' # link THEN {tagJob[w].ds} ELSE {}) : T!Tagged(link', d) = T!Tagged(link, d)
    BY <1>1
  <1>9. T!IndexTagsCurrent
    BY DEF Attached
  <1>10. T!IndexTagsCurrent'
    BY <1>7, <1>8, <1>9, Reindexed DEF Inserts
  <1>. QED  BY <1>1, <1>2, <1>3, <1>5, <1>6, <1>10 DEF Attached

\* One request after another: what was not found is not there, and each of
\* it gets one row.
LEMMA InsertOnce ==
    ASSUME Tagging, Attached, FreeOnce, NEW w \in Workers, tagJob[w].ds # T!None,
           NEW ids, NEW named, Inserts(w, ids, named)
    PROVE  FreeOnce'
  <1>1. /\ T!Rows' = T!Rows \cup ids
        /\ \A i \in T!Rows : tag'[i] = tag[i]
        /\ \A i \in ids : tag'[i] = named[i] /\ tag'[i] \in Lacks(w)
    BY InsertedRows
  <1>2. tagJob' = [tagJob EXCEPT ![w] = T!Idle] /\ w = One
    BY DEF Inserts, FreeOnce, T!Idle
  <1>3. \A v \in Workers : tagJob'[v] = T!Idle
    BY <1>2 DEF Attached, FreeOnce
  <1>4. \A v \in Workers : FoundAll(v)' /\ (v # One => tagJob'[v] = T!Idle)
    BY <1>3 DEF FoundAll, T!Idle
  <1>5. \A t \in Lacks(w) : T!RowsOf(t) = {}
    BY DEF FreeOnce, FoundAll, Lacks, T!RowsOf
  <1>6. \A i, j \in ids : named[i] = named[j] => i = j
    BY NamedApart DEF Inserts
  <1>7. ASSUME NEW t \in T!Tag, t.vocab = Free, NEW i \in T!RowsOf(t)', NEW j \in T!RowsOf(t)'
        PROVE  i = j
    <2>1. i \in T!Rows \cup ids /\ j \in T!Rows \cup ids /\ tag'[i] = t /\ tag'[j] = t
      BY <1>1, <1>7 DEF T!RowsOf
    <2>2. CASE t \in Lacks(w)
      <3>1. i \notin T!Rows /\ j \notin T!Rows
        BY <1>1, <1>5, <2>1, <2>2 DEF T!RowsOf
      <3>. QED  BY <1>1, <1>6, <2>1, <3>1
    <2>3. CASE t \notin Lacks(w)
      <3>1. i \in T!RowsOf(t) /\ j \in T!RowsOf(t)
        BY <1>1, <2>1, <2>3 DEF T!RowsOf
      <3>. QED  BY <1>7, <3>1 DEF FreeOnce, Unique
    <2>. QED  BY <2>2, <2>3
  <1>. QED  BY <1>4, <1>7 DEF FreeOnce, Unique

LEMMA SaveTags ==
    ASSUME Tagging, Attached, NEW w \in Workers, T!Save(w)
    PROVE  /\ Attached' /\ (FreeOnce => FreeOnce')
           /\ link' # link \/ tag' # tag => {tag'[i] : i \in T!Tagged(link', tagJob[w].ds)} = tagJob[w].tags
           /\ \A v \in Workers \ {w} : tagJob'[v] = tagJob[v]
  <1>1. tagJob[w].ds # T!None
    BY SaveCases
  <1>2. CASE T!Fail(w)
    BY <1>2, FailTags DEF T!Fail, Attached
  <1>3. ASSUME NEW ids, NEW named, Inserts(w, ids, named)
        PROVE  /\ Attached' /\ (FreeOnce => FreeOnce')
               /\ {tag'[i] : i \in T!Tagged(link', tagJob[w].ds)} = tagJob[w].tags
               /\ \A v \in Workers \ {w} : tagJob'[v] = tagJob[v]
    <2>1. Attached'
      BY <1>1, <1>3, InsertTags
    <2>2. FreeOnce => FreeOnce'
      BY <1>1, <1>3, InsertOnce
    <2>3. {tag'[i] : i \in T!Tagged(link', tagJob[w].ds)} = tagJob[w].tags
      BY <1>1, <1>3, InsertedRows
    <2>4. \A v \in Workers \ {w} : tagJob'[v] = tagJob[v]
      BY <1>3 DEF Inserts, Attached
    <2>. QED  BY <2>1, <2>2, <2>3, <2>4
  <1>. QED  BY <1>2, <1>3, SaveCases

-----------------------------------------------------------------------------
(* Requests of sysadmins, which come when no other runs.                   *)

\* What such a request keeps, if it only takes rows away, and those with
\* their links, or adds some: the types, and that rows are linked and named.
Settled == \A w \in Workers : tagJob[w] = T!Idle

Calm ==
    /\ label' \in [Vocabularies -> Labels \cup {T!None}]
    /\ tag' \in [T!Ids -> T!Tag \cup {T!NoTag}]
    /\ link' \in [Datasets \X T!Ids -> {"none", "active", "deleted"}]
    /\ UNCHANGED tagJob
    /\ \A x \in Datasets \X T!Ids : link'[x] # "none" => x[2] \in T!Rows'
    /\ \A i \in T!Rows' : tag'[i].vocab # Free => label'[tag'[i].vocab] # T!None
    /\ T!IndexTagsCurrent'

\* No free tag is added.
NoneFree == \A t \in T!Tag : t.vocab = Free => T!RowsOf(t)' \subseteq T!RowsOf(t)

LEMMA CalmTags ==
    ASSUME Attached, Settled, Calm
    PROVE  Attached' /\ (FreeOnce /\ NoneFree => FreeOnce')
  <1>1. \A w \in Workers : tagJob'[w] = T!Idle /\ tagJob'[w].seen = {} /\ tagJob'[w].tags = {}
    <2>1. tagJob' = tagJob /\ T!Idle.seen = {} /\ T!Idle.tags = {}
      BY DEF Calm, T!Idle
    <2>. QED  BY <2>1 DEF Settled
  <1>2. tagJob' \in [Workers -> TagJobs]
    BY DEF Calm, Attached
  <1>3. Attached'
    BY <1>1, <1>2 DEF Calm, Attached
  <1>4. \A w \in Workers : FoundAll(w)'
    BY <1>1 DEF FoundAll
  <1>5. FreeOnce /\ NoneFree => \A t \in T!Tag : t.vocab = Free => Unique(t)'
    BY DEF FreeOnce, NoneFree, Unique
  <1>. QED  BY <1>1, <1>3, <1>4, <1>5 DEF FreeOnce

LEMMA DeleteTags ==
    ASSUME Tagging, Attached, NEW d \in Datasets, T!Delete(d)
    PROVE  Calm /\ NoneFree /\ Settled
  <1>1. UNCHANGED <<label, tag, link, tagJob>> /\ Settled /\ T!Reindex({d})
    BY DEF T!Delete, T!Quiet, Settled
  <1>2. T!Rows' = T!Rows /\ NoneFree
    BY <1>1 DEF T!Rows, T!RowsOf, NoneFree
  <1>3. ASSUME NEW e \in Datasets \ {d}
        PROVE  T!Indexed(tag', link', label', deleted', e) = T!Indexed(tag, link, label, deleted, e)
    <2>1. e \in deleted' <=> e \in deleted
      BY DEF T!Delete
    <2>2. T!Tagged(link', e) = T!Tagged(link, e)
      BY <1>1 DEF T!Tagged
    <2>. QED  BY <1>1, <2>1, <2>2, SameIndexed
  <1>4. T!IndexTagsCurrent
    BY DEF Attached
  <1>5. T!IndexTagsCurrent'
    BY <1>1, <1>3, <1>4, Reindexed
  <1>. QED  BY <1>1, <1>2, <1>5 DEF Attached, Calm

\* The name of a vocabulary that has no tags.
LEMMA LabelTags ==
    ASSUME Tagging, Attached, NEW v \in Vocabularies, NEW name \in Labels \cup {T!None},
           label' = [label EXCEPT ![v] = name], \A i \in T!Rows : tag[i].vocab # v,
           UNCHANGED <<tag, link, deleted, index, tagJob>>
    PROVE  Calm /\ NoneFree
  <1>1. T!Rows' = T!Rows /\ NoneFree
    BY DEF T!Rows, T!RowsOf, NoneFree
  <1>2. label' \in [Vocabularies -> Labels \cup {T!None}]
    BY DEF Attached
  <1>3. \A u \in Vocabularies \ {v} : label'[u] = label[u]
    BY DEF Attached
  <1>4. ASSUME NEW i \in T!Rows, tag[i].vocab # Free
        PROVE  label'[tag[i].vocab] = label[tag[i].vocab]
    <2>1. tag[i].vocab \in Vocabularies
      BY <1>4, TagsAre DEF T!Rows, Attached
    <2>. QED  BY <1>3, <2>1
  <1>5. ASSUME NEW d \in Datasets
        PROVE  T!Indexed(tag', link', label', deleted', d) = T!Indexed(tag, link, label, deleted, d)
    <2>1. T!Tagged(link', d) = T!Tagged(link, d)
      BY DEF T!Tagged
    <2>. QED  BY <1>4, <2>1, LinkedRows, SameIndexed
  <1>6. T!IndexTagsCurrent
    BY DEF Attached
  <1>7. T!IndexTagsCurrent'
    BY <1>5, <1>6, SameDocuments
  <1>. QED  BY <1>1, <1>2, <1>4, <1>7 DEF Attached, Calm

LEMMA VocabularyLabels ==
    ASSUME Tagging, Attached, NEW v \in Vocabularies, NEW n \in Labels,
           T!VocabularyCreate(v, n) \/ T!Rename(v, n)
    PROVE  Calm /\ NoneFree /\ Settled
  <1>1. CASE T!VocabularyCreate(v, n)
    <2>1. \A i \in T!Rows : tag[i].vocab # v
      BY <1>1 DEF T!VocabularyCreate, Attached, Tagging
    <2>. QED  BY <1>1, <2>1, LabelTags DEF T!VocabularyCreate, T!Quiet, Settled
  <1>2. CASE T!Rename(v, n)
    BY <1>2 DEF T!Rename, Tagging
  <1>. QED  BY <1>1, <1>2

\* Rows that go take their links with them, and the datasets that had them
\* are indexed again; rows that come are not linked.
Replaced(gone) ==
    /\ gone \subseteq T!Rows
    /\ tag' \in [T!Ids -> T!Tag \cup {T!NoTag}]
    /\ \A i \in T!Rows \ gone : tag'[i] = tag[i]
    /\ \A i \in T!Rows' : i \in T!Rows \ gone \/
                        (tag'[i].vocab # Free /\ label[tag'[i].vocab] # T!None)
    /\ link' = [x \in DOMAIN link |-> IF x[2] \in gone THEN "none" ELSE link[x]]
    /\ UNCHANGED <<label, deleted, tagJob>>
    /\ T!Reindex(T!Linked(gone))

LEMMA ReplacedTags ==
    ASSUME Tagging, Attached, NEW gone, Replaced(gone)
    PROVE  Calm /\ NoneFree
  <1>1. link' = [x \in Datasets \X T!Ids |-> IF x[2] \in gone THEN "none" ELSE link[x]]
    BY DEF Replaced, Attached
  <1>2. link' \in [Datasets \X T!Ids -> {"none", "active", "deleted"}]
    BY <1>1 DEF Attached
  <1>3. T!Rows \ gone \subseteq T!Rows'
    BY DEF Replaced, T!Rows
  <1>4. \A x \in Datasets \X T!Ids : link'[x] # "none" => x[2] \in T!Rows'
    BY <1>1, <1>3 DEF Attached
  <1>5. NoneFree
    BY DEF NoneFree, Replaced, T!RowsOf
  <1>6. ASSUME NEW d \in Datasets \ T!Linked(gone)
        PROVE  T!Indexed(tag', link', label', deleted', d) = T!Indexed(tag, link, label, deleted, d)
    <2>1. \A i \in T!Ids : <<d, i>> \in Datasets \X T!Ids /\ <<d, i>>[2] = i
      OBVIOUS
    <2>2. \A i \in T!Ids : i \in gone => link[<<d, i>>] = "none"
      BY DEF T!Linked
    <2>3. \A i \in T!Ids : link'[<<d, i>>] = link[<<d, i>>]
      BY <1>1, <2>1, <2>2
    <2>4. T!Tagged(link', d) = T!Tagged(link, d)
      BY <2>3 DEF T!Tagged
    <2>5. \A i \in T!Tagged(link, d) : i \in T!Rows \ gone
      BY <2>2, LinkedRows
    <2>6. \A i \in T!Tagged(link, d) : tag'[i] = tag[i]
      BY <2>5 DEF Replaced
    <2>. QED  BY <2>4, <2>6, SameIndexed DEF Replaced
  <1>7. T!IndexTagsCurrent
    BY DEF Attached
  <1>8. T!IndexTagsCurrent'
    BY <1>6, <1>7, Reindexed DEF Replaced
  <1>9. \A i \in T!Rows' : tag'[i].vocab # Free => label'[tag'[i].vocab] # T!None
    BY DEF Replaced, Attached
  <1>. QED  BY <1>2, <1>4, <1>5, <1>8, <1>9 DEF Calm, Replaced, Attached

LEMMA VocabularyTagsReplace ==
    ASSUME Tagging, Attached, NEW v \in Vocabularies, NEW names \in SUBSET TagNames,
           T!VocabularyTags(v, names)
    PROVE  Settled /\ \E gone : Replaced(gone)
  <1>. DEFINE gone == {i \in T!Rows : tag[i].vocab = v /\ tag[i].name \notin names}
              new == {n \in names : T!RowsOf([name |-> n, vocab |-> v]) = {}}
              free == T!Ids \ (T!Rows \ gone)
  <1>. DEFINE Made(n) == [name |-> n, vocab |-> v]
  <1>. DEFINE With(ids, named) == [i \in T!Ids |-> CASE i \in ids -> Made(named[i])
                                                   [] i \in gone \ ids -> T!NoTag
                                                   [] OTHER -> tag[i]]
  <1>0. PICK ids \in SUBSET free : \E named \in [ids -> new] : tag' = With(ids, named)
    BY DEF T!VocabularyTags
  <1>1. PICK named \in [ids -> new] : tag' = With(ids, named)
    BY <1>0
  <1>2. /\ label[v] # T!None
        /\ link' = [x \in DOMAIN link |-> IF x[2] \in gone THEN "none" ELSE link[x]]
        /\ UNCHANGED <<label, deleted, tagJob>>
        /\ T!Reindex(T!Linked(gone))
        /\ Settled
    BY DEF T!VocabularyTags, T!Quiet, Settled
  <1>3. gone \subseteq T!Rows /\ new \subseteq TagNames /\ T!Rows \subseteq T!Ids
    BY DEF T!Rows
  <1>4. \A n \in TagNames : Made(n) \in T!Tag /\ Made(n).vocab = v
    BY DEF T!Tag, T!Place
  <1>. HIDE DEF gone, new, Made
  <1>5. \A i \in ids : named[i] \in new
    BY <1>1
  <1>6. \A i \in T!Ids : /\ i \in ids => tag'[i] = Made(named[i])
                         /\ i \notin ids /\ i \in gone => tag'[i] = T!NoTag
                         /\ i \notin ids /\ i \notin gone => tag'[i] = tag[i]
    BY <1>1
  <1>7. \A i \in T!Ids : tag'[i] \in T!Tag \cup {T!NoTag}
    <2> SUFFICES ASSUME NEW i \in T!Ids
                 PROVE  tag'[i] \in T!Tag \cup {T!NoTag}
      OBVIOUS
    <2>1. tag[i] \in T!Tag \cup {T!NoTag}
      BY DEF Attached
    <2>2. i \in ids => tag'[i] \in T!Tag
      BY <1>3, <1>4, <1>5, <1>6
    <2>. QED  BY <1>6, <2>1, <2>2
  <1>8. tag' \in [T!Ids -> T!Tag \cup {T!NoTag}]
    BY <1>1, <1>7
  <1>9. \A i \in T!Rows \ gone : tag'[i] = tag[i]
    BY <1>1, <1>3, <1>6
  <1>10. \A i \in T!Rows' : i \in T!Rows \ gone \/ (tag'[i].vocab # Free /\ label[tag'[i].vocab] # T!None)
    <2>1. \A i \in T!Ids : i \in ids => tag'[i].vocab = v
      BY <1>3, <1>4, <1>5, <1>6
    <2>2. v # Free
      BY DEF Tagging
    <2>. QED  BY <1>2, <1>6, <2>1, <2>2 DEF T!Rows
  <1>. QED  BY <1>2, <1>3, <1>8, <1>9, <1>10 DEF Replaced

LEMMA TagDeleteReplaces ==
    ASSUME Tagging, Attached, NEW t \in T!Tag, T!TagDelete(t)
    PROVE  Settled /\ \E gone : Replaced(gone)
  <1>1. PICK i \in T!RowsOf(t) : T!Without({i}) /\ T!Reindex(T!Linked({i}))
    BY DEF T!TagDelete
  <1>2. i \in T!Rows
    BY DEF T!RowsOf
  <1>3. /\ tag' = [j \in T!Ids |-> IF j \in {i} THEN T!NoTag ELSE tag[j]]
        /\ link' = [x \in DOMAIN link |-> IF x[2] \in {i} THEN "none" ELSE link[x]]
    BY <1>1 DEF T!Without
  <1>4. tag' \in [T!Ids -> T!Tag \cup {T!NoTag}]
    BY <1>3 DEF Attached
  <1>5. T!Rows' = T!Rows \ {i} /\ \A j \in T!Rows \ {i} : tag'[j] = tag[j]
    BY <1>3 DEF T!Rows
  <1>6. Replaced({i}) /\ Settled
    BY <1>1, <1>2, <1>3, <1>4, <1>5 DEF Replaced, T!TagDelete, T!Quiet, Settled
  <1>. QED  BY <1>6

LEMMA TagCreateCalm ==
    ASSUME Tagging, Attached, NEW v \in Vocabularies, NEW name \in TagNames, T!TagCreate(v, name)
    PROVE  Calm /\ NoneFree /\ Settled
  <1>. DEFINE t == [name |-> name, vocab |-> v]
  <1>1. t \in T!Tag /\ t.vocab = v /\ v # Free /\ label[v] # T!None
    BY DEF T!Tag, T!Place, Tagging, T!TagCreate
  <1>2. PICK i \in T!Ids \ T!Rows : tag' = [tag EXCEPT ![i] = t]
    BY DEF T!TagCreate
  <1>3. UNCHANGED <<label, link, deleted, index, tagJob>> /\ Settled
    BY DEF T!TagCreate, T!Quiet, Settled
  <1>. HIDE DEF t
  <1>4. tag' \in [T!Ids -> T!Tag \cup {T!NoTag}] /\ tag'[i] = t /\ \A j \in T!Ids \ {i} : tag'[j] = tag[j]
    BY <1>1, <1>2 DEF Attached
  <1>5. T!Rows' = T!Rows \cup {i}
    BY <1>1, <1>2, <1>4, TagsAre DEF T!Rows
  <1>6. \A j \in T!Rows : tag'[j] = tag[j]
    BY <1>4 DEF T!Rows
  <1>7. NoneFree
    BY <1>1, <1>4, <1>5, <1>6 DEF NoneFree, T!RowsOf
  <1>8. ASSUME NEW d \in Datasets
        PROVE  T!Indexed(tag', link', label', deleted', d) = T!Indexed(tag, link, label, deleted, d)
    <2>1. T!Tagged(link', d) = T!Tagged(link, d)
      BY <1>3 DEF T!Tagged
    <2>. QED  BY <1>3, <1>6, <2>1, LinkedRows, SameIndexed
  <1>9. T!IndexTagsCurrent
    BY DEF Attached
  <1>10. T!IndexTagsCurrent'
    BY <1>3, <1>8, <1>9, SameDocuments
  <1>11. \A j \in T!Rows' : tag'[j].vocab # Free => label'[tag'[j].vocab] # T!None
    BY <1>1, <1>3, <1>4, <1>5, <1>6 DEF Attached
  <1>12. \A x \in Datasets \X T!Ids : link'[x] # "none" => x[2] \in T!Rows'
    BY <1>3, <1>5 DEF Attached
  <1>. QED  BY <1>3, <1>4, <1>7, <1>10, <1>11, <1>12 DEF Calm, Attached

LEMMA SysadminTags ==
    ASSUME Tagging, Attached, T!Sysadmin \/ \E d \in Datasets : T!Delete(d)
    PROVE  Attached' /\ (FreeOnce => FreeOnce') /\ Settled /\ UNCHANGED tagJob
  <1>1. ASSUME Calm, NoneFree, Settled
        PROVE  Attached' /\ (FreeOnce => FreeOnce') /\ Settled /\ UNCHANGED tagJob
    BY <1>1, CalmTags DEF Calm
  <1>2. ASSUME NEW gone, Replaced(gone), Settled
        PROVE  Attached' /\ (FreeOnce => FreeOnce') /\ Settled /\ UNCHANGED tagJob
    BY <1>1, <1>2, ReplacedTags
  <1>3. ASSUME NEW d \in Datasets, T!Delete(d)
        PROVE  Attached' /\ (FreeOnce => FreeOnce') /\ Settled /\ UNCHANGED tagJob
    BY <1>1, <1>3, DeleteTags
  <1>4. ASSUME NEW v \in Vocabularies, NEW n \in Labels, T!VocabularyCreate(v, n) \/ T!Rename(v, n)
        PROVE  Attached' /\ (FreeOnce => FreeOnce') /\ Settled /\ UNCHANGED tagJob
    BY <1>1, <1>4, VocabularyLabels
  <1>5. ASSUME NEW v \in Vocabularies, NEW names \in SUBSET TagNames, T!VocabularyTags(v, names)
        PROVE  Attached' /\ (FreeOnce => FreeOnce') /\ Settled /\ UNCHANGED tagJob
    BY <1>2, <1>5, VocabularyTagsReplace
  <1>6. ASSUME NEW v \in Vocabularies, NEW n \in TagNames, T!TagCreate(v, n)
        PROVE  Attached' /\ (FreeOnce => FreeOnce') /\ Settled /\ UNCHANGED tagJob
    BY <1>1, <1>6, TagCreateCalm
  <1>7. ASSUME NEW v \in Vocabularies, T!VocabularyDelete(v)
        PROVE  Attached' /\ (FreeOnce => FreeOnce') /\ Settled /\ UNCHANGED tagJob
    <2>1. Calm /\ NoneFree /\ Settled
      BY <1>7, LabelTags DEF T!VocabularyDelete, T!Quiet, Settled
    <2>. QED  BY <1>1, <2>1
  <1>8. ASSUME NEW t \in T!Tag, T!TagDelete(t)
        PROVE  Attached' /\ (FreeOnce => FreeOnce') /\ Settled /\ UNCHANGED tagJob
    BY <1>2, <1>8, TagDeleteReplaces
  <1>. QED  BY <1>3, <1>4, <1>5, <1>6, <1>7, <1>8 DEF T!Sysadmin

LEMMA TagsStep ==
    ASSUME Tagging, Attached, T!Next
    PROVE  /\ Attached' /\ T!SavesTags
           /\ FreeOnce /\ (\A w \in Workers \ {One} : UNCHANGED tagJob[w]) => FreeOnce'
  <1>1. ASSUME NEW w \in Workers, NEW d \in Datasets, NEW want \in SUBSET T!Tag, T!Look(w, d, want)
        PROVE  /\ Attached' /\ T!SavesTags
               /\ FreeOnce /\ (\A v \in Workers \ {One} : UNCHANGED tagJob[v]) => FreeOnce'
    <2>1. T!SavesTags
      BY <1>1 DEF T!Look, T!SavesTags
    <2>. QED  BY <1>1, <2>1, LookTags
  <1>2. ASSUME NEW w \in Workers, T!Save(w)
        PROVE  Attached' /\ T!SavesTags /\ (FreeOnce => FreeOnce')
    <2>1. T!SavesTags
      BY <1>2, SaveTags DEF T!SavesTags, T!Idle
    <2>. QED  BY <1>2, <2>1, SaveTags
  <1>3. ASSUME T!Sysadmin \/ \E d \in Datasets : T!Delete(d)
        PROVE  Attached' /\ T!SavesTags /\ (FreeOnce => FreeOnce')
    <2>1. T!SavesTags
      BY <1>3, SysadminTags DEF T!SavesTags, Settled, T!Idle
    <2>. QED  BY <1>3, <2>1, SysadminTags
  <1>. QED  BY <1>1, <1>2, <1>3 DEF T!Next

LEMMA FoundByName ==
    ASSUME Tagging, Attached, FreeOnce
    PROVE  T!TagFindsAll
  <1>1. ASSUME NEW n \in TagNames
        PROVE  T!Cardinality(T!RowsOf([name |-> n, vocab |-> Free])) <= 1
    <2>. DEFINE t == [name |-> n, vocab |-> Free]
    <2>1. t \in T!Tag /\ t.vocab = Free
      BY DEF T!Tag, T!Place
    <2>2. Unique(t)
      BY <2>1 DEF FreeOnce
    <2>. HIDE DEF t
    <2>3. T!RowsOf(t) = {} \/ \E i : T!RowsOf(t) = {i}
      BY <2>2 DEF Unique
    <2>4. T!Cardinality(T!RowsOf(t)) \in {0, 1}
      BY <2>3, CountsSame, FS_EmptySet, FS_Singleton
    <2>5. T!Cardinality(T!RowsOf(t)) <= 1
      BY <2>4
    <2>. QED  BY <2>5 DEF t
  <1>. QED  BY <1>1 DEF T!TagFindsAll

\* A dataset has the tags that it is saved with, also when two requests race
\* for a tag; what the index says of tags is always current; and with one
\* request after another, looking up a free tag by its name finds all.
THEOREM TagsAlwaysKept ==
    ASSUME Tagging
    PROVE  StateSpec => TagsKept
  <1>. DEFINE TInv == Attached /\ (part = "tags" => FreeOnce)
  <1>1. StateInit => TInv
    BY InitTags DEF StateInit
  <1>2. TInv /\ [StateNext]_<<part, vars, store, forms, given, tags, patches>>
          => TInv' /\ [T!SavesTags]_<<part, tags>>
    <2> SUFFICES ASSUME TInv, [StateNext]_<<part, vars, store, forms, given, tags, patches>>
                 PROVE  TInv' /\ [T!SavesTags]_<<part, tags>>
      OBVIOUS
    <2>1. part' = part
      BY DEF StateNext
    <2>2. CASE UNCHANGED tags
      <3>1. UNCHANGED <<label, tag, link, deleted, index, tagJob>>
        BY <2>2 DEF tags
      <3>2. T!Rows' = T!Rows /\ \A t : T!RowsOf(t)' = T!RowsOf(t)
        BY <3>1 DEF T!Rows, T!RowsOf
      <3>3. T!IndexTagsCurrent <=> T!IndexTagsCurrent'
        BY <3>1 DEF T!IndexTagsCurrent
      <3>4. Attached'
        BY <3>1, <3>2, <3>3 DEF Attached
      <3>5. FreeOnce => FreeOnce'
        BY <3>1, <3>2 DEF FreeOnce, Unique, FoundAll
      <3>. QED  BY <2>1, <2>2, <3>4, <3>5
    <2>3. CASE part = "tags" /\ TagsOneByOne
      BY <2>1, <2>3, TagsStep DEF TagsOneByOne
    <2>4. CASE part = "tags race" /\ TagsRace
      BY <2>1, <2>4, TagsStep DEF TagsRace
    <2>. QED  BY <2>2, <2>3, <2>4, Zenon DEF StateNext
  <1>3. TInv => /\ part \in {"tags", "tags race"} => T!IndexTagsCurrent
                /\ part = "tags" => T!TagFindsAll
    BY FoundByName DEF Attached
  <1>. QED  BY <1>1, <1>2, <1>3, PTL DEF StateSpec, TagsKept
-----------------------------------------------------------------------------
(* Patches.  What is shown of a dataset, a group or a user can be sent     *)
(* back: every validator of the update takes what the show schema lets     *)
(* out.  That is so for rows of the types that updates write, whatever has *)
(* been patched before.                                                    *)

Words == {"true", "false", "active", "deleted", "both", "first", "none"}

\* What the theorem assumes: the values are apart.
Patching ==
    /\ ({Text, New, Org1, Org2} \cup Words) \cap {Taken, Empty, Null, Missing} = {}
    /\ Taken \notin {Empty, Null, Missing} /\ Empty \notin {Null, Missing} /\ Null # Missing

-----------------------------------------------------------------------------
LEMMA Outcomes ==
    ASSUME NEW v
    PROVE  /\ P!Keep(v).value = v /\ P!Keep(v).error = FALSE /\ P!Keep(v).stop = FALSE
           /\ P!Fail(v).value = v /\ P!Fail(v).error = TRUE /\ P!Fail(v).stop = FALSE
           /\ P!FailStop(v).value = v /\ P!FailStop(v).error = TRUE /\ P!FailStop(v).stop = TRUE
           /\ P!Drop.value = Missing /\ P!Drop.error = FALSE /\ P!Drop.stop = TRUE
  BY DEF P!Keep, P!Fail, P!FailStop, P!Drop

\* A value that a validator keeps goes to the next one.
LEMMA AfterKeeps ==
    ASSUME NEW vs, NEW i \in Nat, NEW f, NEW d, NEW v
    PROVE  /\ i > Len(vs) => P!After(P!Keep(v), vs, i, f, d) = P!Keep(v)
           /\ ~(i > Len(vs)) => P!After(P!Keep(v), vs, i, f, d) = P!Apply(vs[i], f, v, d)
  <1>1. P!Keep(v).value = v /\ ~P!Keep(v).error /\ ~P!Keep(v).stop
    BY DEF P!Keep
  <1>2. i > Len(vs) => P!After(P!Keep(v), vs, i, f, d) = P!Keep(v)
    BY Zenon DEF P!After
  <1>3. ~(i > Len(vs)) => P!After(P!Keep(v), vs, i, f, d) = P!Apply(vs[i], f, v, d)
    BY <1>1, Zenon DEF P!After
  <1>. QED  BY <1>2, <1>3

LEMMA AfterDrop == ASSUME NEW vs, NEW i \in Nat, NEW f, NEW d PROVE P!After(P!Drop, vs, i, f, d) = P!Drop
  <1>1. P!Drop.stop
    BY DEF P!Drop
  <1>. QED  BY <1>1, Zenon DEF P!After

LEMMA AfterFailStop ==
    ASSUME NEW v, NEW vs, NEW i \in Nat, NEW f, NEW d
    PROVE  P!After(P!FailStop(v), vs, i, f, d) = P!FailStop(v)
  <1>1. P!FailStop(v).stop
    BY DEF P!FailStop
  <1>. QED  BY <1>1, Zenon DEF P!After

\* An error stays while the validators keep the value.
LEMMA AfterFail ==
    ASSUME NEW v, NEW vs, NEW i \in Nat, NEW f, NEW d,
           ~(i > Len(vs)) => P!Apply(vs[i], f, v, d) \in {P!Keep(v), P!Fail(v)}
    PROVE  P!After(P!Fail(v), vs, i, f, d) = P!Fail(v)
  <1>1. P!Fail(v).value = v /\ P!Fail(v).error /\ ~P!Fail(v).stop
    BY DEF P!Fail
  <1>2. CASE i > Len(vs)
    BY <1>2, Zenon DEF P!After
  <1>3. CASE ~(i > Len(vs))
    <2>1. PICK a : a = P!Apply(vs[i], f, v, d)
      OBVIOUS
    <2>2. P!After(P!Fail(v), vs, i, f, d) = [value |-> a.value, error |-> TRUE, stop |-> a.stop]
      BY <1>1, <1>3, <2>1, Zenon DEF P!After
    <2>3. a \in {P!Keep(v), P!Fail(v)}
      BY <1>3, <2>1
    <2>4. a.value = v /\ a.stop = FALSE
      <3>1. CASE a = P!Keep(v)
        BY <3>1, Outcomes, Zenon
      <3>2. CASE a = P!Fail(v)
        BY <3>2, Outcomes, Zenon
      <3>. QED  BY <2>3, <3>1, <3>2
    <2>5. [value |-> a.value, error |-> TRUE, stop |-> a.stop] = P!Fail(v)
      BY <2>4, Zenon DEF P!Fail
    <2>. QED  BY <2>2, <2>5
  <1>. QED  BY <1>2, <1>3

LEMMA RunSteps ==
    ASSUME NEW vs, NEW f, NEW v, NEW d
    PROVE  P!Run(vs, f, v, d) =
             P!After(P!After(P!After(P!After(P!Keep(v), vs, 1, f, d), vs, 2, f, d), vs, 3, f, d), vs, 4, f, d)
  BY DEF P!Run

\* Validators that hand a value on to each other.
LEMMA RunChain ==
    ASSUME NEW vs, Len(vs) \in 0..4, NEW f, NEW d, NEW x,
           \A i \in 1..Len(vs) : P!Apply(vs[i], f, x[i - 1], d) = P!Keep(x[i])
    PROVE  P!Run(vs, f, x[0], d) = P!Keep(x[Len(vs)])
  <1>. DEFINE l == Len(vs)
              y(i) == x[IF i <= l THEN i ELSE l]
  <1>1. l \in Nat
    OBVIOUS
  <1>2. ASSUME NEW i \in 1..4 PROVE P!After(P!Keep(y(i - 1)), vs, i, f, d) = P!Keep(y(i))
    <2>1. CASE i <= l
      <3>1. i \in 1..l /\ i - 1 <= l /\ ~(i > l)
        BY <1>1, <2>1
      <3>2. P!Apply(vs[i], f, x[i - 1], d) = P!Keep(x[i])
        BY <3>1
      <3>3. y(i) = x[i] /\ y(i - 1) = x[i - 1]
        BY <3>1, <2>1
      <3>. QED  BY <3>1, <3>2, <3>3, AfterKeeps
    <2>2. CASE ~(i <= l)
      <3>1. i > l /\ (i - 1 <= l => i - 1 = l)
        BY <1>1, <2>2
      <3>2. y(i) = x[l] /\ y(i - 1) = x[l]
        BY <2>2, <3>1
      <3>. QED  BY <3>1, <3>2, AfterKeeps
    <2>. QED  BY <2>1, <2>2
  <1>3. y(0) = x[0] /\ y(4) = x[l]
    <2>1. 0 <= l /\ (4 <= l => 4 = l)
      BY <1>1
    <2>. QED  BY <2>1
  <1>. HIDE DEF y
  <1>4. /\ P!After(P!Keep(y(0)), vs, 1, f, d) = P!Keep(y(1)) /\ P!After(P!Keep(y(1)), vs, 2, f, d) = P!Keep(y(2))
        /\ P!After(P!Keep(y(2)), vs, 3, f, d) = P!Keep(y(3)) /\ P!After(P!Keep(y(3)), vs, 4, f, d) = P!Keep(y(4))
    <2>1. 1 - 1 = 0 /\ 2 - 1 = 1 /\ 3 - 1 = 2 /\ 4 - 1 = 3 /\ 1 \in 1..4 /\ 2 \in 1..4 /\ 3 \in 1..4 /\ 4 \in 1..4
      OBVIOUS
    <2>. QED  BY <1>2, <2>1
  <1>. QED  BY <1>3, <1>4, RunSteps

LEMMA RunKeeps ==
    ASSUME NEW vs, Len(vs) \in 0..4, NEW f, NEW v, NEW d,
           \A i \in 1..Len(vs) : P!Apply(vs[i], f, v, d) = P!Keep(v)
    PROVE  P!Run(vs, f, v, d) = P!Keep(v)
  <1>. DEFINE x == [i \in 0..4 |-> v]
  <1>1. \A i \in 0..4 : x[i] = v
    OBVIOUS
  <1>2. \A i \in 1..Len(vs) : i \in 0..4 /\ i - 1 \in 0..4
    OBVIOUS
  <1>. HIDE DEF x
  <1>3. \A i \in 1..Len(vs) : P!Apply(vs[i], f, x[i - 1], d) = P!Keep(x[i])
    BY <1>1, <1>2
  <1>4. P!Run(vs, f, x[0], d) = P!Keep(x[Len(vs)])
    BY <1>3, RunChain
  <1>. QED  BY <1>1, <1>4

\* What stops, after validators that keep the value, is the result.
LEMMA RunStops ==
    ASSUME NEW vs, Len(vs) \in 1..4, NEW k \in 1..Len(vs), NEW f, NEW v, NEW d,
           \A i \in 1..(k - 1) : P!Apply(vs[i], f, v, d) = P!Keep(v),
           P!Apply(vs[k], f, v, d) \in {P!Drop, P!FailStop(v)}
    PROVE  P!Run(vs, f, v, d) = P!Apply(vs[k], f, v, d)
  <1>. DEFINE a == P!Apply(vs[k], f, v, d)
              y(i) == IF i < k THEN P!Keep(v) ELSE a
  <1>1. ASSUME NEW i \in 1..4 PROVE P!After(y(i - 1), vs, i, f, d) = y(i)
    <2>1. CASE i < k
      <3>1. i \in 1..(k - 1) /\ ~(i > Len(vs)) /\ i - 1 < k
        BY <2>1
      <3>. QED  BY <2>1, <3>1, AfterKeeps
    <2>2. CASE i = k
      <3>1. ~(i > Len(vs)) /\ i - 1 < k /\ ~(i < k)
        BY <2>2
      <3>. QED  BY <2>2, <3>1, AfterKeeps
    <2>3. CASE i > k
      <3>1. ~(i - 1 < k) /\ ~(i < k)
        BY <2>3
      <3>2. P!After(a, vs, i, f, d) = a
        BY AfterDrop, AfterFailStop
      <3>. QED  BY <3>1, <3>2
    <2>. QED  BY <2>1, <2>2, <2>3
  <1>2. y(0) = P!Keep(v) /\ y(4) = a
    OBVIOUS
  <1>. HIDE DEF y, a
  <1>3. /\ P!After(y(0), vs, 1, f, d) = y(1) /\ P!After(y(1), vs, 2, f, d) = y(2)
        /\ P!After(y(2), vs, 3, f, d) = y(3) /\ P!After(y(3), vs, 4, f, d) = y(4)
    <2>1. 1 - 1 = 0 /\ 2 - 1 = 1 /\ 3 - 1 = 2 /\ 4 - 1 = 3 /\ 1 \in 1..4 /\ 2 \in 1..4 /\ 3 \in 1..4 /\ 4 \in 1..4
      OBVIOUS
    <2>. QED  BY <1>1, <2>1
  <1>4. P!Run(vs, f, v, d) = a
    BY <1>2, <1>3, RunSteps
  <1>. QED  BY <1>4 DEF a

LEMMA RunDrops ==
    ASSUME NEW vs, Len(vs) \in 1..4, NEW f, NEW v, NEW d, P!Apply(vs[1], f, v, d) = P!Drop
    PROVE  P!Run(vs, f, v, d) = P!Drop
  <1>1. 1 \in 1..Len(vs) /\ \A i \in 1..(1 - 1) : P!Apply(vs[i], f, v, d) = P!Keep(v)
    OBVIOUS
  <1>. QED  BY <1>1, RunStops

LEMMA RunRefuses ==
    ASSUME NEW vs, Len(vs) \in 1..4, NEW f, NEW v, NEW d, P!Apply(vs[1], f, v, d) = P!FailStop(v)
    PROVE  P!Run(vs, f, v, d) = P!FailStop(v)
  <1>1. 1 \in 1..Len(vs) /\ \A i \in 1..(1 - 1) : P!Apply(vs[i], f, v, d) = P!Keep(v)
    OBVIOUS
  <1>. QED  BY <1>1, RunStops

\* The same if the first validator keeps the value.
LEMMA RunStopsNext ==
    ASSUME NEW vs, Len(vs) \in 2..4, NEW f, NEW v, NEW d, P!Apply(vs[1], f, v, d) = P!Keep(v),
           P!Apply(vs[2], f, v, d) \in {P!Drop, P!FailStop(v)}
    PROVE  P!Run(vs, f, v, d) = P!Apply(vs[2], f, v, d)
  <1>1. \A i \in 1..(2 - 1) : i = 1
    OBVIOUS
  <1>2. Len(vs) \in 1..4 /\ 2 \in 1..Len(vs)
    OBVIOUS
  <1>3. \A i \in 1..(2 - 1) : P!Apply(vs[i], f, v, d) = P!Keep(v)
    BY <1>1
  <1>. QED  BY <1>2, <1>3, RunStops

\* A value that is refused, and kept, makes the field refused.
LEMMA RunFails ==
    ASSUME NEW vs, Len(vs) \in 1..4, NEW f, NEW v, NEW d,
           \A i \in 1..Len(vs) : P!Apply(vs[i], f, v, d) \in {P!Keep(v), P!Fail(v)},
           \E i \in 1..Len(vs) : P!Apply(vs[i], f, v, d) = P!Fail(v)
    PROVE  P!Run(vs, f, v, d) = P!Fail(v)
  <1>1. PICK k \in 1..Len(vs) :
            /\ P!Apply(vs[k], f, v, d) = P!Fail(v)
            /\ \A i \in 1..(k - 1) : P!Apply(vs[i], f, v, d) = P!Keep(v)
    <2>. DEFINE bad(i) == i \in 1..Len(vs) /\ P!Apply(vs[i], f, v, d) = P!Fail(v)
    <2>1. \E k \in 1..4 : bad(k) /\ \A i \in 1..4 : i < k => ~bad(i)
      <3>1. bad(1) \/ bad(2) \/ bad(3) \/ bad(4)
        OBVIOUS
      <3>. HIDE DEF bad
      <3>. QED  BY <3>1
    <2>. QED  BY <2>1
  <1>. DEFINE y(i) == IF i < k THEN P!Keep(v) ELSE P!Fail(v)
  <1>2. ASSUME NEW i \in 1..4 PROVE P!After(y(i - 1), vs, i, f, d) = y(i)
    <2>1. CASE i < k
      <3>1. i \in 1..(k - 1) /\ ~(i > Len(vs)) /\ i - 1 < k
        BY <2>1
      <3>. QED  BY <1>1, <2>1, <3>1, AfterKeeps
    <2>2. CASE i = k
      <3>1. ~(i > Len(vs)) /\ i - 1 < k /\ ~(i < k)
        BY <2>2
      <3>. QED  BY <1>1, <2>2, <3>1, AfterKeeps
    <2>3. CASE i > k
      <3>1. ~(i - 1 < k) /\ ~(i < k)
        BY <2>3
      <3>2. P!After(P!Fail(v), vs, i, f, d) = P!Fail(v)
        <4>1. i \in Nat /\ (~(i > Len(vs)) => i \in 1..Len(vs))
          OBVIOUS
        <4>2. ~(i > Len(vs)) => P!Apply(vs[i], f, v, d) \in {P!Keep(v), P!Fail(v)}
          BY <4>1
        <4>. QED  BY <4>1, <4>2, AfterFail
      <3>. QED  BY <3>1, <3>2
    <2>. QED  BY <2>1, <2>2, <2>3
  <1>3. y(0) = P!Keep(v) /\ y(4) = P!Fail(v)
    OBVIOUS
  <1>. HIDE DEF y
  <1>4. /\ P!After(y(0), vs, 1, f, d) = y(1) /\ P!After(y(1), vs, 2, f, d) = y(2)
        /\ P!After(y(2), vs, 3, f, d) = y(3) /\ P!After(y(3), vs, 4, f, d) = y(4)
    <2>1. 1 - 1 = 0 /\ 2 - 1 = 1 /\ 3 - 1 = 2 /\ 4 - 1 = 3 /\ 1 \in 1..4 /\ 2 \in 1..4 /\ 3 \in 1..4 /\ 4 \in 1..4
      OBVIOUS
    <2>. QED  BY <1>2, <2>1
  <1>. QED  BY <1>3, <1>4, RunSteps

-----------------------------------------------------------------------------
(* The table of the validators. *)
LEMMA Validators ==
    ASSUME NEW f, NEW v, NEW d
    PROVE  /\ P!Apply("ignore_missing", f, v, d) = IF v \in {Missing, Null} THEN P!Drop ELSE P!Keep(v)
           /\ P!Apply("not_missing", f, v, d) = IF v = Missing THEN P!FailStop(v) ELSE P!Keep(v)
           /\ P!Apply("not_empty", f, v, d) = IF v \in {Missing, Null, Empty} THEN P!FailStop(v) ELSE P!Keep(v)
           /\ P!Apply("unicode_safe", f, v, d) = P!Keep(IF v \in {Missing, Null} THEN Empty ELSE v)
           /\ P!Apply("if_empty_same_as_name", f, v, d) =
                P!Keep(IF v \in {Missing, Null, Empty} THEN d.name ELSE v)
           /\ P!Apply("name_validator", f, v, d) = IF v = Empty THEN P!Fail(v) ELSE P!Keep(v)
           /\ P!Apply("name_unique", f, v, d) = IF v = Taken THEN P!Fail(v) ELSE P!Keep(v)
           /\ P!Apply("user_name", f, v, d) =
                IF v = Taken \/ (v # stored.name /\ ~P!Sysadmin) THEN P!Fail(v) ELSE P!Keep(v)
           /\ P!Apply("id_not_changed", f, v, d) = IF v # stored.id THEN P!Fail(v) ELSE P!Keep(v)
           /\ P!Apply("ignore_not_admin", f, v, d) = P!Keep(v)
           /\ P!Apply("ignore_not_sysadmin", f, v, d) = P!Keep(IF P!Sysadmin THEN v ELSE Missing)
           /\ P!Apply("limit_sysadmin_update", f, v, d) = P!Keep(v)
           /\ P!Apply("boolean_validator", f, v, d) = P!Keep(IF v = Missing THEN "false" ELSE v)
           /\ P!Apply("json_object", f, v, d) = P!Keep(IF v = Empty THEN Null ELSE v)
           /\ P!Apply("owner_org_validator", f, v, d) =
                IF P!OwnerRefused(v) THEN P!Fail(v) ELSE IF v \in {Null, Missing} THEN P!Drop ELSE P!Keep(v)
           /\ P!Apply("no_organization_not_private", f, v, d) =
                IF v = "true" /\ P!Ownerless(d) THEN P!Fail(v) ELSE P!Keep(v)
  BY DEF P!Apply

\* Columns of a dataset.
LEMMA DatasetName ==
    ASSUME Patching, NEW v, NEW d
    PROVE  LET r == P!Run(P!default_update_package_schema.name, "name", v, d)
           IN  /\ v \in {Text, New} => r = P!Keep(v)
               /\ v = Missing => r = P!Drop
               /\ v \in {Taken, Empty} => r = P!Fail(v)
  <1>. DEFINE vs == <<"ignore_missing", "name_validator", "name_unique", "unicode_safe">>
  <1>1. P!default_update_package_schema.name = vs
    BY DEF P!default_update_package_schema
  <1>2. /\ Len(vs) = 4
        /\ vs[1] = "ignore_missing" /\ vs[2] = "name_validator"
        /\ vs[3] = "name_unique" /\ vs[4] = "unicode_safe"
    OBVIOUS
  <1>. HIDE DEF vs
  <1>3. ASSUME v \in {Text, New} PROVE P!Run(vs, "name", v, d) = P!Keep(v)
    <2>1. v \notin {Missing, Null, Empty, Taken}
      BY <1>3 DEF Patching
    <2>2. \A i \in 1..4 : P!Apply(vs[i], "name", v, d) = P!Keep(v)
      BY <1>2, <2>1, Validators
    <2>. QED  BY <1>2, <2>2, RunKeeps
  <1>4. ASSUME v = Missing PROVE P!Run(vs, "name", v, d) = P!Drop
    <2>1. P!Apply(vs[1], "name", v, d) = P!Drop
      BY <1>2, <1>4, Validators
    <2>. QED  BY <1>2, <2>1, RunDrops
  <1>5. ASSUME v \in {Taken, Empty} PROVE P!Run(vs, "name", v, d) = P!Fail(v)
    <2>1. v \notin {Missing, Null} /\ (v = Empty <=> v # Taken)
      BY <1>5 DEF Patching
    <2>2. P!Apply(vs[1], "name", v, d) = P!Keep(v) /\ P!Apply(vs[4], "name", v, d) = P!Keep(v)
      BY <1>2, <2>1, Validators
    <2>3. /\ P!Apply(vs[2], "name", v, d) = IF v = Empty THEN P!Fail(v) ELSE P!Keep(v)
          /\ P!Apply(vs[3], "name", v, d) = IF v = Taken THEN P!Fail(v) ELSE P!Keep(v)
      BY <1>2, <2>1, Validators
    <2>. QED  BY <1>2, <2>1, <2>2, <2>3, RunFails
  <1>. QED  BY <1>1, <1>3, <1>4, <1>5


LEMMA TextField ==
    ASSUME Patching, NEW f, NEW v, NEW d
    PROVE  LET r == P!Run(<<"ignore_missing", "unicode_safe">>, f, v, d)
           IN  IF v \in {Missing, Null} THEN r = P!Drop ELSE r = P!Keep(v)
  <1>. DEFINE vs == <<"ignore_missing", "unicode_safe">>
  <1>1. Len(vs) = 2 /\ vs[1] = "ignore_missing" /\ vs[2] = "unicode_safe"
    OBVIOUS
  <1>. HIDE DEF vs
  <1>2. CASE v \in {Missing, Null}
    <2>1. P!Apply(vs[1], f, v, d) = P!Drop
      BY <1>1, <1>2, Validators
    <2>2. P!Run(vs, f, v, d) = P!Drop
      BY <1>1, <2>1, RunDrops
    <2>. QED  BY <1>2, <2>2 DEF vs
  <1>3. CASE v \notin {Missing, Null}
    <2>1. \A i \in 1..2 : P!Apply(vs[i], f, v, d) = P!Keep(v)
      BY <1>1, <1>3, Validators
    <2>2. P!Run(vs, f, v, d) = P!Keep(v)
      BY <1>1, <2>1, RunKeeps
    <2>. QED  BY <1>3, <2>2 DEF vs
  <1>. QED  BY <1>2, <1>3

LEMMA IdField ==
    ASSUME Patching, NEW f, NEW v, NEW d, v = stored.id, v \notin {Missing, Null, Empty}
    PROVE  /\ P!Run(<<"ignore_missing", "id_not_changed">>, f, v, d) = P!Keep(v)
           /\ P!Run(<<"not_empty", "id_not_changed", "unicode_safe">>, f, v, d) = P!Keep(v)
  <1>. DEFINE vs == <<"ignore_missing", "id_not_changed">>
              ws == <<"not_empty", "id_not_changed", "unicode_safe">>
  <1>1. /\ Len(vs) = 2 /\ vs[1] = "ignore_missing" /\ vs[2] = "id_not_changed"
        /\ Len(ws) = 3 /\ ws[1] = "not_empty" /\ ws[2] = "id_not_changed" /\ ws[3] = "unicode_safe"
    OBVIOUS
  <1>. HIDE DEF vs, ws
  <1>2. \A i \in 1..2 : P!Apply(vs[i], f, v, d) = P!Keep(v)
    BY <1>1, Validators
  <1>3. \A i \in 1..3 : P!Apply(ws[i], f, v, d) = P!Keep(v)
    BY <1>1, Validators
  <1>4. P!Run(vs, f, v, d) = P!Keep(v) /\ P!Run(ws, f, v, d) = P!Keep(v)
    BY <1>1, <1>2, <1>3, RunKeeps
  <1>. QED  BY <1>4 DEF vs, ws

LEMMA StateField ==
    ASSUME Patching, NEW f, NEW v, NEW d
    PROVE  LET r == P!Run(<<"ignore_not_admin", "ignore_missing">>, f, v, d)
           IN  /\ v \in {"active", "deleted"} => r = P!Keep(v)
               /\ v = Missing => r = P!Drop
  <1>. DEFINE vs == <<"ignore_not_admin", "ignore_missing">>
  <1>1. Len(vs) = 2 /\ vs[1] = "ignore_not_admin" /\ vs[2] = "ignore_missing"
    OBVIOUS
  <1>. HIDE DEF vs
  <1>2. ASSUME v = Missing PROVE P!Run(vs, f, v, d) = P!Drop
    <2>1. P!Apply(vs[1], f, v, d) = P!Keep(v) /\ P!Apply(vs[2], f, v, d) = P!Drop
      BY <1>1, <1>2, Validators
    <2>2. Len(vs) \in 2..4
      BY <1>1
    <2>. QED  BY <2>1, <2>2, RunStopsNext
  <1>3. ASSUME v \in {"active", "deleted"} PROVE P!Run(vs, f, v, d) = P!Keep(v)
    <2>1. v \notin {Missing, Null}
      BY <1>3 DEF Patching, Words
    <2>2. \A i \in 1..2 : P!Apply(vs[i], f, v, d) = P!Keep(v)
      BY <1>1, <2>1, Validators
    <2>. QED  BY <1>1, <2>2, RunKeeps
  <1>4. /\ v \in {"active", "deleted"} => P!Run(vs, f, v, d) = P!Keep(v)
        /\ v = Missing => P!Run(vs, f, v, d) = P!Drop
    BY <1>2, <1>3
  <1>. QED  BY <1>4 DEF vs

\* An organization that was given away stays refused when it is validated again.
LEMMA DatasetOwner ==
    ASSUME Patching, NEW v, NEW d
    PROVE  LET r == P!Run(P!default_update_package_schema.owner_org, "owner_org", v, d)
           IN  /\ v \in {Org1, Org2} => IF P!OwnerRefused(v) THEN r = P!Fail(v) ELSE r = P!Keep(v)
               /\ v \in {Missing, Null} => r = P!Drop
               /\ v = Empty => r = P!Fail(v)
  <1>. DEFINE vs == <<"ignore_missing", "owner_org_validator", "unicode_safe">>
  <1>1. P!default_update_package_schema.owner_org = vs
    BY DEF P!default_update_package_schema
  <1>2. /\ Len(vs) = 3
        /\ vs[1] = "ignore_missing" /\ vs[2] = "owner_org_validator" /\ vs[3] = "unicode_safe"
    OBVIOUS
  <1>. HIDE DEF vs
  <1>3. ASSUME v \in {Missing, Null} PROVE P!Run(vs, "owner_org", v, d) = P!Drop
    <2>1. P!Apply(vs[1], "owner_org", v, d) = P!Drop
      BY <1>2, <1>3, Validators
    <2>. QED  BY <1>2, <2>1, RunDrops
  <1>4. ASSUME v \notin {Missing, Null}, P!OwnerRefused(v)
        PROVE  P!Run(vs, "owner_org", v, d) = P!Fail(v)
    <2>1. /\ P!Apply(vs[1], "owner_org", v, d) = P!Keep(v)
          /\ P!Apply(vs[2], "owner_org", v, d) = P!Fail(v)
          /\ P!Apply(vs[3], "owner_org", v, d) = P!Keep(v)
      BY <1>2, <1>4, Validators
    <2>. QED  BY <1>2, <2>1, RunFails
  <1>5. ASSUME v \notin {Missing, Null}, ~P!OwnerRefused(v)
        PROVE  P!Run(vs, "owner_org", v, d) = P!Keep(v)
    <2>1. \A i \in 1..3 : P!Apply(vs[i], "owner_org", v, d) = P!Keep(v)
      BY <1>2, <1>5, Validators
    <2>. QED  BY <1>2, <2>1, RunKeeps
  <1>6. v = Empty => P!OwnerRefused(v) /\ v \notin {Missing, Null}
    BY DEF P!OwnerRefused, Patching
  <1>7. v \in {Org1, Org2} => v \notin {Missing, Null}
    BY DEF Patching
  <1>. QED  BY <1>1, <1>3, <1>4, <1>5, <1>6, <1>7

LEMMA DatasetPrivate ==
    ASSUME Patching, NEW v, NEW d, stored.owner_org \in {Org1, Org2}
    PROVE  LET r == P!Run(P!default_update_package_schema.private, "private", v, d)
           IN  /\ v \in {"true", "false"} => r = P!Keep(v)
               /\ v = Missing => r = P!Drop
  <1>. DEFINE vs == <<"ignore_missing", "boolean_validator", "no_organization_not_private">>
  <1>1. P!default_update_package_schema.private = vs
    BY DEF P!default_update_package_schema
  <1>2. /\ Len(vs) = 3
        /\ vs[1] = "ignore_missing" /\ vs[2] = "boolean_validator"
        /\ vs[3] = "no_organization_not_private"
    OBVIOUS
  <1>3. ~P!Ownerless(d)
    BY DEF P!Ownerless, Patching
  <1>. HIDE DEF vs
  <1>4. ASSUME v = Missing PROVE P!Run(vs, "private", v, d) = P!Drop
    <2>1. P!Apply(vs[1], "private", v, d) = P!Drop
      BY <1>2, <1>4, Validators
    <2>. QED  BY <1>2, <2>1, RunDrops
  <1>5. ASSUME v \in {"true", "false"} PROVE P!Run(vs, "private", v, d) = P!Keep(v)
    <2>1. v \notin {Missing, Null}
      BY <1>5 DEF Patching, Words
    <2>2. \A i \in 1..3 : P!Apply(vs[i], "private", v, d) = P!Keep(v)
      BY <1>2, <1>3, <2>1, Validators
    <2>. QED  BY <1>2, <2>2, RunKeeps
  <1>. QED  BY <1>1, <1>4, <1>5

LEMMA DatasetExtra ==
    ASSUME Patching, NEW v, NEW d, v # Missing
    PROVE  P!Run(P!default_update_package_schema.extra, "extra", v, d)
              = P!Keep(IF v = Null THEN Empty ELSE v)
  <1>. DEFINE vs == <<"not_missing", "unicode_safe">>
              x == [i \in 0..2 |-> IF i = 2 /\ v = Null THEN Empty ELSE v]
  <1>1. P!default_update_package_schema.extra = vs
    BY DEF P!default_update_package_schema
  <1>2. Len(vs) = 2 /\ vs[1] = "not_missing" /\ vs[2] = "unicode_safe"
    OBVIOUS
  <1>3. x[0] = v /\ x[1] = v /\ x[2] = IF v = Null THEN Empty ELSE v
    OBVIOUS
  <1>. HIDE DEF vs, x
  <1>4. P!Apply(vs[1], "extra", x[0], d) = P!Keep(x[1]) /\ P!Apply(vs[2], "extra", x[1], d) = P!Keep(x[2])
    BY <1>2, <1>3, Validators
  <1>5. \A i \in 1..2 : P!Apply(vs[i], "extra", x[i - 1], d) = P!Keep(x[i])
    <2>1. \A i \in 1..2 : (i = 1 /\ i - 1 = 0) \/ (i = 2 /\ i - 1 = 1)
      OBVIOUS
    <2>. QED  BY <1>4, <2>1
  <1>6. P!Run(vs, "extra", x[0], d) = P!Keep(x[Len(vs)])
    <2>1. Len(vs) \in 0..4 /\ \A i \in 1..Len(vs) : P!Apply(vs[i], "extra", x[i - 1], d) = P!Keep(x[i])
      BY <1>2, <1>5
    <2>. QED  BY <2>1, RunChain
  <1>. QED  BY <1>1, <1>2, <1>3, <1>6


\* Columns of a group and of a user.
LEMMA GroupName ==
    ASSUME Patching, NEW v, NEW d
    PROVE  LET r == P!Run(P!default_update_group_schema.name, "name", v, d)
           IN  /\ v \in {Text, New} => r = P!Keep(v)
               /\ v = Missing => r = P!Drop
               /\ v = Taken => r = P!Fail(v)
               /\ v = Empty => r = P!FailStop(v)
  <1>. DEFINE vs == <<"ignore_missing", "not_empty", "name_unique", "unicode_safe">>
  <1>1. P!default_update_group_schema.name = vs
    BY DEF P!default_update_group_schema
  <1>2. /\ Len(vs) = 4
        /\ vs[1] = "ignore_missing" /\ vs[2] = "not_empty"
        /\ vs[3] = "name_unique" /\ vs[4] = "unicode_safe"
    OBVIOUS
  <1>. HIDE DEF vs
  <1>3. ASSUME v \in {Text, New} PROVE P!Run(vs, "name", v, d) = P!Keep(v)
    <2>1. v \notin {Missing, Null, Empty, Taken}
      BY <1>3 DEF Patching
    <2>2. \A i \in 1..4 : P!Apply(vs[i], "name", v, d) = P!Keep(v)
      BY <1>2, <2>1, Validators
    <2>. QED  BY <1>2, <2>2, RunKeeps
  <1>4. ASSUME v = Missing PROVE P!Run(vs, "name", v, d) = P!Drop
    <2>1. P!Apply(vs[1], "name", v, d) = P!Drop
      BY <1>2, <1>4, Validators
    <2>. QED  BY <1>2, <2>1, RunDrops
  <1>5. ASSUME v = Taken PROVE P!Run(vs, "name", v, d) = P!Fail(v)
    <2>1. v \notin {Missing, Null, Empty}
      BY <1>5 DEF Patching
    <2>2. /\ P!Apply(vs[1], "name", v, d) = P!Keep(v) /\ P!Apply(vs[2], "name", v, d) = P!Keep(v)
          /\ P!Apply(vs[3], "name", v, d) = P!Fail(v) /\ P!Apply(vs[4], "name", v, d) = P!Keep(v)
      BY <1>2, <1>5, <2>1, Validators
    <2>. QED  BY <1>2, <2>2, RunFails
  <1>6. ASSUME v = Empty PROVE P!Run(vs, "name", v, d) = P!FailStop(v)
    <2>1. v \notin {Missing, Null}
      BY <1>6 DEF Patching
    <2>2. P!Apply(vs[1], "name", v, d) = P!Keep(v) /\ P!Apply(vs[2], "name", v, d) = P!FailStop(v)
      BY <1>2, <1>6, <2>1, Validators
    <2>3. Len(vs) \in 2..4
      BY <1>2
    <2>. QED  BY <2>2, <2>3, RunStopsNext
  <1>. QED  BY <1>1, <1>3, <1>4, <1>5, <1>6

\* A name that is not the user's own is refused, unless a sysadmin gives it.
LEMMA UserName ==
    ASSUME Patching, NEW v, NEW d
    PROVE  LET r == P!Run(P!default_update_user_schema.name, "name", v, d)
           IN  /\ v \in {Text, New} =>
                    IF v = stored.name \/ P!Sysadmin THEN r = P!Keep(v) ELSE r = P!Fail(v)
               /\ v = Missing => r = P!Drop
               /\ v \in {Taken, Empty} => r = P!Fail(v)
  <1>. DEFINE vs == <<"ignore_missing", "name_validator", "user_name", "unicode_safe">>
  <1>1. P!default_update_user_schema.name = vs
    BY DEF P!default_update_user_schema
  <1>2. /\ Len(vs) = 4
        /\ vs[1] = "ignore_missing" /\ vs[2] = "name_validator"
        /\ vs[3] = "user_name" /\ vs[4] = "unicode_safe"
    OBVIOUS
  <1>. HIDE DEF vs
  <1>3. ASSUME v \notin {Missing, Null}
        PROVE  /\ P!Apply(vs[1], "name", v, d) = P!Keep(v)
               /\ P!Apply(vs[2], "name", v, d) = IF v = Empty THEN P!Fail(v) ELSE P!Keep(v)
               /\ P!Apply(vs[3], "name", v, d) =
                    IF v = Taken \/ (v # stored.name /\ ~P!Sysadmin) THEN P!Fail(v) ELSE P!Keep(v)
               /\ P!Apply(vs[4], "name", v, d) = P!Keep(v)
    BY <1>2, <1>3, Validators
  <1>4. ASSUME v \in {Text, New}, v = stored.name \/ P!Sysadmin
        PROVE  P!Run(vs, "name", v, d) = P!Keep(v)
    <2>1. v \notin {Missing, Null, Empty, Taken}
      BY <1>4 DEF Patching
    <2>2. \A i \in 1..4 : P!Apply(vs[i], "name", v, d) = P!Keep(v)
      BY <1>3, <1>4, <2>1
    <2>. QED  BY <1>2, <2>2, RunKeeps
  <1>5. ASSUME v = Missing PROVE P!Run(vs, "name", v, d) = P!Drop
    <2>1. P!Apply(vs[1], "name", v, d) = P!Drop
      BY <1>2, <1>5, Validators
    <2>. QED  BY <1>2, <2>1, RunDrops
  <1>6. ASSUME v \in {Text, New, Taken, Empty},
               v \in {Taken, Empty} \/ (v # stored.name /\ ~P!Sysadmin)
        PROVE  P!Run(vs, "name", v, d) = P!Fail(v)
    <2>1. v \notin {Missing, Null}
      BY <1>6 DEF Patching
    <2>2. P!Apply(vs[2], "name", v, d) = P!Fail(v) \/ P!Apply(vs[3], "name", v, d) = P!Fail(v)
      BY <1>3, <1>6, <2>1
    <2>3. \A i \in 1..4 : P!Apply(vs[i], "name", v, d) \in {P!Keep(v), P!Fail(v)}
      BY <1>3, <2>1
    <2>. QED  BY <1>2, <2>2, <2>3, RunFails
  <1>. QED  BY <1>1, <1>4, <1>5, <1>6

LEMMA UserEmail ==
    ASSUME Patching, NEW v, NEW d
    PROVE  LET r == P!Run(P!default_update_user_schema.email, "email", v, d)
           IN  /\ v \in {Text, New} => r = P!Keep(v)
               /\ v = Taken => r = P!Fail(v)
               /\ v \in {Missing, Empty} => r = P!FailStop(v)
  <1>. DEFINE vs == <<"not_empty", "name_unique", "unicode_safe">>
  <1>1. P!default_update_user_schema.email = vs
    BY DEF P!default_update_user_schema
  <1>2. Len(vs) = 3 /\ vs[1] = "not_empty" /\ vs[2] = "name_unique" /\ vs[3] = "unicode_safe"
    OBVIOUS
  <1>. HIDE DEF vs
  <1>3. ASSUME v \in {Text, New} PROVE P!Run(vs, "email", v, d) = P!Keep(v)
    <2>1. v \notin {Missing, Null, Empty, Taken}
      BY <1>3 DEF Patching
    <2>2. \A i \in 1..3 : P!Apply(vs[i], "email", v, d) = P!Keep(v)
      BY <1>2, <2>1, Validators
    <2>. QED  BY <1>2, <2>2, RunKeeps
  <1>4. ASSUME v = Taken PROVE P!Run(vs, "email", v, d) = P!Fail(v)
    <2>1. v \notin {Missing, Null, Empty}
      BY <1>4 DEF Patching
    <2>2. /\ P!Apply(vs[1], "email", v, d) = P!Keep(v) /\ P!Apply(vs[2], "email", v, d) = P!Fail(v)
          /\ P!Apply(vs[3], "email", v, d) = P!Keep(v)
      BY <1>2, <1>4, <2>1, Validators
    <2>. QED  BY <1>2, <2>2, RunFails
  <1>5. ASSUME v \in {Missing, Empty} PROVE P!Run(vs, "email", v, d) = P!FailStop(v)
    <2>1. P!Apply(vs[1], "email", v, d) = P!FailStop(v)
      BY <1>2, <1>5, Validators
    <2>. QED  BY <1>2, <2>1, RunRefuses
  <1>. QED  BY <1>1, <1>3, <1>4, <1>5

\* Who is no sysadmin makes nobody one.
LEMMA UserSysadmin ==
    ASSUME Patching, NEW v, NEW d
    PROVE  LET r == P!Run(P!default_update_user_schema.sysadmin, "sysadmin", v, d)
           IN  /\ v \in {"true", "false"} => r = P!Keep(IF P!Sysadmin THEN v ELSE "false")
               /\ v = Missing => r = P!Drop
  <1>. DEFINE vs == <<"ignore_missing", "ignore_not_sysadmin", "limit_sysadmin_update",
                      "boolean_validator">>
              x == [i \in 0..4 |-> IF i < 2 \/ P!Sysadmin THEN v
                                   ELSE IF i < 4 THEN Missing ELSE "false"]
  <1>1. P!default_update_user_schema.sysadmin = vs
    BY DEF P!default_update_user_schema
  <1>2. /\ Len(vs) = 4
        /\ vs[1] = "ignore_missing" /\ vs[2] = "ignore_not_sysadmin"
        /\ vs[3] = "limit_sysadmin_update" /\ vs[4] = "boolean_validator"
    OBVIOUS
  <1>3. /\ x[0] = v /\ x[1] = v
        /\ x[2] = (IF P!Sysadmin THEN v ELSE Missing) /\ x[3] = (IF P!Sysadmin THEN v ELSE Missing)
        /\ x[4] = (IF P!Sysadmin THEN v ELSE "false")
    OBVIOUS
  <1>. HIDE DEF vs, x
  <1>4. ASSUME v = Missing PROVE P!Run(vs, "sysadmin", v, d) = P!Drop
    <2>1. P!Apply(vs[1], "sysadmin", v, d) = P!Drop
      BY <1>2, <1>4, Validators
    <2>. QED  BY <1>2, <2>1, RunDrops
  <1>5. ASSUME v \in {"true", "false"}
        PROVE  P!Run(vs, "sysadmin", v, d) = P!Keep(IF P!Sysadmin THEN v ELSE "false")
    <2>1. v \notin {Missing, Null}
      BY <1>5 DEF Patching, Words
    <2>2. /\ P!Apply(vs[1], "sysadmin", x[0], d) = P!Keep(x[1])
          /\ P!Apply(vs[2], "sysadmin", x[1], d) = P!Keep(x[2])
          /\ P!Apply(vs[3], "sysadmin", x[2], d) = P!Keep(x[3])
          /\ P!Apply(vs[4], "sysadmin", x[3], d) = P!Keep(x[4])
      BY <1>2, <1>3, <2>1, Validators
    <2>3. Len(vs) \in 0..4 /\ \A i \in 1..Len(vs) : P!Apply(vs[i], "sysadmin", x[i - 1], d) = P!Keep(x[i])
      <3>1. \A i \in 1..4 : (i = 1 /\ i - 1 = 0) \/ (i = 2 /\ i - 1 = 1)
                            \/ (i = 3 /\ i - 1 = 2) \/ (i = 4 /\ i - 1 = 3)
        OBVIOUS
      <3>. QED  BY <1>2, <2>2, <3>1
    <2>4. P!Run(vs, "sysadmin", x[0], d) = P!Keep(x[Len(vs)])
      BY <2>3, RunChain
    <2>. QED  BY <1>2, <1>3, <2>4
  <1>. QED  BY <1>1, <1>4, <1>5

LEMMA UserState ==
    ASSUME Patching, NEW v, NEW d
    PROVE  LET r == P!Run(P!default_update_user_schema.state, "state", v, d)
           IN  /\ v \in {"active", "deleted"} => r = P!Keep(IF P!Sysadmin THEN v ELSE Missing)
               /\ v = Missing => r = P!Drop
  <1>. DEFINE vs == <<"ignore_missing", "ignore_not_sysadmin">>
              x == [i \in 0..2 |-> IF i < 2 \/ P!Sysadmin THEN v ELSE Missing]
  <1>1. P!default_update_user_schema.state = vs
    BY DEF P!default_update_user_schema
  <1>2. Len(vs) = 2 /\ vs[1] = "ignore_missing" /\ vs[2] = "ignore_not_sysadmin"
    OBVIOUS
  <1>3. x[0] = v /\ x[1] = v /\ x[2] = IF P!Sysadmin THEN v ELSE Missing
    OBVIOUS
  <1>. HIDE DEF vs, x
  <1>4. ASSUME v = Missing PROVE P!Run(vs, "state", v, d) = P!Drop
    <2>1. P!Apply(vs[1], "state", v, d) = P!Drop
      BY <1>2, <1>4, Validators
    <2>. QED  BY <1>2, <2>1, RunDrops
  <1>5. ASSUME v \in {"active", "deleted"}
        PROVE  P!Run(vs, "state", v, d) = P!Keep(IF P!Sysadmin THEN v ELSE Missing)
    <2>1. v \notin {Missing, Null}
      BY <1>5 DEF Patching, Words
    <2>2. /\ P!Apply(vs[1], "state", x[0], d) = P!Keep(x[1])
          /\ P!Apply(vs[2], "state", x[1], d) = P!Keep(x[2])
      BY <1>2, <1>3, <2>1, Validators
    <2>3. Len(vs) \in 0..4 /\ \A i \in 1..Len(vs) : P!Apply(vs[i], "state", x[i - 1], d) = P!Keep(x[i])
      <3>1. \A i \in 1..2 : (i = 1 /\ i - 1 = 0) \/ (i = 2 /\ i - 1 = 1)
        OBVIOUS
      <3>. QED  BY <1>2, <2>2, <3>1
    <2>4. P!Run(vs, "state", x[0], d) = P!Keep(x[Len(vs)])
      BY <2>3, RunChain
    <2>. QED  BY <1>2, <1>3, <2>4
  <1>. QED  BY <1>1, <1>4, <1>5

LEMMA UserPlugins ==
    ASSUME Patching, NEW v, NEW d
    PROVE  LET r == P!Run(P!default_update_user_schema.plugin_extras, "plugin_extras", v, d)
               sent == IF v = Empty THEN Null ELSE v
           IN  IF v \in {Missing, Null} THEN r = P!Drop
               ELSE r = P!Keep(IF P!Sysadmin THEN sent ELSE Missing)
  <1>. DEFINE vs == <<"ignore_missing", "json_object", "ignore_not_sysadmin">>
              sent == IF v = Empty THEN Null ELSE v
              x == [i \in 0..3 |-> IF i < 2 THEN v ELSE IF i = 2 \/ P!Sysadmin THEN sent ELSE Missing]
  <1>1. P!default_update_user_schema.plugin_extras = vs
    BY DEF P!default_update_user_schema
  <1>2. /\ Len(vs) = 3
        /\ vs[1] = "ignore_missing" /\ vs[2] = "json_object" /\ vs[3] = "ignore_not_sysadmin"
    OBVIOUS
  <1>3. x[0] = v /\ x[1] = v /\ x[2] = sent /\ x[3] = IF P!Sysadmin THEN sent ELSE Missing
    OBVIOUS
  <1>. HIDE DEF vs, x
  <1>4. ASSUME v \in {Missing, Null} PROVE P!Run(vs, "plugin_extras", v, d) = P!Drop
    <2>1. P!Apply(vs[1], "plugin_extras", v, d) = P!Drop
      BY <1>2, <1>4, Validators
    <2>. QED  BY <1>2, <2>1, RunDrops
  <1>5. ASSUME v \notin {Missing, Null}
        PROVE  P!Run(vs, "plugin_extras", v, d) = P!Keep(IF P!Sysadmin THEN sent ELSE Missing)
    <2>2. /\ P!Apply(vs[1], "plugin_extras", x[0], d) = P!Keep(x[1])
          /\ P!Apply(vs[2], "plugin_extras", x[1], d) = P!Keep(x[2])
          /\ P!Apply(vs[3], "plugin_extras", x[2], d) = P!Keep(x[3])
      BY <1>2, <1>3, <1>5, Validators
    <2>3. Len(vs) \in 0..4
          /\ \A i \in 1..Len(vs) : P!Apply(vs[i], "plugin_extras", x[i - 1], d) = P!Keep(x[i])
      <3>1. \A i \in 1..3 : (i = 1 /\ i - 1 = 0) \/ (i = 2 /\ i - 1 = 1) \/ (i = 3 /\ i - 1 = 2)
        OBVIOUS
      <3>. QED  BY <1>2, <2>2, <3>1
    <2>4. P!Run(vs, "plugin_extras", x[0], d) = P!Keep(x[Len(vs)])
      BY <2>3, RunChain
    <2>. QED  BY <1>2, <1>3, <2>4
  <1>. QED  BY <1>1, <1>4, <1>5

\* What an update with the data d makes of it: the organization, the data
\* that is validated, what comes of each field, what is refused and the row.
OwnerOf(d) == P!Run(P!UpdateSchema[kind].owner_org, "owner_org", d.owner_org, d).value
DataOf(d) == IF kind = "dataset" THEN [d EXCEPT !.owner_org = OwnerOf(d)] ELSE d
Checked(d) == P!Validate(P!UpdateSchema[kind], DataOf(d))
BadOf(d) ==
    {c \in P!Columns[kind] : Checked(d)[c].error}
        \ {c \in P!Columns[kind] \cap {"extra"} : d[c] = Missing}
RowOf(d) ==
    P!Saved([c \in P!Columns[kind] |->
                IF c = "extra" /\ d[c] = Missing THEN Missing ELSE Checked(d)[c].value])

LEMMA Updates ==
    ASSUME NEW d, P!Update(d)
    PROVE  /\ refused' = BadOf(d)
           /\ stored' = IF BadOf(d) = {} THEN RowOf(d) ELSE stored
           /\ shown' = IF BadOf(d) = {} THEN P!Show(RowOf(d)) ELSE shown
           /\ UNCHANGED <<kind, who>>
  BY Zenon DEF P!Update, BadOf, RowOf, Checked, DataOf, OwnerOf

\* What a row keeps in a column that is not sent.
Unsent(c) == IF c \in P!Cleared[kind] THEN P!Blank(c) ELSE stored[c]

LEMMA Results ==
    ASSUME Patching, NEW d, NEW c \in P!Columns[kind], NEW w
    PROVE  /\ Checked(d)[c] = P!Keep(w) /\ w # Missing /\ (c = "owner_org" => w # Empty)
                /\ (c = "extra" => d[c] # Missing)
              => c \notin BadOf(d) /\ RowOf(d)[c] = w
           /\ Checked(d)[c] \in {P!Drop, P!Keep(Missing)}
              => c \notin BadOf(d) /\ RowOf(d)[c] = Unsent(c)
           /\ Checked(d)[c] \in {P!Fail(w), P!FailStop(w)} /\ (c = "extra" => d[c] # Missing)
              => c \in BadOf(d)
           /\ c = "extra" /\ d[c] = Missing => c \notin BadOf(d) /\ RowOf(d)[c] = Unsent(c)
  <1>. DEFINE saved == [b \in P!Columns[kind] |->
                            IF b = "extra" /\ d[b] = Missing THEN Missing ELSE Checked(d)[b].value]
  <1>1. RowOf(d)[c] = IF saved[c] # Missing
                      THEN IF c = "owner_org" /\ saved[c] = Empty THEN Null ELSE saved[c]
                      ELSE Unsent(c)
    BY DEF RowOf, P!Saved, Unsent
  <1>2. saved[c] = IF c = "extra" /\ d[c] = Missing THEN Missing ELSE Checked(d)[c].value
    OBVIOUS
  <1>. HIDE DEF saved
  <1>3. ASSUME Checked(d)[c] = P!Keep(w), w # Missing, c = "owner_org" => w # Empty,
               c = "extra" => d[c] # Missing
        PROVE  c \notin BadOf(d) /\ RowOf(d)[c] = w
    <2>1. Checked(d)[c].value = w /\ ~Checked(d)[c].error
      BY <1>3, Outcomes, Zenon
    <2>2. c \notin BadOf(d)
      BY <2>1, Zenon DEF BadOf
    <2>. QED  BY <1>1, <1>2, <1>3, <2>1, <2>2
  <1>4. ASSUME Checked(d)[c] \in {P!Drop, P!Keep(Missing)}
        PROVE  c \notin BadOf(d) /\ RowOf(d)[c] = Unsent(c)
    <2>1. Checked(d)[c].value = Missing /\ ~Checked(d)[c].error
      <3>1. CASE Checked(d)[c] = P!Drop
        BY <3>1, Outcomes, Zenon
      <3>2. CASE Checked(d)[c] = P!Keep(Missing)
        BY <3>2, Outcomes, Zenon
      <3>. QED  BY <1>4, <3>1, <3>2
    <2>2. c \notin BadOf(d)
      BY <2>1, Zenon DEF BadOf
    <2>. QED  BY <1>1, <1>2, <2>1, <2>2
  <1>5. ASSUME Checked(d)[c] \in {P!Fail(w), P!FailStop(w)}, c = "extra" => d[c] # Missing
        PROVE  c \in BadOf(d)
    <2>1. Checked(d)[c].error
      <3>1. CASE Checked(d)[c] = P!Fail(w)
        BY <3>1, Outcomes, Zenon
      <3>2. CASE Checked(d)[c] = P!FailStop(w)
        BY <3>2, Outcomes, Zenon
      <3>. QED  BY <1>5, <3>1, <3>2
    <2>. QED  BY <1>5, <2>1, Zenon DEF BadOf
  <1>6. ASSUME c = "extra", d[c] = Missing
        PROVE  c \notin BadOf(d) /\ RowOf(d)[c] = Unsent(c)
    <2>1. c \notin BadOf(d)
      BY <1>6, Zenon DEF BadOf
    <2>. QED  BY <1>1, <1>2, <1>6, <2>1
  <1>. QED  BY <1>3, <1>4, <1>5, <1>6

-----------------------------------------------------------------------------
\* What a row may hold: names and addresses that are free, an organization,
\* and texts that the show schema takes as they are, but for empty titles.
RowType ==
    [dataset |-> [id |-> {Text}, name |-> {Text, New}, title |-> {Text, New, Empty, Null},
                  notes |-> {Text, Empty, Null}, state |-> {"active", "deleted"},
                  private |-> {"true", "false"}, owner_org |-> {Org1, Org2},
                  extra |-> {Text, Empty, Missing}],
     group |-> [id |-> {Text}, name |-> {Text, New}, title |-> {Text, Empty},
                state |-> {"active", "deleted"}, users |-> {"both", "first", "none"},
                packages |-> {"both", "first", "none"}],
     user |-> [id |-> {Text}, name |-> {Text, New}, email |-> {Text, New},
               password |-> {Text, New}, about |-> {Text, Empty},
               sysadmin |-> {"true", "false"}, state |-> {"active", "deleted"},
               plugin_extras |-> {Text, Null}]]

RowTyped(row) == \A c \in P!Columns[kind] : row[c] \in RowType[kind][c]

\* What is shown in column c of a row: a dataset without title has its name
\* for one.
Seen(row, c) ==
    IF c \in P!Hidden \cup P!Unasked THEN Missing
    ELSE IF kind = "dataset" /\ c = "title" /\ row[c] \in {Empty, Null} THEN row.name
    ELSE row[c]

\* The row is of its type, only a sysadmin is patched as one, and what is
\* shown is the row.
Patched ==
    /\ kind \in P!Kinds
    /\ RowTyped(stored)
    /\ kind = "user" /\ who # "sysadmin" => stored.sysadmin = "false"
    /\ shown = [c \in P!Columns[kind] |-> Seen(stored, c)]

\* The data of a request: what a patch may say, what is shown, or nothing.
Input(c) == P!ValuesOf(c) \cup RowType[kind][c] \cup IF c = "id" THEN {} ELSE {Missing}
Requested(d) ==
    /\ d \in [P!Columns[kind] -> UNION {Input(c) : c \in P!Columns[kind]}]
    /\ \A c \in P!Columns[kind] : d[c] \in Input(c)

\* Column c of the data is accepted and saved as it was shown, if it is what
\* was shown, and what is accepted is of its type.
Agrees(d, c) ==
    /\ d[c] = Seen(stored, c) =>
          /\ c \notin BadOf(d)
          /\ RowOf(d)[c] = IF c \in P!Hidden \cup P!Unasked THEN stored[c] ELSE Seen(stored, c)
    /\ c \notin BadOf(d) => RowOf(d)[c] \in RowType[kind][c]

LEMMA ShowsDataset ==
    ASSUME Patching, kind = "dataset", NEW row, RowTyped(row), NEW c \in P!Columns[kind]
    PROVE  P!Show(row)[c] = Seen(row, c)
  <1>. DEFINE s == P!default_show_package_schema
              r(b) == P!Run(s[b], b, row[b], row)
  <1>1. P!Columns["dataset"] = {"id", "name", "title", "notes", "state", "private", "owner_org", "extra"}
    BY DEF P!Columns
  <1>2. P!Hidden = {} /\ P!Unasked = {}
    BY DEF P!Hidden, P!Unasked
  <1>3. P!Show(row)[c] = r(c).value
    BY <1>1, <1>2 DEF P!Show, P!Validate, P!ShowSchema, P!default_show_package_schema
  <1>4. /\ row.name \in {Text, New} /\ row.title \in {Text, New, Empty, Null}
        /\ row.state \in {"active", "deleted"} /\ row.extra \in {Text, Empty, Missing}
    BY <1>1 DEF RowTyped, RowType
  <1>5. CASE c \in {"id", "notes", "private", "owner_org"}
    <2>1. s[c] = << >>
      BY <1>5 DEF P!default_show_package_schema
    <2>2. r(c) = P!Keep(row[c])
      BY <2>1, RunKeeps
    <2>. QED  BY <1>2, <1>3, <1>5, <2>2, Outcomes DEF Seen
  <1>6. CASE c = "name"
    <2>. DEFINE vs == <<"not_empty", "unicode_safe", "name_validator", "name_unique">>
    <2>1. s[c] = vs
      BY <1>6 DEF P!default_show_package_schema
    <2>2. Len(vs) = 4 /\ vs[1] = "not_empty" /\ vs[2] = "unicode_safe"
          /\ vs[3] = "name_validator" /\ vs[4] = "name_unique"
      OBVIOUS
    <2>. HIDE DEF vs
    <2>3. row.name \notin {Missing, Null, Empty, Taken}
      BY <1>4 DEF Patching
    <2>4. \A i \in 1..4 : P!Apply(vs[i], c, row.name, row) = P!Keep(row.name)
      BY <2>2, <2>3, Validators
    <2>5. r(c) = P!Keep(row[c])
      BY <1>6, <2>1, <2>2, <2>4, RunKeeps
    <2>. QED  BY <1>2, <1>3, <1>6, <2>5, Outcomes DEF Seen
  <1>7. CASE c = "title"
    <2>. DEFINE vs == <<"if_empty_same_as_name", "unicode_safe">>
                v == IF row.title \in {Missing, Null, Empty} THEN row.name ELSE row.title
                x == [i \in 0..2 |-> IF i = 0 THEN row.title ELSE v]
    <2>1. s[c] = vs
      BY <1>7 DEF P!default_show_package_schema
    <2>2. Len(vs) = 2 /\ vs[1] = "if_empty_same_as_name" /\ vs[2] = "unicode_safe"
      OBVIOUS
    <2>3. x[0] = row.title /\ x[1] = v /\ x[2] = v
      OBVIOUS
    <2>4. v \notin {Missing, Null} /\ v = Seen(row, c)
      BY <1>2, <1>4, <1>7 DEF Patching, Seen
    <2>. HIDE DEF vs, v, x
    <2>5. /\ P!Apply(vs[1], c, x[0], row) = P!Keep(x[1])
          /\ P!Apply(vs[2], c, x[1], row) = P!Keep(x[2])
      <3>1. P!Apply(vs[1], c, x[0], row) = P!Keep(x[1])
        BY <2>2, <2>3, Validators DEF v
      <3>2. P!Apply(vs[2], c, x[1], row) = P!Keep(x[2])
        BY <2>2, <2>3, <2>4, Validators
      <3>. QED  BY <3>1, <3>2
    <2>6. Len(vs) \in 0..4 /\ \A i \in 1..Len(vs) : P!Apply(vs[i], c, x[i - 1], row) = P!Keep(x[i])
      <3>1. \A i \in 1..2 : (i = 1 /\ i - 1 = 0) \/ (i = 2 /\ i - 1 = 1)
        OBVIOUS
      <3>. QED  BY <2>2, <2>5, <3>1
    <2>7. P!Run(vs, c, x[0], row) = P!Keep(x[Len(vs)])
      BY <2>6, RunChain
    <2>8. r(c) = P!Keep(v)
      BY <1>7, <2>1, <2>2, <2>3, <2>7
    <2>. QED  BY <1>3, <2>4, <2>8, Outcomes
  <1>8. CASE c = "state"
    <2>. DEFINE vs == <<"ignore_missing">>
    <2>1. s[c] = vs
      BY <1>8 DEF P!default_show_package_schema
    <2>2. Len(vs) = 1 /\ vs[1] = "ignore_missing"
      OBVIOUS
    <2>. HIDE DEF vs
    <2>3. row.state \notin {Missing, Null}
      BY <1>4 DEF Patching, Words
    <2>4. \A i \in 1..1 : P!Apply(vs[i], c, row.state, row) = P!Keep(row.state)
      BY <2>2, <2>3, Validators
    <2>5. r(c) = P!Keep(row[c])
      BY <1>8, <2>1, <2>2, <2>4, RunKeeps
    <2>. QED  BY <1>2, <1>3, <1>8, <2>5, Outcomes DEF Seen
  <1>9. CASE c = "extra"
    <2>. DEFINE vs == <<"not_empty">>
    <2>1. s[c] = vs
      BY <1>9 DEF P!default_show_package_schema
    <2>2. Len(vs) = 1 /\ vs[1] = "not_empty"
      OBVIOUS
    <2>. HIDE DEF vs
    <2>3. r(c) \in {P!Keep(row[c]), P!FailStop(row[c])}
      <3>1. CASE row.extra \in {Missing, Null, Empty}
        <4>1. P!Apply(vs[1], c, row.extra, row) = P!FailStop(row.extra)
          BY <2>2, <3>1, Validators
        <4>2. P!Run(vs, c, row.extra, row) = P!FailStop(row.extra)
          BY <2>2, <4>1, RunRefuses
        <4>. QED  BY <1>9, <2>1, <4>2
      <3>2. CASE row.extra \notin {Missing, Null, Empty}
        <4>1. \A i \in 1..1 : P!Apply(vs[i], c, row.extra, row) = P!Keep(row.extra)
          BY <2>2, <3>2, Validators
        <4>2. P!Run(vs, c, row.extra, row) = P!Keep(row.extra)
          BY <2>2, <4>1, RunKeeps
        <4>. QED  BY <1>9, <2>1, <4>2
      <3>. QED  BY <3>1, <3>2
    <2>. QED  BY <1>2, <1>3, <1>9, <2>3, Outcomes DEF Seen
  <1>. QED  BY <1>1, <1>5, <1>6, <1>7, <1>8, <1>9

LEMMA ShowsGroup ==
    ASSUME Patching, kind = "group", NEW row, RowTyped(row), NEW c \in P!Columns[kind]
    PROVE  P!Show(row)[c] = Seen(row, c)
  <1>. DEFINE s == P!default_show_group_schema
              r(b) == P!Run(s[b], b, row[b], row)
  <1>1. P!Columns["group"] = {"id", "name", "title", "state", "users", "packages"}
    BY DEF P!Columns
  <1>2. P!Hidden = {} /\ P!Unasked = {"packages"}
    BY DEF P!Hidden, P!Unasked
  <1>3. c # "packages" => P!Show(row)[c] = r(c).value
    BY <1>1, <1>2 DEF P!Show, P!Validate, P!ShowSchema, P!default_show_group_schema
  <1>4. row.name \in {Text, New} /\ row.title \in {Text, Empty}
    BY <1>1 DEF RowTyped, RowType
  <1>5. CASE c \in {"id", "state", "users"}
    <2>1. s[c] = << >>
      BY <1>5 DEF P!default_show_group_schema
    <2>2. r(c) = P!Keep(row[c])
      BY <2>1, RunKeeps
    <2>. QED  BY <1>2, <1>3, <1>5, <2>2, Outcomes DEF Seen
  <1>6. CASE c = "packages"
    BY <1>1, <1>2, <1>6 DEF Seen, P!Show
  <1>7. CASE c = "name"
    <2>. DEFINE vs == <<"not_empty", "unicode_safe", "name_validator", "name_unique">>
    <2>1. s[c] = vs
      BY <1>7 DEF P!default_show_group_schema
    <2>2. Len(vs) = 4 /\ vs[1] = "not_empty" /\ vs[2] = "unicode_safe"
          /\ vs[3] = "name_validator" /\ vs[4] = "name_unique"
      OBVIOUS
    <2>. HIDE DEF vs
    <2>3. row.name \notin {Missing, Null, Empty, Taken}
      BY <1>4 DEF Patching
    <2>4. \A i \in 1..4 : P!Apply(vs[i], c, row.name, row) = P!Keep(row.name)
      BY <2>2, <2>3, Validators
    <2>5. r(c) = P!Keep(row[c])
      BY <1>7, <2>1, <2>2, <2>4, RunKeeps
    <2>. QED  BY <1>2, <1>3, <1>7, <2>5, Outcomes DEF Seen
  <1>8. CASE c = "title"
    <2>1. s[c] = <<"ignore_missing", "unicode_safe">>
      BY <1>8 DEF P!default_show_group_schema
    <2>2. row.title \notin {Missing, Null}
      BY <1>4 DEF Patching
    <2>3. r(c) = P!Keep(row[c])
      BY <1>8, <2>1, <2>2, TextField
    <2>. QED  BY <1>2, <1>3, <1>8, <2>3, Outcomes DEF Seen
  <1>. QED  BY <1>1, <1>5, <1>6, <1>7, <1>8

LEMMA ShowsUser ==
    ASSUME kind = "user", NEW row, NEW c \in P!Columns[kind]
    PROVE  P!Show(row)[c] = Seen(row, c)
  <1>1. P!Columns["user"] = {"id", "name", "email", "password", "about", "sysadmin", "state", "plugin_extras"}
    BY DEF P!Columns
  <1>2. P!Unasked = {}
    BY DEF P!Unasked
  <1>3. P!Show(row)[c] = IF c \in P!Hidden THEN Missing ELSE P!Run(<< >>, c, row[c], row).value
    BY <1>1, <1>2 DEF P!Show, P!Validate, P!ShowSchema, P!Shown_user
  <1>4. P!Run(<< >>, c, row[c], row) = P!Keep(row[c])
    BY RunKeeps
  <1>. QED  BY <1>2, <1>3, <1>4, Outcomes DEF Seen

LEMMA Shows ==
    ASSUME Patching, kind \in P!Kinds, NEW row, RowTyped(row), NEW c \in P!Columns[kind]
    PROVE  P!Show(row)[c] = Seen(row, c)
  <1>1. kind \in {"dataset", "group", "user"}
    BY DEF P!Kinds
  <1>2. CASE kind = "dataset"
    BY <1>2, ShowsDataset
  <1>3. CASE kind = "group"
    BY <1>3, ShowsGroup
  <1>4. CASE kind = "user"
    BY <1>4, ShowsUser
  <1>. QED  BY <1>1, <1>2, <1>3, <1>4

-----------------------------------------------------------------------------
LEMMA DatasetFits ==
    ASSUME Patching, Patched, kind = "dataset", NEW d, Requested(d), NEW c \in P!Columns[kind]
    PROVE  Agrees(d, c)
  <1>. DEFINE s == P!default_update_package_schema
              w == DataOf(d)
  <1>1. P!Columns["dataset"] = {"id", "name", "title", "notes", "state", "private", "owner_org", "extra"}
    BY DEF P!Columns
  <1>2. P!Hidden = {} /\ P!Unasked = {} /\ P!Cleared[kind] = {"title", "notes", "extra"}
    BY DEF P!Hidden, P!Unasked, P!Cleared
  <1>3. \A b \in P!Columns[kind] : stored[b] \in RowType[kind][b] /\ d[b] \in Input(b)
    BY DEF Patched, RowTyped, Requested
  <1>4. /\ \A b \in P!Columns[kind] \ {"owner_org"} : w[b] = d[b]
        /\ w.owner_org = OwnerOf(d)
    BY <1>1 DEF DataOf, Requested
  <1>5. Checked(d)[c] = P!Run(s[c], c, w[c], w)
    BY <1>1 DEF Checked, P!Validate, P!UpdateSchema, P!default_update_package_schema
  <1>. HIDE DEF w
  <1>6. \A b \in P!Columns[kind] : Unsent(b) = IF b = "extra" THEN Missing
                                             ELSE IF b \in {"title", "notes"} THEN Null ELSE stored[b]
    BY <1>2 DEF Unsent, P!Blank
  <1>7. CASE c = "id"
    <2>1. d.id = Text /\ stored.id = Text /\ Text \notin {Missing, Null, Empty}
      BY <1>1, <1>3 DEF Input, RowType, P!ValuesOf, Patching
    <2>2. s[c] = <<"ignore_missing", "id_not_changed">>
      BY <1>7 DEF P!default_update_package_schema
    <2>3. Checked(d)[c] = P!Keep(Text)
      BY <1>1, <1>4, <1>5, <1>7, <2>1, <2>2, IdField
    <2>4. c \notin BadOf(d) /\ RowOf(d)[c] = Text
      BY <1>7, <2>1, <2>3, Results
    <2>. QED  BY <1>2, <1>7, <2>1, <2>4 DEF Agrees, Seen, RowType
  <1>8. CASE c = "name"
    <2>1. d.name \in {Text, New, Taken, Empty, Missing} /\ stored.name \in {Text, New}
      BY <1>1, <1>3 DEF Input, RowType, P!ValuesOf
    <2>2. Checked(d)[c] = P!Run(s.name, "name", d.name, w)
      BY <1>1, <1>4, <1>5, <1>8
    <2>3. CASE d.name \in {Text, New}
      <3>1. d.name # Missing /\ Checked(d)[c] = P!Keep(d.name)
        BY <2>2, <2>3, DatasetName DEF Patching
      <3>2. c \notin BadOf(d) /\ RowOf(d)[c] = d.name
        BY <1>8, <3>1, Results
      <3>. QED  BY <1>2, <1>8, <2>3, <3>2 DEF Agrees, Seen, RowType
    <2>4. CASE d.name = Missing
      <3>1. Checked(d)[c] = P!Drop
        BY <2>2, <2>4, DatasetName
      <3>2. c \notin BadOf(d) /\ RowOf(d)[c] = stored.name
        BY <1>1, <1>6, <1>8, <3>1, Results
      <3>3. d.name # stored.name
        BY <2>1, <2>4 DEF Patching
      <3>. QED  BY <1>2, <1>8, <2>1, <3>2, <3>3 DEF Agrees, Seen, RowType
    <2>5. CASE d.name \in {Taken, Empty}
      <3>1. d.name # stored.name /\ Checked(d)[c] = P!Fail(d.name)
        BY <2>1, <2>2, <2>5, DatasetName DEF Patching
      <3>2. c \in BadOf(d)
        BY <1>8, <3>1, Results
      <3>. QED  BY <1>2, <1>8, <3>1, <3>2 DEF Agrees, Seen
    <2>. QED  BY <2>1, <2>3, <2>4, <2>5
  <1>9. CASE c \in {"title", "notes"}
    <2>1. /\ d[c] \in RowType[kind][c] \cup {Missing}
          /\ stored[c] \in RowType[kind][c] /\ Null \in RowType[kind][c]
          /\ RowType[kind][c] \subseteq {Text, New, Empty, Null}
      BY <1>1, <1>3, <1>9 DEF Input, RowType, P!ValuesOf
    <2>2. s[c] = <<"ignore_missing", "unicode_safe">>
      BY <1>9 DEF P!default_update_package_schema
    <2>3. Checked(d)[c] = P!Run(<<"ignore_missing", "unicode_safe">>, c, d[c], w)
      BY <1>1, <1>4, <1>5, <1>9, <2>2
    <2>4. c = "title" => Seen(stored, c) \in {Text, New}
      BY <1>1, <1>2, <1>3, <2>1 DEF Seen, RowType
    <2>5. c = "notes" => Seen(stored, c) = stored[c]
      BY <1>2 DEF Seen
    <2>6. CASE d[c] \in {Missing, Null}
      <3>1. Checked(d)[c] = P!Drop
        BY <2>3, <2>6, TextField
      <3>2. c \notin BadOf(d) /\ RowOf(d)[c] = Null
        BY <1>1, <1>6, <1>9, <3>1, Results
      <3>3. d[c] = Seen(stored, c) => Seen(stored, c) = Null
        <4>1. Missing \notin {Text, New, Empty, Null} /\ Null \notin {Text, New}
          BY DEF Patching
        <4>. QED  BY <1>9, <2>1, <2>4, <2>5, <2>6, <4>1
      <3>. QED  BY <1>2, <2>1, <3>2, <3>3 DEF Agrees
    <2>7. CASE d[c] \notin {Missing, Null}
      <3>1. Checked(d)[c] = P!Keep(d[c])
        BY <2>3, <2>7, TextField
      <3>2. c \notin BadOf(d) /\ RowOf(d)[c] = d[c]
        BY <1>9, <2>7, <3>1, Results
      <3>. QED  BY <1>2, <2>1, <2>7, <3>2 DEF Agrees
    <2>. QED  BY <2>6, <2>7
  <1>10. CASE c = "state"
    <2>1. /\ d.state \in {"active", "deleted", Missing} /\ stored.state \in {"active", "deleted"}
          /\ Missing \notin {"active", "deleted"}
      BY <1>1, <1>3 DEF Input, RowType, P!ValuesOf, Patching, Words
    <2>2. s[c] = <<"ignore_not_admin", "ignore_missing">>
      BY <1>10 DEF P!default_update_package_schema
    <2>3. Checked(d)[c] = P!Run(<<"ignore_not_admin", "ignore_missing">>, c, d.state, w)
      BY <1>1, <1>4, <1>5, <1>10, <2>2
    <2>4. CASE d.state = Missing
      <3>1. Checked(d)[c] = P!Drop
        BY <2>3, <2>4, StateField
      <3>2. c \notin BadOf(d) /\ RowOf(d)[c] = stored.state
        BY <1>1, <1>6, <1>10, <3>1, Results
      <3>. QED  BY <1>2, <1>10, <2>1, <2>4, <3>2 DEF Agrees, Seen, RowType
    <2>5. CASE d.state # Missing
      <3>1. Checked(d)[c] = P!Keep(d.state)
        BY <2>1, <2>3, <2>5, StateField
      <3>2. c \notin BadOf(d) /\ RowOf(d)[c] = d.state
        BY <1>10, <2>5, <3>1, Results
      <3>. QED  BY <1>2, <1>10, <2>1, <2>5, <3>2 DEF Agrees, Seen, RowType
    <2>. QED  BY <2>4, <2>5
  <1>11. stored.owner_org \in {Org1, Org2}
    BY <1>1, <1>3 DEF RowType
  <1>12. CASE c = "private"
    <2>1. /\ d.private \in {"true", "false", Missing} /\ stored.private \in {"true", "false"}
          /\ Missing \notin {"true", "false"}
      BY <1>1, <1>3 DEF Input, RowType, P!ValuesOf, Patching, Words
    <2>2. Checked(d)[c] = P!Run(s.private, "private", d.private, w)
      BY <1>1, <1>4, <1>5, <1>12
    <2>3. CASE d.private = Missing
      <3>1. Checked(d)[c] = P!Drop
        BY <1>11, <2>2, <2>3, DatasetPrivate
      <3>2. c \notin BadOf(d) /\ RowOf(d)[c] = stored.private
        BY <1>1, <1>6, <1>12, <3>1, Results
      <3>. QED  BY <1>2, <1>12, <2>1, <2>3, <3>2 DEF Agrees, Seen, RowType
    <2>4. CASE d.private # Missing
      <3>1. Checked(d)[c] = P!Keep(d.private)
        BY <1>11, <2>1, <2>2, <2>4, DatasetPrivate
      <3>2. c \notin BadOf(d) /\ RowOf(d)[c] = d.private
        BY <1>12, <2>4, <3>1, Results
      <3>. QED  BY <1>2, <1>12, <2>1, <2>4, <3>2 DEF Agrees, Seen, RowType
    <2>. QED  BY <2>3, <2>4
  <1>13. CASE c = "owner_org"
    <2>1. d.owner_org \in {Org1, Org2, Empty, Null, Missing}
      BY <1>1, <1>3 DEF Input, RowType, P!ValuesOf
    <2>2. OwnerOf(d) = P!Run(s.owner_org, "owner_org", d.owner_org, d).value
      BY DEF OwnerOf, P!UpdateSchema
    <2>3. Checked(d)[c] = P!Run(s.owner_org, "owner_org", OwnerOf(d), w)
      BY <1>4, <1>5, <1>13
    <2>4. CASE d.owner_org \in {Org1, Org2} /\ ~P!OwnerRefused(d.owner_org)
      <3>1. OwnerOf(d) = d.owner_org
        <4>1. P!Run(s.owner_org, "owner_org", d.owner_org, d) = P!Keep(d.owner_org)
          BY <2>4, DatasetOwner
        <4>. QED  BY <2>2, <4>1, Outcomes
      <3>2. Checked(d)[c] = P!Keep(d.owner_org) /\ d.owner_org \notin {Missing, Empty}
        BY <2>3, <2>4, <3>1, DatasetOwner DEF Patching
      <3>3. c \notin BadOf(d) /\ RowOf(d)[c] = d.owner_org
        BY <1>13, <3>2, Results
      <3>. QED  BY <1>2, <1>13, <2>4, <3>3 DEF Agrees, Seen, RowType
    <2>5. CASE (d.owner_org \in {Org1, Org2} /\ P!OwnerRefused(d.owner_org)) \/ d.owner_org = Empty
      <3>1. P!Run(s.owner_org, "owner_org", d.owner_org, d) = P!Fail(d.owner_org)
        BY <2>5, DatasetOwner
      <3>2. OwnerOf(d) = d.owner_org
        BY <2>2, <3>1, Outcomes
      <3>3. Checked(d)[c] = P!Fail(d.owner_org)
        BY <2>3, <2>5, <3>2, DatasetOwner
      <3>4. c \in BadOf(d)
        BY <1>13, <3>3, Results
      <3>5. d.owner_org # stored.owner_org
        BY <1>11, <2>5 DEF P!OwnerRefused, Patching
      <3>. QED  BY <1>2, <1>13, <3>4, <3>5 DEF Agrees, Seen
    <2>6. CASE d.owner_org \in {Missing, Null}
      <3>1. OwnerOf(d) = Missing
        <4>1. P!Run(s.owner_org, "owner_org", d.owner_org, d) = P!Drop
          BY <2>6, DatasetOwner
        <4>. QED  BY <2>2, <4>1, Outcomes
      <3>2. Checked(d)[c] = P!Drop
        BY <2>3, <3>1, DatasetOwner
      <3>3. c \notin BadOf(d) /\ RowOf(d)[c] = stored.owner_org
        BY <1>1, <1>6, <1>13, <3>2, Results
      <3>4. d.owner_org # stored.owner_org
        BY <1>11, <2>6 DEF Patching
      <3>. QED  BY <1>2, <1>11, <1>13, <3>3, <3>4 DEF Agrees, Seen, RowType
    <2>. QED  BY <2>1, <2>4, <2>5, <2>6
  <1>14. CASE c = "extra"
    <2>1. d.extra \in {Text, Empty, Null, Missing} /\ stored.extra \in {Text, Empty, Missing}
      BY <1>1, <1>3 DEF Input, RowType, P!ValuesOf
    <2>2. CASE d.extra = Missing
      <3>1. c \notin BadOf(d) /\ RowOf(d)[c] = Missing
        BY <1>6, <1>14, <2>2, Results
      <3>. QED  BY <1>2, <1>14, <2>2, <3>1 DEF Agrees, Seen, RowType
    <2>3. CASE d.extra # Missing
      <3>. DEFINE v == IF d.extra = Null THEN Empty ELSE d.extra
      <3>1. Checked(d)[c] = P!Keep(v)
        BY <1>1, <1>4, <1>5, <1>14, <2>3, DatasetExtra
      <3>2. v \in {Text, Empty} /\ v # Missing
        BY <2>1, <2>3 DEF Patching
      <3>3. d.extra = stored.extra => v = stored.extra
        BY <2>1 DEF Patching
      <3>. HIDE DEF v
      <3>4. c \notin BadOf(d) /\ RowOf(d)[c] = v
        BY <1>14, <2>3, <3>1, <3>2, Results
      <3>. QED  BY <1>2, <1>14, <3>2, <3>3, <3>4 DEF Agrees, Seen, RowType
    <2>. QED  BY <2>2, <2>3
  <1>. QED  BY <1>1, <1>7, <1>8, <1>9, <1>10, <1>12, <1>13, <1>14

LEMMA GroupFits ==
    ASSUME Patching, Patched, kind = "group", NEW d, Requested(d), NEW c \in P!Columns[kind]
    PROVE  Agrees(d, c)
  <1>. DEFINE s == P!default_update_group_schema
  <1>1. P!Columns["group"] = {"id", "name", "title", "state", "users", "packages"}
    BY DEF P!Columns
  <1>2. P!Hidden = {} /\ P!Unasked = {"packages"} /\ P!Cleared[kind] = {}
    BY DEF P!Hidden, P!Unasked, P!Cleared
  <1>3. \A b \in P!Columns[kind] : stored[b] \in RowType[kind][b] /\ d[b] \in Input(b)
    BY DEF Patched, RowTyped, Requested
  <1>4. Checked(d)[c] = P!Run(s[c], c, d[c], d)
    BY <1>1 DEF Checked, P!Validate, DataOf, P!UpdateSchema, P!default_update_group_schema
  <1>5. Unsent(c) = stored[c]
    BY <1>2 DEF Unsent
  <1>6. CASE c = "id"
    <2>1. d.id = Text /\ stored.id = Text /\ Text \notin {Missing, Null, Empty}
      BY <1>1, <1>3 DEF Input, RowType, P!ValuesOf, Patching
    <2>2. s[c] = <<"not_empty", "id_not_changed", "unicode_safe">>
      BY <1>6 DEF P!default_update_group_schema
    <2>3. Checked(d)[c] = P!Keep(Text)
      BY <1>4, <1>6, <2>1, <2>2, IdField
    <2>4. c \notin BadOf(d) /\ RowOf(d)[c] = Text
      BY <1>6, <2>1, <2>3, Results
    <2>. QED  BY <1>2, <1>6, <2>1, <2>4 DEF Agrees, Seen, RowType
  <1>7. CASE c = "name"
    <2>1. d.name \in {Text, New, Taken, Empty, Missing} /\ stored.name \in {Text, New}
      BY <1>1, <1>3 DEF Input, RowType, P!ValuesOf
    <2>2. Checked(d)[c] = P!Run(s.name, "name", d.name, d)
      BY <1>4, <1>7
    <2>3. CASE d.name \in {Text, New}
      <3>1. d.name # Missing /\ Checked(d)[c] = P!Keep(d.name)
        BY <2>2, <2>3, GroupName DEF Patching
      <3>2. c \notin BadOf(d) /\ RowOf(d)[c] = d.name
        BY <1>7, <3>1, Results
      <3>. QED  BY <1>2, <1>7, <2>3, <3>2 DEF Agrees, Seen, RowType
    <2>4. CASE d.name = Missing
      <3>1. Checked(d)[c] = P!Drop
        BY <2>2, <2>4, GroupName
      <3>2. c \notin BadOf(d) /\ RowOf(d)[c] = stored.name
        BY <1>5, <1>7, <3>1, Results
      <3>3. d.name # stored.name
        BY <2>1, <2>4 DEF Patching
      <3>. QED  BY <1>2, <1>7, <2>1, <3>2, <3>3 DEF Agrees, Seen, RowType
    <2>5. CASE d.name \in {Taken, Empty}
      <3>1. d.name # stored.name
        BY <2>1, <2>5 DEF Patching
      <3>2. Checked(d)[c] \in {P!Fail(d.name), P!FailStop(d.name)}
        BY <2>2, <2>5, GroupName
      <3>3. c \in BadOf(d)
        BY <1>7, <3>2, Results
      <3>. QED  BY <1>2, <1>7, <3>1, <3>3 DEF Agrees, Seen
    <2>. QED  BY <2>1, <2>3, <2>4, <2>5
  <1>8. CASE c = "title"
    <2>1. d.title \in {Text, Empty, Null, Missing} /\ stored.title \in {Text, Empty}
      BY <1>1, <1>3 DEF Input, RowType, P!ValuesOf
    <2>2. s[c] = <<"ignore_missing", "unicode_safe">>
      BY <1>8 DEF P!default_update_group_schema
    <2>3. CASE d.title \in {Missing, Null}
      <3>1. Checked(d)[c] = P!Drop
        BY <1>4, <1>8, <2>2, <2>3, TextField
      <3>2. c \notin BadOf(d) /\ RowOf(d)[c] = stored.title
        BY <1>5, <1>8, <3>1, Results
      <3>3. d.title # stored.title
        BY <2>1, <2>3 DEF Patching
      <3>. QED  BY <1>2, <1>8, <2>1, <3>2, <3>3 DEF Agrees, Seen, RowType
    <2>4. CASE d.title \notin {Missing, Null}
      <3>1. Checked(d)[c] = P!Keep(d.title)
        BY <1>4, <1>8, <2>2, <2>4, TextField
      <3>2. c \notin BadOf(d) /\ RowOf(d)[c] = d.title
        BY <1>8, <2>4, <3>1, Results
      <3>. QED  BY <1>2, <1>8, <2>1, <2>4, <3>2 DEF Agrees, Seen, RowType
    <2>. QED  BY <2>3, <2>4
  <1>9. CASE c = "state"
    <2>1. /\ d.state \in {"active", "deleted", Missing} /\ stored.state \in {"active", "deleted"}
          /\ Missing \notin {"active", "deleted"}
      BY <1>1, <1>3 DEF Input, RowType, P!ValuesOf, Patching, Words
    <2>2. s[c] = <<"ignore_not_admin", "ignore_missing">>
      BY <1>9 DEF P!default_update_group_schema
    <2>3. CASE d.state = Missing
      <3>1. Checked(d)[c] = P!Drop
        BY <1>4, <1>9, <2>2, <2>3, StateField
      <3>2. c \notin BadOf(d) /\ RowOf(d)[c] = stored.state
        BY <1>5, <1>9, <3>1, Results
      <3>. QED  BY <1>2, <1>9, <2>1, <2>3, <3>2 DEF Agrees, Seen, RowType
    <2>4. CASE d.state # Missing
      <3>1. Checked(d)[c] = P!Keep(d.state)
        BY <1>4, <1>9, <2>1, <2>2, <2>4, StateField
      <3>2. c \notin BadOf(d) /\ RowOf(d)[c] = d.state
        BY <1>9, <2>4, <3>1, Results
      <3>. QED  BY <1>2, <1>9, <2>1, <2>4, <3>2 DEF Agrees, Seen, RowType
    <2>. QED  BY <2>3, <2>4
  <1>10. CASE c \in {"users", "packages"}
    <2>1. /\ d[c] \in {"both", "first", "none", Missing} /\ stored[c] \in {"both", "first", "none"}
          /\ Missing \notin {"both", "first", "none"}
          /\ RowType[kind][c] = {"both", "first", "none"}
      <3>1. RowType[kind][c] = {"both", "first", "none"} /\ P!ValuesOf(c) = {"both", "first", "none"}
        BY <1>10 DEF RowType, P!ValuesOf
      <3>2. Missing \notin {"both", "first", "none"}
        BY DEF Patching, Words
      <3>3. stored[c] \in RowType[kind][c] /\ d[c] \in P!ValuesOf(c) \cup RowType[kind][c] \cup {Missing}
        BY <1>3, <1>10 DEF Input
      <3>. QED  BY <3>1, <3>2, <3>3
    <2>2. s[c] = << >>
      BY <1>10 DEF P!default_update_group_schema
    <2>3. Checked(d)[c] = P!Keep(d[c])
      BY <1>4, <2>2, RunKeeps
    <2>4. CASE d[c] = Missing
      <3>1. c \notin BadOf(d) /\ RowOf(d)[c] = stored[c]
        BY <1>5, <2>3, <2>4, Results
      <3>. QED  BY <1>2, <1>10, <2>1, <2>4, <3>1 DEF Agrees, Seen
    <2>5. CASE d[c] # Missing
      <3>1. c \notin BadOf(d) /\ RowOf(d)[c] = d[c]
        BY <1>10, <2>3, <2>5, Results
      <3>. QED  BY <1>2, <1>10, <2>1, <2>5, <3>1 DEF Agrees, Seen
    <2>. QED  BY <2>4, <2>5
  <1>. QED  BY <1>1, <1>6, <1>7, <1>8, <1>9, <1>10

LEMMA UserFits ==
    ASSUME Patching, Patched, kind = "user", NEW d, Requested(d), NEW c \in P!Columns[kind]
    PROVE  /\ Agrees(d, c)
           /\ c = "sysadmin" /\ ~P!Sysadmin => RowOf(d)[c] = "false"
  <1>. DEFINE s == P!default_update_user_schema
  <1>1. P!Columns["user"] = {"id", "name", "email", "password", "about", "sysadmin", "state", "plugin_extras"}
    BY DEF P!Columns
  <1>2. P!Hidden = {"password", "plugin_extras"} /\ P!Unasked = {} /\ P!Cleared[kind] = {}
    BY DEF P!Hidden, P!Unasked, P!Cleared
  <1>3. \A b \in P!Columns[kind] : stored[b] \in RowType[kind][b] /\ d[b] \in Input(b)
    BY DEF Patched, RowTyped, Requested
  <1>4. Checked(d)[c] = P!Run(s[c], c, d[c], d)
    BY <1>1 DEF Checked, P!Validate, DataOf, P!UpdateSchema, P!default_update_user_schema
  <1>5. Unsent(c) = stored[c]
    BY <1>2 DEF Unsent
  <1>6. CASE c = "id"
    <2>1. d.id = Text /\ stored.id = Text /\ Text \notin {Missing, Null, Empty}
      BY <1>1, <1>3 DEF Input, RowType, P!ValuesOf, Patching
    <2>2. s[c] = <<"not_empty", "id_not_changed", "unicode_safe">>
      BY <1>6 DEF P!default_update_user_schema
    <2>3. Checked(d)[c] = P!Keep(Text)
      BY <1>4, <1>6, <2>1, <2>2, IdField
    <2>4. c \notin BadOf(d) /\ RowOf(d)[c] = Text
      BY <1>6, <2>1, <2>3, Results
    <2>. QED  BY <1>2, <1>6, <2>1, <2>4 DEF Agrees, Seen, RowType
  <1>7. CASE c = "name"
    <2>1. d.name \in {Text, New, Taken, Empty, Missing} /\ stored.name \in {Text, New}
      BY <1>1, <1>3 DEF Input, RowType, P!ValuesOf
    <2>2. Checked(d)[c] = P!Run(s.name, "name", d.name, d)
      BY <1>4, <1>7
    <2>3. CASE d.name \in {Text, New} /\ (d.name = stored.name \/ P!Sysadmin)
      <3>1. d.name # Missing /\ Checked(d)[c] = P!Keep(d.name)
        BY <2>2, <2>3, UserName DEF Patching
      <3>2. c \notin BadOf(d) /\ RowOf(d)[c] = d.name
        BY <1>7, <3>1, Results
      <3>. QED  BY <1>2, <1>7, <2>3, <3>2 DEF Agrees, Seen, RowType
    <2>4. CASE d.name = Missing
      <3>1. Checked(d)[c] = P!Drop
        BY <2>2, <2>4, UserName
      <3>2. c \notin BadOf(d) /\ RowOf(d)[c] = stored.name
        BY <1>5, <1>7, <3>1, Results
      <3>3. d.name # stored.name
        BY <2>1, <2>4 DEF Patching
      <3>. QED  BY <1>2, <1>7, <2>1, <3>2, <3>3 DEF Agrees, Seen, RowType
    <2>5. CASE /\ d.name # Missing
               /\ d.name \in {Taken, Empty} \/ (d.name # stored.name /\ ~P!Sysadmin)
      <3>1. d.name # stored.name
        BY <2>1, <2>5 DEF Patching
      <3>2. Checked(d)[c] = P!Fail(d.name)
        BY <2>1, <2>2, <2>5, <3>1, UserName
      <3>3. c \in BadOf(d)
        BY <1>7, <3>2, Results
      <3>. QED  BY <1>2, <1>7, <3>1, <3>3 DEF Agrees, Seen
    <2>. QED  BY <2>1, <2>3, <2>4, <2>5
  <1>8. CASE c = "email"
    <2>1. d.email \in {Text, New, Taken, Empty, Missing} /\ stored.email \in {Text, New}
      BY <1>1, <1>3 DEF Input, RowType, P!ValuesOf
    <2>2. Checked(d)[c] = P!Run(s.email, "email", d.email, d)
      BY <1>4, <1>8
    <2>3. CASE d.email \in {Text, New}
      <3>1. d.email # Missing /\ Checked(d)[c] = P!Keep(d.email)
        BY <2>2, <2>3, UserEmail DEF Patching
      <3>2. c \notin BadOf(d) /\ RowOf(d)[c] = d.email
        BY <1>8, <3>1, Results
      <3>. QED  BY <1>2, <1>8, <2>3, <3>2 DEF Agrees, Seen, RowType
    <2>4. CASE d.email \in {Taken, Empty, Missing}
      <3>1. d.email # stored.email
        BY <2>1, <2>4 DEF Patching
      <3>2. Checked(d)[c] \in {P!Fail(d.email), P!FailStop(d.email)}
        BY <2>2, <2>4, UserEmail
      <3>3. c \in BadOf(d)
        BY <1>8, <3>2, Results
      <3>. QED  BY <1>2, <1>8, <3>1, <3>3 DEF Agrees, Seen
    <2>. QED  BY <2>1, <2>3, <2>4
  <1>9. CASE c \in {"password", "about"}
    <2>1. /\ d[c] \in RowType[kind][c] \cup {Null, Missing} /\ stored[c] \in RowType[kind][c]
          /\ Null \notin RowType[kind][c] /\ Missing \notin RowType[kind][c]
      BY <1>1, <1>3, <1>9 DEF Input, RowType, P!ValuesOf, Patching
    <2>2. s[c] = <<"ignore_missing", "unicode_safe">>
      BY <1>9 DEF P!default_update_user_schema
    <2>3. CASE d[c] \in {Missing, Null}
      <3>1. Checked(d)[c] = P!Drop
        BY <1>4, <2>2, <2>3, TextField
      <3>2. c \notin BadOf(d) /\ RowOf(d)[c] = stored[c]
        BY <1>5, <3>1, Results
      <3>3. d[c] # stored[c]
        BY <2>1, <2>3
      <3>. QED  BY <1>2, <1>9, <2>1, <3>2, <3>3 DEF Agrees, Seen
    <2>4. CASE d[c] \notin {Missing, Null}
      <3>1. Checked(d)[c] = P!Keep(d[c])
        BY <1>4, <2>2, <2>4, TextField
      <3>2. c \notin BadOf(d) /\ RowOf(d)[c] = d[c]
        BY <1>9, <2>4, <3>1, Results
      <3>. QED  BY <1>2, <1>9, <2>1, <2>4, <3>2 DEF Agrees, Seen
    <2>. QED  BY <1>9, <2>3, <2>4
  <1>10. CASE c = "sysadmin"
    <2>1. /\ d.sysadmin \in {"true", "false", Missing} /\ stored.sysadmin \in {"true", "false"}
          /\ Missing \notin {"true", "false"} /\ (~P!Sysadmin => stored.sysadmin = "false")
      BY <1>1, <1>3 DEF Input, RowType, P!ValuesOf, Patching, Words, Patched, P!Sysadmin
    <2>2. Checked(d)[c] = P!Run(s.sysadmin, "sysadmin", d.sysadmin, d)
      BY <1>4, <1>10
    <2>3. CASE d.sysadmin = Missing
      <3>1. Checked(d)[c] = P!Drop
        BY <2>2, <2>3, UserSysadmin
      <3>2. c \notin BadOf(d) /\ RowOf(d)[c] = stored.sysadmin
        BY <1>5, <1>10, <3>1, Results
      <3>. QED  BY <1>2, <1>10, <2>1, <2>3, <3>2 DEF Agrees, Seen, RowType
    <2>4. CASE d.sysadmin # Missing
      <3>. DEFINE v == IF P!Sysadmin THEN d.sysadmin ELSE "false"
      <3>1. Checked(d)[c] = P!Keep(v)
        BY <2>1, <2>2, <2>4, UserSysadmin
      <3>2. /\ v \in {"true", "false"} /\ v # Missing /\ (~P!Sysadmin => v = "false")
            /\ d.sysadmin = stored.sysadmin => v = stored.sysadmin
        BY <2>1, <2>4
      <3>. HIDE DEF v
      <3>3. c \notin BadOf(d) /\ RowOf(d)[c] = v
        BY <1>10, <3>1, <3>2, Results
      <3>. QED  BY <1>2, <1>10, <3>2, <3>3 DEF Agrees, Seen, RowType
    <2>. QED  BY <2>3, <2>4
  <1>11. CASE c = "state"
    <2>1. /\ d.state \in {"active", "deleted", Missing} /\ stored.state \in {"active", "deleted"}
          /\ Missing \notin {"active", "deleted"}
      BY <1>1, <1>3 DEF Input, RowType, P!ValuesOf, Patching, Words
    <2>2. Checked(d)[c] = P!Run(s.state, "state", d.state, d)
      BY <1>4, <1>11
    <2>3. CASE d.state = Missing \/ ~P!Sysadmin
      <3>1. Checked(d)[c] \in {P!Drop, P!Keep(Missing)}
        BY <2>1, <2>2, <2>3, UserState
      <3>2. c \notin BadOf(d) /\ RowOf(d)[c] = stored.state
        BY <1>5, <1>11, <3>1, Results
      <3>. QED  BY <1>2, <1>11, <2>1, <3>2 DEF Agrees, Seen, RowType
    <2>4. CASE d.state # Missing /\ P!Sysadmin
      <3>1. Checked(d)[c] = P!Keep(d.state)
        BY <2>1, <2>2, <2>4, UserState
      <3>2. c \notin BadOf(d) /\ RowOf(d)[c] = d.state
        BY <1>11, <2>4, <3>1, Results
      <3>. QED  BY <1>2, <1>11, <2>1, <2>4, <3>2 DEF Agrees, Seen, RowType
    <2>. QED  BY <2>3, <2>4
  <1>12. CASE c = "plugin_extras"
    <2>1. /\ d.plugin_extras \in {Text, Empty, Null, Missing} /\ stored.plugin_extras \in {Text, Null}
          /\ Missing \notin {Text, Empty, Null} /\ Text \notin {Empty, Null}
      BY <1>1, <1>3 DEF Input, RowType, P!ValuesOf, Patching
    <2>2. Checked(d)[c] = P!Run(s.plugin_extras, "plugin_extras", d.plugin_extras, d)
      BY <1>4, <1>12
    <2>. DEFINE v == IF d.plugin_extras = Empty THEN Null ELSE d.plugin_extras
    <2>3. CASE d.plugin_extras \in {Missing, Null} \/ ~P!Sysadmin
      <3>1. Checked(d)[c] \in {P!Drop, P!Keep(Missing)}
        BY <2>2, <2>3, UserPlugins
      <3>2. c \notin BadOf(d) /\ RowOf(d)[c] = stored.plugin_extras
        BY <1>5, <1>12, <3>1, Results
      <3>. QED  BY <1>2, <1>12, <2>1, <3>2 DEF Agrees, RowType
    <2>4. CASE d.plugin_extras \notin {Missing, Null} /\ P!Sysadmin
      <3>1. Checked(d)[c] = P!Keep(v)
        BY <2>2, <2>4, UserPlugins
      <3>2. v \in {Text, Null} /\ v # Missing
        BY <2>1, <2>4
      <3>3. c \notin BadOf(d) /\ RowOf(d)[c] = v
        BY <1>12, <3>1, <3>2, Results
      <3>. QED  BY <1>2, <1>12, <2>4, <3>2, <3>3 DEF Agrees, Seen, RowType
    <2>. QED  BY <2>3, <2>4
  <1>. QED  BY <1>1, <1>6, <1>7, <1>8, <1>9, <1>10, <1>11, <1>12

-----------------------------------------------------------------------------
LEMMA AllFit ==
    ASSUME Patching, Patched, NEW d, Requested(d), NEW c \in P!Columns[kind]
    PROVE  Agrees(d, c)
  <1>1. kind \in {"dataset", "group", "user"}
    BY DEF Patched, P!Kinds
  <1>2. CASE kind = "dataset"
    BY <1>2, DatasetFits
  <1>3. CASE kind = "group"
    BY <1>3, GroupFits
  <1>4. CASE kind = "user"
    BY <1>4, UserFits
  <1>. QED  BY <1>1, <1>2, <1>3, <1>4

LEMMA ShowsAll ==
    ASSUME Patching, kind \in P!Kinds, NEW row, RowTyped(row)
    PROVE  P!Show(row) = [c \in P!Columns[kind] |-> Seen(row, c)]
  <1>1. \A c \in P!Columns[kind] : P!Show(row)[c] = Seen(row, c)
    BY Shows
  <1>2. P!Show(row) = [c \in P!Columns[kind] |-> P!Show(row)[c]]
    BY DEF P!Show
  <1>. QED  BY <1>1, <1>2

\* An update keeps the row of its type, and shows it.
LEMMA UpdatePatched ==
    ASSUME Patching, Patched, NEW d, Requested(d), P!Update(d)
    PROVE  /\ Patched'
           /\ kind' = kind /\ refused' = BadOf(d)
           /\ BadOf(d) # {} => UNCHANGED <<stored, shown>>
           /\ BadOf(d) = {} => stored' = RowOf(d) /\ shown' = [c \in P!Columns[kind] |-> Seen(RowOf(d), c)]
  <1>1. kind' = kind /\ who' = who /\ P!Hidden' = P!Hidden /\ P!Unasked' = P!Unasked
    BY Updates DEF P!Hidden, P!Unasked
  <1>2. CASE BadOf(d) # {}
    <2>1. stored' = stored /\ shown' = shown
      BY <1>2, Updates
    <2>2. \A c : Seen(stored, c)' = Seen(stored, c)
      BY <1>1, <2>1 DEF Seen
    <2>3. Patched'
      BY <1>1, <2>1, <2>2 DEF Patched, RowTyped
    <2>. QED  BY <1>1, <1>2, <2>1, <2>3, Updates
  <1>3. CASE BadOf(d) = {}
    <2>1. RowTyped(RowOf(d))
      BY <1>3, AllFit DEF Agrees, RowTyped
    <2>2. stored' = RowOf(d) /\ shown' = [c \in P!Columns[kind] |-> Seen(RowOf(d), c)]
      BY <1>3, <2>1, Updates, ShowsAll DEF Patched
    <2>3. RowTyped(stored)'
      BY <1>1, <2>1, <2>2 DEF RowTyped
    <2>4. shown' = [c \in P!Columns[kind] |-> Seen(stored, c)]'
      BY <1>1, <2>2 DEF Seen
    <2>5. (kind = "user" /\ who # "sysadmin" => stored.sysadmin = "false")'
      <3>1. ASSUME kind = "user", who # "sysadmin" PROVE RowOf(d).sysadmin = "false"
        <4>1. "sysadmin" \in P!Columns[kind] /\ ~P!Sysadmin
          BY <3>1 DEF P!Columns, P!Sysadmin
        <4>. QED  BY <3>1, <4>1, UserFits
      <3>. QED  BY <1>1, <2>2, <3>1
    <2>6. Patched'
      BY <1>1, <2>3, <2>4, <2>5 DEF Patched
    <2>. QED  BY <1>1, <1>3, <2>2, <2>6, Updates
  <1>. QED  BY <1>2, <1>3

\* What is shown can be sent again.
LEMMA ShownSent ==
    ASSUME Patching, Patched, NEW c \in P!Columns[kind]
    PROVE  shown[c] = Seen(stored, c) /\ shown[c] \in Input(c)
  <1>1. shown[c] = Seen(stored, c) /\ stored[c] \in RowType[kind][c]
    BY DEF Patched, RowTyped
  <1>2. CASE c \in P!Hidden \cup P!Unasked
    <2>1. c # "id"
      BY <1>2 DEF P!Hidden, P!Unasked
    <2>. QED  BY <1>1, <1>2, <2>1 DEF Seen, Input
  <1>3. CASE kind = "dataset" /\ c = "title"
    <2>1. stored.name \in {Text, New} /\ RowType[kind][c] = {Text, New, Empty, Null}
      <3>1. "name" \in P!Columns[kind]
        BY <1>3 DEF P!Columns
      <3>. QED  BY <1>3, <3>1 DEF Patched, RowTyped, RowType
    <2>. QED  BY <1>1, <1>3, <2>1 DEF Seen, Input
  <1>4. CASE c \notin P!Hidden \cup P!Unasked /\ ~(kind = "dataset" /\ c = "title")
    BY <1>1, <1>4 DEF Seen, Input
  <1>. QED  BY <1>2, <1>3, <1>4

\* A patch sends what is shown, and one field of its own.
LEMMA PatchOne ==
    ASSUME Patching, Patched, NEW f \in P!Columns[kind], NEW v \in P!ValuesOf(f), P!Patch(f, v)
    PROVE  Patched' /\ P!OnlyField
  <1>. DEFINE d == [shown EXCEPT ![f] = v]
  <1>1. P!Update(d) /\ field' = f
    BY DEF P!Patch
  <1>2. /\ d \in [P!Columns[kind] -> UNION {Input(c) : c \in P!Columns[kind]}]
        /\ \A c \in P!Columns[kind] : d[c] \in Input(c)
        /\ \A c \in P!Columns[kind] \ {f} : d[c] = Seen(stored, c)
    <2>1. DOMAIN shown = P!Columns[kind]
      BY DEF Patched
    <2>2. \A c \in P!Columns[kind] : d[c] = IF c = f THEN v ELSE shown[c]
      BY <2>1
    <2>3. d = [c \in P!Columns[kind] |-> d[c]]
      BY <2>1
    <2>4. v \in Input(f)
      BY DEF Input
    <2>. HIDE DEF d
    <2>5. \A c \in P!Columns[kind] : d[c] \in Input(c)
      BY <2>2, <2>4, ShownSent
    <2>6. \A c \in P!Columns[kind] \ {f} : d[c] = Seen(stored, c)
      BY <2>2, ShownSent
    <2>. QED  BY <2>3, <2>5, <2>6
  <1>3. Requested(d)
    BY <1>2 DEF Requested
  <1>. HIDE DEF d
  <1>4. \A c \in P!Columns[kind] \ {f} :
            /\ c \notin BadOf(d)
            /\ RowOf(d)[c] = IF c \in P!Hidden \cup P!Unasked THEN stored[c] ELSE Seen(stored, c)
    BY <1>2, <1>3, AllFit DEF Agrees
  <1>5. refused' = BadOf(d) /\ BadOf(d) \subseteq {f}
    BY <1>1, <1>3, <1>4, UpdatePatched DEF BadOf
  <1>6. ASSUME BadOf(d) = {}, NEW c \in P!Columns[kind] \ {f}
        PROVE  /\ Seen(RowOf(d), c) = Seen(stored, c)
               /\ c \in P!Hidden \cup P!Unasked => RowOf(d)[c] = stored[c]
    <2>1. CASE c \in P!Hidden \cup P!Unasked
      BY <1>4, <2>1 DEF Seen
    <2>2. CASE c \notin P!Hidden \cup P!Unasked
      <3>1. RowOf(d)[c] = Seen(stored, c)
        BY <1>4, <2>2
      <3>2. kind = "dataset" /\ c = "title" => Seen(stored, c) \notin {Empty, Null}
        <4>1. kind = "dataset" => "name" \in P!Columns[kind]
          BY DEF P!Columns
        <4>2. kind = "dataset" => stored.name \notin {Empty, Null}
          BY <4>1 DEF Patched, RowTyped, RowType, Patching
        <4>. QED  BY <2>2, <4>2 DEF Seen
      <3>. QED  BY <2>2, <3>1, <3>2 DEF Seen
    <2>. QED  BY <2>1, <2>2
  <1>7. \A c \in P!Columns[kind] \ {f} :
            shown'[c] = shown[c] /\ (c \in P!Hidden \cup P!Unasked => stored'[c] = stored[c])
    <2>1. CASE BadOf(d) # {}
      BY <1>1, <1>3, <2>1, UpdatePatched
    <2>2. CASE BadOf(d) = {}
      <3>1. stored' = RowOf(d) /\ shown' = [c \in P!Columns[kind] |-> Seen(RowOf(d), c)]
        BY <1>1, <1>3, <2>2, UpdatePatched
      <3>. QED  BY <1>6, <2>2, <3>1, ShownSent
    <2>. QED  BY <2>1, <2>2
  <1>8. Patched'
    BY <1>1, <1>3, UpdatePatched
  <1>. QED  BY <1>1, <1>5, <1>7, <1>8 DEF P!OnlyField

LEMMA UpdateSome ==
    ASSUME Patching, Patched, NEW some, "id" \in some, P!UpdateWith(some)
    PROVE  Patched' /\ field' = "none"
  <1>. DEFINE d == [c \in P!Columns[kind] |-> IF c \in some THEN shown[c] ELSE Missing]
  <1>1. P!Update(d) /\ field' = "none"
    BY DEF P!UpdateWith
  <1>2. \A c \in P!Columns[kind] : d[c] \in Input(c)
    BY ShownSent DEF Input
  <1>3. Requested(d)
    BY <1>2 DEF Requested
  <1>. HIDE DEF d
  <1>. QED  BY <1>1, <1>3, UpdatePatched

LEMMA InitPatched ==
    ASSUME Patching, P!Init
    PROVE  Patched
  <1>1. kind \in {"dataset", "group", "user"} /\ stored = P!First /\ shown = P!Show(P!First)
    BY DEF P!Init, P!Kinds
  <1>2. RowTyped(P!First)
    <2>1. CASE kind = "dataset"
      BY <2>1 DEF RowTyped, RowType, P!First, P!Columns
    <2>2. CASE kind = "group"
      BY <2>2 DEF RowTyped, RowType, P!First, P!Columns
    <2>3. CASE kind = "user"
      BY <2>3 DEF RowTyped, RowType, P!First, P!Columns
    <2>. QED  BY <1>1, <2>1, <2>2, <2>3
  <1>3. kind = "user" => P!First.sysadmin = "false"
    BY DEF P!First, P!Columns
  <1>4. kind \in P!Kinds
    BY <1>1 DEF P!Kinds
  <1>. QED  BY <1>1, <1>2, <1>3, <1>4, ShowsAll DEF Patched

\* A private dataset has an organization, as every dataset has.
LEMMA PatchedOwned ==
    ASSUME Patching, Patched
    PROVE  P!PrivateOwned
  <1>1. kind = "dataset" => "owner_org" \in P!Columns[kind]
    BY DEF P!Columns
  <1>. QED  BY <1>1 DEF P!PrivateOwned, Patched, RowTyped, RowType, Patching

LEMMA PatchStep ==
    ASSUME Patching, Patched, P!Next
    PROVE  Patched' /\ P!OnlyField
  <1>1. ASSUME NEW f \in P!Columns[kind], NEW v \in P!ValuesOf(f), P!Patch(f, v)
        PROVE  Patched' /\ P!OnlyField
    BY <1>1, PatchOne
  <1>2. ASSUME NEW f \in P!Columns[kind], P!UpdateWith({"id", "name", f})
        PROVE  Patched' /\ P!OnlyField
    BY <1>2, UpdateSome DEF P!OnlyField
  <1>. QED  BY <1>1, <1>2 DEF P!Next

\* A patch of one field changes, and is refused for, that field only, and no
\* private dataset loses its organization: after any number of patches and
\* updates, by a sysadmin or by an editor.
THEOREM PatchesAlwaysOne ==
    ASSUME Patching
    PROVE  StateSpec => PatchesOne
  <1>1. StateInit => Patched
    BY InitPatched DEF StateInit
  <1>2. Patched /\ [StateNext]_<<part, vars, store, forms, given, tags, patches>>
          => Patched' /\ [part = "patches" => P!OnlyField]_patches
    <2> SUFFICES ASSUME Patched, [StateNext]_<<part, vars, store, forms, given, tags, patches>>
                 PROVE  Patched' /\ [part = "patches" => P!OnlyField]_patches
      OBVIOUS
    <2>1. CASE UNCHANGED patches
      <3>1. /\ kind' = kind /\ who' = who /\ stored' = stored /\ shown' = shown
            /\ P!Hidden' = P!Hidden /\ P!Unasked' = P!Unasked
        BY <2>1 DEF patches, P!Hidden, P!Unasked
      <3>2. \A c : Seen(stored, c)' = Seen(stored, c)
        BY <3>1 DEF Seen
      <3>3. Patched'
        BY <3>1, <3>2 DEF Patched, RowTyped
      <3>. QED  BY <2>1, <3>3
    <2>2. CASE part = "patches" /\ P!Next
      BY <2>2, PatchStep
    <2>. QED  BY <2>1, <2>2, Zenon DEF StateNext
  <1>3. Patched => P!PrivateOwned
    BY PatchedOwned
  <1>. QED  BY <1>1, <1>2, <1>3, PTL DEF StateSpec, PatchesOne
=============================================================================
