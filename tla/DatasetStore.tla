---------------------------- MODULE DatasetStore ----------------------------
(***************************************************************************)
(* What CKAN's dataset actions promise a caller, without the database, the *)
(* sessions and the search index that implement it.  A dataset is the      *)
(* content package_show answers with.  A request is asked for, and later   *)
(* either takes effect in one step or is dropped without any effect:       *)
(*                                                                         *)
(*   create   makes a dataset that did not exist;                          *)
(*   patch    changes the fields it was given and "leav[es] all other      *)
(*            parameters unchanged" (ckan/logic/action/patch.py);          *)
(*   purge    removes the dataset.                                         *)
(*                                                                         *)
(* DatasetIndex refines this specification when only the operations that   *)
(* lock the dataset before they read it are in use (SafeKinds).            *)
(***************************************************************************)

CONSTANTS
    Workers,        \* the processes that serve requests
    Datasets,       \* dataset ids
    Fields,         \* what a dataset is made of
    Values,         \* what a field may hold
    Absent          \* no dataset, no request

VARIABLES
    shown,          \* shown[d]: what package_show answers for dataset d
    asked           \* asked[w]: the request worker w is serving

Content == [Fields -> Values]

\* Content c with the fields of the request changed to what the request says.
Override(c, changes) ==
    [f \in Fields |-> IF f \in DOMAIN changes THEN changes[f] ELSE c[f]]

Changes == UNION {[F -> Values] : F \in SUBSET Fields}

Request == [kind : {"create", "patch", "purge"}, ds : Datasets, req : Changes]

Init ==
    /\ shown \in [Datasets -> Content \cup {Absent}]
    /\ asked = [w \in Workers |-> Absent]

Ask(w) ==
    /\ asked[w] = Absent
    /\ \E r \in Request : asked' = [asked EXCEPT ![w] = r]
    /\ UNCHANGED shown

\* The request is refused, rolled back or lost with its worker.
Drop(w) ==
    /\ asked[w] # Absent
    /\ asked' = [asked EXCEPT ![w] = Absent]
    /\ UNCHANGED shown

Perform(w, kind, answer) ==
    /\ asked[w] # Absent
    /\ asked[w].kind = kind
    /\ shown' = [shown EXCEPT ![asked[w].ds] = answer]
    /\ asked' = [asked EXCEPT ![w] = Absent]

Create(w) ==
    /\ asked[w] # Absent
    /\ shown[asked[w].ds] = Absent
    /\ DOMAIN asked[w].req = Fields
    /\ Perform(w, "create", asked[w].req)

Patch(w) ==
    /\ asked[w] # Absent
    /\ shown[asked[w].ds] # Absent
    /\ Perform(w, "patch", Override(shown[asked[w].ds], asked[w].req))

Purge(w) == Perform(w, "purge", Absent)

Next == \E w \in Workers :
    Ask(w) \/ Drop(w) \/ Create(w) \/ Patch(w) \/ Purge(w)

vars == <<shown, asked>>

Spec == Init /\ [][Next]_vars
=============================================================================
