------------------------------- MODULE MCSite -------------------------------
(***************************************************************************)
(* What becomes of the data of requests, for TLC: what MCSiteState has,    *)
(* validation and revisions.  One of them runs in each behaviour, and the  *)
(* others stay in an initial state.                                        *)
(***************************************************************************)
EXTENDS MCSiteState

CONSTANTS
    Good, Bad, Old, Default, NotAList, Refused, NoRequest, FirstId, SecondId, NewId

VARIABLES
    input, schema, data, errors, todo, result,  \* validation
    notes, url, resources, request, answer                        \* revisions

kept == <<vars, store, forms, given, tags, patches>>
validation == <<input, schema, data, errors, todo, result>>
revisions == <<notes, url, resources, request, answer>>

-----------------------------------------------------------------------------
Rec(id, key, val) == [id |-> id, key |-> key, val |-> val]
Batches1 == {<<Rec(0, "k1", 1)>>, <<Rec(0, "k2", 2), Rec(0, "k1", 2)>>, <<Rec(2, "k1", 2)>>}

V == INSTANCE Validation

E == INSTANCE Revise WITH
        Items <- {"0", "1", "*"}, Inside <- {"0"}, MaxPatterns <- 2, MaxResources <- 3

-----------------------------------------------------------------------------
MCInit ==
    /\ part \in {"store", "store race", "tags", "tags race", "validation", "patches", "revisions",
                 "options", "forms", "forms quick", "roles"}
    /\ StateInit
    /\ part # "validation" =>
          input = [top |-> V!Simple, lists |-> <<>>]
          /\ schema = V!package_search_schema
    /\ V!Init
    /\ part # "patches" => kind = "user" /\ who = "editor"
    /\ E!Init

MCNext ==
    \/ StateNext /\ UNCHANGED <<validation, revisions>>
    \/ /\ UNCHANGED <<part, kept>>
       /\ \/ part = "validation" /\ V!Next /\ UNCHANGED revisions
          \/ part = "revisions" /\ E!Next /\ UNCHANGED validation

MCSpec == MCInit /\ [][MCNext]_<<part, kept, validation, revisions>>

-----------------------------------------------------------------------------
\* The types of the state of the part that runs.
TypesOK ==
    CASE part \in {"store", "store race"} -> S!TypeOK
      [] part \in {"tags", "tags race"} -> T!TypeOK
      [] part = "validation" -> V!TypeOK
      [] part = "patches" -> P!TypeOK
      [] part = "revisions" -> E!TypeOK
      [] part = "options" -> TypeOK
      [] part \in {"forms", "forms quick"} -> F!TypeOK
      [] part = "roles" -> G!TypeOK

\* What a schema accepts is all of the request but what it drops, what it
\* refuses names the places of the errors, and only an empty number that has no
\* default breaks a request (Validation).
Validated == part = "validation" => V!Validated

\* A revision takes out what its filter names, by the first pattern that does,
\* changes what it is told to and nothing when it is refused (Revise).
RevisedExactly == [][part = "revisions" => E!FilterStep /\ E!ChangeStep]_revisions
=============================================================================
