----------------------------- MODULE Validation -----------------------------
(***************************************************************************)
(* Validation of the data of a request against a schema (navl).  The       *)
(* nested data is flattened to keys; a schema names the validators of each *)
(* key.  Keys that the schema does not name are put aside under __extras   *)
(* of their level, or under __junk; those that it names and the data lacks *)
(* are marked as missing.  Validators then run one after another, changing *)
(* the flat data, and the rest of it is nested again.  Here are two        *)
(* levels: fields, and lists of items with fields of their own.            *)
(***************************************************************************)
EXTENDS Naturals, Sequences, FiniteSets, SequencesExt, FiniteSetsExt, Functions

CONSTANTS
    Good, Bad,          \* values; a bad one does not convert
    Empty, Null,        \* '' and None
    Missing,            \* what marks a missing field
    Default             \* the value that a validator fills in

VARIABLES
    input, schema,
    data,      \* converted_data
    errors,    \* errors[k]: how many errors there are for key k
    todo,      \* the converters that are to run, with their keys
    result     \* what validate returns, or raises

vars == <<input, schema, data, errors, todo, result>>

Pending == [raised |-> "nothing"]
DataError == [raised |-> "DataError"]
TypeError == [raised |-> "TypeError"]

-----------------------------------------------------------------------------
(* Schemas: the validators of the fields, and of those of the items of     *)
(* each list.  A schema may name __before, __extras and __junk, or not.    *)

\* Names in the order in which they are validated.
Lists == <<"extras", "resources">>
Names == <<"__before", "__extras", "__junk", "extras", "name", "notes", "q", "rows", "save", "start">>
ItemNames == <<"__extras", "deleted", "id", "key", "name", "size", "state", "value">>

default_create_package_schema ==
    [top |-> [__before |-> <<"duplicate_extras_key", "ignore">>,
              name |-> <<"not_empty", "unicode_safe">>,
              notes |-> <<"ignore_missing", "unicode_safe">>,
              save |-> <<"ignore">>,
              __extras |-> <<"ignore">>,
              __junk |-> <<"empty">>],
     lists |->
        [extras |-> [key |-> <<"not_empty", "unicode_safe">>,
                     value |-> <<"not_missing", "unicode_safe">>,
                     state |-> <<"ignore">>,
                     deleted |-> <<"ignore_missing">>,
                     __extras |-> <<"ignore">>],
         resources |-> [id |-> <<"ignore_empty", "unicode_safe">>,
                        name |-> <<"ignore_missing", "unicode_safe">>,
                        size |-> <<"ignore_missing", "int_validator">>,
                        state |-> <<"ignore">>,
                        __extras |-> <<"ignore_missing", "keep_extras">>]]]

\* What is shown is not converted again, and items of extras say more than
\* the schema names.
default_show_package_schema ==
    [top |-> [notes |-> <<>>] @@ default_create_package_schema.top,
     lists |->
        [extras |-> [key |-> <<"not_empty">>, value |-> <<"not_empty">>],
         resources |-> [id |-> <<"not_empty">>, name |-> <<>>, size |-> <<>>, state |-> <<>>]
                       @@ default_create_package_schema.lists.resources]]

\* Parameters of a search: no lists of items, and nothing is named for keys
\* that are put aside.
package_search_schema ==
    [top |-> [q |-> <<"ignore_missing", "unicode_safe">>,
              rows |-> <<"default", "natural_number_validator", "limit_to_configured_maximum">>,
              start |-> <<"ignore_missing", "natural_number_validator">>,
              extras |-> <<"ignore_missing">>],
     lists |-> <<>>]

Schemas == {default_create_package_schema, default_show_package_schema, package_search_schema}

\* The data of a request: fields, and lists that have items.  The items of a
\* list that the schema does not know are there too.
Scalars == {Good, Bad, Empty, Null}
Fields(N) == UNION {[D -> Scalars] : D \in SUBSET N}
Simple == [name |-> Good]

Extra(k, v) == [key |-> k, value |-> v]
ExtraItems ==
    {Extra(Good, Good), Extra(Bad, Good), Extra(Good, Null), Extra(Empty, Bad),
     [value |-> Good], [key |-> Good, value |-> Good, state |-> Bad],
     [key |-> Good, value |-> Good, deleted |-> Good],
     [state |-> Good], [other |-> Good], [key |-> Bad, value |-> Good, other |-> Good],
     <<>>}
ResourceItems ==
    {[id |-> Good, size |-> Good, name |-> Null], [id |-> Empty, size |-> Bad],
     [size |-> Bad, other |-> Good], [state |-> Good], [name |-> Bad, size |-> Empty]}

Several(S) == SeqOf(S, 2) \ {<<>>}

Inputs ==
    [top : Fields({"name", "notes"}) \cup Fields({"rows", "start"}), lists : {<<>>}] \cup
    [top : {Simple @@ (n :> x) : n \in {"save", "other", "q"}, x \in Scalars}
           \cup {Simple @@ (n :> x) : n \in ToSet(Lists), x \in {Good, Null, <<>>}},
     lists : {<<>>, [other |-> <<Extra(Good, Good)>>]}] \cup
    [top : {Simple},
     lists : {[extras |-> l] : l \in Several(ExtraItems)}
             \cup {[resources |-> l] : l \in Several(ResourceItems)}
             \cup {[extras |-> <<Extra(Good, Good)>>, resources |-> l] : l \in Several(ResourceItems)}]

-----------------------------------------------------------------------------
(* Keys are tuples: of a name, or of a list, a position and a name.        *)

InItem(k) == Len(k) = 3
Special(k) == Last(k) \in {"__before", "__extras", "__junk"}

\* The positions of the items of the list l that keys are about, in order.
PositionsOf(K, l) == SetToSortSeq({k[2] : k \in {x \in K : InItem(x) /\ x[1] = l}}, <)

\* flatten_dict, flatten_list
Flatten(d) ==
    [k \in {<<n>> : n \in DOMAIN d.top} \cup
           UNION {UNION {{<<l, i, n>> : n \in DOMAIN d.lists[l][i]} : i \in DOMAIN d.lists[l]} :
                  l \in DOMAIN d.lists} |->
        IF InItem(k) THEN d.lists[k[1]][k[2]][k[3]] ELSE d.top[k[1]]]

\* unflatten: positions that no key is about are closed up.
Unflatten(f) ==
    LET items(l) ==
            LET at == PositionsOf(DOMAIN f, l)
                names(i) == {k[3] : k \in {x \in DOMAIN f : InItem(x) /\ x[1] = l /\ x[2] = i}}
            IN  [j \in DOMAIN at |-> [n \in names(at[j]) |-> f[<<l, at[j], n>>]]]
    IN  [top |-> [n \in {k[1] : k \in {x \in DOMAIN f : ~InItem(x)}} |-> f[<<n>>]],
         lists |-> [l \in {k[1] : k \in {x \in DOMAIN f : InItem(x)}} |-> items(l)]]

-----------------------------------------------------------------------------
(* augment_data                                                            *)

\* make_full_schema: the keys of the schema, for the items that there are.
FullSchema(s, K) ==
    {<<n>> : n \in DOMAIN s.top} \cup
    UNION {{<<l, i, n>> : i \in ToSet(PositionsOf(K, l)), n \in DOMAIN s.lists[l]} :
           l \in DOMAIN s.lists}

\* Whether the schema knows the level of the key (get_all_key_combinations):
\* then what it does not name goes under __extras, and else under __junk.
Known(s, k) == InItem(k) => k[1] \in DOMAIN s.lists
ExtrasOf(k) == Append(Front(k), "__extras")

Augmented(s, f) ==
    LET K == DOMAIN f
        full == FullSchema(s, K)
        aside == {k \in K \ full : Known(s, k)}
        junk == (K \ full) \ aside
        here(e) == {k \in aside : ExtrasOf(k) = e}
    IN  [k \in K \cap full |-> f[k]]
        @@ [e \in {ExtrasOf(k) : k \in aside} |->
               [n \in {Last(k) : k \in here(e)} |-> f[Append(Front(e), n)]]]
        @@ [e \in IF junk = {} THEN {} ELSE {<<"__junk">>} |-> Restrict(f, junk)]
        @@ [k \in {x \in full : ~Special(x)} |-> Missing]

\* Only an empty list may take the place of a list of dicts.
Malformed(s, d) == \E l \in DOMAIN s.lists \cap DOMAIN d.top : d.top[l] # <<>>

-----------------------------------------------------------------------------
(* Converters                                                              *)

\* The keys of the schema in the order in which they are converted
\* (flattened_order_key).
InOrder(s, K) ==
    LET items(l) ==
            LET at == PositionsOf(K, l) IN
            FlattenSeq([p \in DOMAIN at |-> [j \in DOMAIN ItemNames |-> <<l, at[p], ItemNames[j]>>]])
    IN  SelectSeq([j \in DOMAIN Names |-> <<Names[j]>>] \o FlattenSeq([j \in DOMAIN Lists |-> items(Lists[j])]),
                  LAMBDA k : k \in FullSchema(s, K))

ValidatorsOf(s, k) == IF InItem(k) THEN s.lists[k[1]][k[3]] ELSE s.top[k[1]]

For(k, validators) == [j \in DOMAIN validators |-> [key |-> k, by |-> validators[j]]]

\* _validate: the converters of the passes before, main, extras and junk.
Converters(s, K) ==
    LET keys == InOrder(s, K)
        pass(of(_)) == FlattenSeq([j \in DOMAIN keys |->
                          IF of(keys[j]) THEN For(keys[j], ValidatorsOf(s, keys[j])) ELSE <<>>])
    IN  pass(LAMBDA k : Last(k) = "__before") \o pass(LAMBDA k : ~Special(k))
        \o pass(LAMBDA k : Last(k) = "__extras") \o pass(LAMBDA k : Last(k) = "__junk")

\* Every key of the schema has its list of errors from the start, so that the
\* lists of errors keep the positions of the items.
NoErrors(s, K) == [k \in FullSchema(s, K) |-> 0]

Init ==
    /\ input \in Inputs /\ schema \in Schemas
    /\ LET f == Flatten(input)
       IN  /\ data = Augmented(schema, f)
           /\ errors = NoErrors(schema, DOMAIN f)
           /\ todo = IF Malformed(schema, input) THEN <<>> ELSE Converters(schema, DOMAIN f)
    /\ result = IF Malformed(schema, input) THEN DataError ELSE Pending

TypeOK ==
    /\ \A k \in DOMAIN data : Special(k) \/ data[k] \in Scalars \cup {Missing, Default, <<>>}
    /\ \A k \in DOMAIN errors : errors[k] \in Nat
    /\ {todo[j].key : j \in DOMAIN todo} \subseteq FullSchema(schema, DOMAIN Flatten(input))

-----------------------------------------------------------------------------
key == Head(todo).key
Is(names) == todo # <<>> /\ Head(todo).by \in names

\* data.get(key)
Value == IF key \in DOMAIN data THEN data[key] ELSE Null

\* The next converter is that of the same key, or after StopOnError that of
\* another key.
Continue == todo' = Tail(todo)
StopOnError == todo' = SelectSeq(todo, LAMBDA c : c.key # key)

Without(f, K) == Restrict(f, DOMAIN f \ K)
Set(v) == data' = (key :> v) @@ data
Pop == data' = Without(data, {key})
Error == errors' = [errors EXCEPT ![key] = @ + 1]
Kept == UNCHANGED <<input, schema, result>>

\* not_missing, and not_empty.
Require ==
    /\ Is({"not_missing", "not_empty"})
    /\ IF Value = Missing \/ (Is({"not_empty"}) /\ Value \in {Empty, Null})
       THEN Error /\ StopOnError ELSE UNCHANGED errors /\ Continue
    /\ UNCHANGED data /\ Kept

\* ignore, ignore_missing and ignore_empty, also of what was put aside.
Ignored == {Missing, Null} \cup (IF Is({"ignore_empty"}) THEN {Empty} ELSE {})

Ignore ==
    /\ Is({"ignore", "ignore_missing", "ignore_empty"})
    /\ IF Is({"ignore"}) \/ Value \in Ignored
       THEN Pop /\ StopOnError ELSE UNCHANGED data /\ Continue
    /\ UNCHANGED errors /\ Kept

\* empty: a value is an error, and it is dropped.
Refuse ==
    /\ Is({"empty"})
    /\ IF Value \notin {Empty, Null, Missing} THEN Error ELSE UNCHANGED errors
    /\ Pop /\ Continue /\ Kept

\* Mutant of FillIn: only what is missing is filled in.
FillInMissing ==
    /\ Is({"default"})
    /\ IF Value = Missing THEN Set(Default) ELSE UNCHANGED data
    /\ UNCHANGED errors /\ Continue /\ Kept

\* default
FillIn ==
    /\ Is({"default"})
    /\ IF Value \in {Missing, Null, Empty} THEN Set(Default) ELSE UNCHANGED data
    /\ UNCHANGED errors /\ Continue /\ Kept

\* convert, with the validators of numbers: the other validators of the key
\* run after an error too.
Numeric == {"int_validator", "natural_number_validator", "limit_to_configured_maximum"}

\* int_validator makes None of an empty number, which compares with nothing.
Compared == Is({"natural_number_validator"}) /\ Value \in {Null, Empty}

Convert ==
    /\ Is(Numeric) /\ ~Compared
    /\ IF Value \in {Null, Empty} THEN Set(Null) ELSE UNCHANGED data
    /\ IF Value \in {Bad, Missing} THEN Error ELSE UNCHANGED errors
    /\ Continue /\ Kept

\* Nobody catches the error of the comparison.
Fail ==
    /\ Compared
    /\ result' = TypeError /\ todo' = <<>>
    /\ UNCHANGED <<input, schema, data, errors>>

\* convert, with unicode_safe.
MakeText ==
    /\ Is({"unicode_safe"})
    /\ IF Value \in {Missing, Null} THEN Set(Empty) ELSE UNCHANGED data
    /\ UNCHANGED errors /\ Continue /\ Kept

\* keep_extras: what was put aside comes back.
PutBack ==
    /\ Is({"keep_extras"})
    /\ data' = [k \in {Append(Front(key), n) : n \in DOMAIN Value} |-> Value[Last(k)]]
               @@ Without(data, {key})
    /\ UNCHANGED errors /\ Continue /\ Kept

\* duplicate_extras_key: it runs before the others and sees the items as they
\* came.  Its error has a key of its own.
FindDuplicates ==
    /\ Is({"duplicate_extras_key"})
    /\ LET gone(i) == LET k == <<"extras", i, "deleted">>
                      IN  k \in DOMAIN data /\ data[k] \notin {Empty, Null, Missing}
           at == {i \in ToSet(PositionsOf(DOMAIN data, "extras")) : ~gone(i)}
           twice == \E i, j \in at : i # j /\ data[<<"extras", i, "key">>] = data[<<"extras", j, "key">>]
       IN  errors' = IF twice THEN (<<"extras_validation">> :> 1) @@ errors ELSE errors
    /\ UNCHANGED data /\ Continue /\ Kept

\* The end of validate: the rest is nested again, and a list that came empty
\* is there again.  Keys without errors are left out, and lists of items
\* without any, but no item of a list with errors.
Finish ==
    /\ todo = <<>> /\ result = Pending
    /\ LET u == Unflatten(data)
           e == Unflatten(errors)
           emptied == {n \in DOMAIN input.top : input.top[n] = <<>>}
           failed(r) == {n \in DOMAIN r : r[n] > 0}
           wrong == {l \in DOMAIN e.lists : \E i \in DOMAIN e.lists[l] : failed(e.lists[l][i]) # {}}
       IN  result' =
             [data |-> [u EXCEPT !.top = @ @@ [n \in emptied |-> <<>>]],
              errors |-> [top |-> failed(e.top),
                          lists |-> [l \in wrong |-> [i \in DOMAIN e.lists[l] |-> failed(e.lists[l][i])]]]]
    /\ UNCHANGED <<input, schema, data, errors, todo>>

Next ==
    \/ Require \/ Ignore \/ Refuse \/ FillIn \/ Convert \/ Fail \/ MakeText
    \/ PutBack \/ FindDuplicates \/ Finish

Spec == Init /\ [][Next]_vars

-----------------------------------------------------------------------------
Done == result \notin {Pending, DataError, TypeError}
Accepted == Done /\ result.errors.top = {} /\ result.errors.lists = <<>>

Full == FullSchema(schema, DOMAIN Flatten(input))

\* Whether what the data says under the key is there, where the key was or
\* put aside.  Conversions change empty values only.
Says(k, v) ==
    \/ k \in DOMAIN data /\ (data[k] = v \/ v \in {Empty, Null})
    \/ k \notin Full /\ ExtrasOf(k) \in DOMAIN data /\ (Last(k) :> v) = Restrict(data[ExtrasOf(k)], {Last(k)})
    \/ k \notin Full /\ <<"__junk">> \in DOMAIN data /\ (k :> v) = Restrict(data[<<"__junk">>], {k})

\* Whether the schema lets the value be dropped.
MayDrop(k, v) ==
    LET of == IF k \in Full THEN k ELSE ExtrasOf(k)
        V == IF of \in Full THEN ToSet(ValidatorsOf(schema, of)) ELSE {}
    IN  \/ "ignore" \in V \/ v = <<>>
        \/ k \in Full /\ V \cap {"ignore_missing", "ignore_empty"} # {} /\ v = Null
        \/ k \in Full /\ "ignore_empty" \in V /\ v = Empty

Deleted(item) == "deleted" \in DOMAIN item /\ item.deleted \notin {Empty, Null}

\* What is accepted says all that the request said but what the schema drops;
\* what is put aside stays only where the schema says nothing of it.  It has
\* every field that the schema requires, no mark of a missing one where it
\* validates anything, no key of the extras twice, and the empty lists.
AcceptedWhole ==
    Accepted =>
        /\ \A k \in DOMAIN Flatten(input) :
              Says(k, Flatten(input)[k]) \/ MayDrop(k, Flatten(input)[k])
        /\ \A k \in DOMAIN data : Special(k) => k \notin Full
        /\ \A k \in Full :
              LET V == ToSet(ValidatorsOf(schema, k))
              IN  /\ V \cap {"not_missing", "not_empty", "default"} # {} => k \in DOMAIN data
                  /\ V \cap {"not_empty", "default"} # {} => data[k] \notin {Empty, Null}
                  /\ k \in DOMAIN data /\ V # {} => data[k] # Missing
        /\ "__before" \in DOMAIN schema.top /\ "extras" \in DOMAIN result.data.lists =>
              LET l == SelectSeq(result.data.lists.extras, LAMBDA x : ~Deleted(x))
              IN  IsInjective([i \in DOMAIN l |-> l[i].key])
        /\ \A n \in DOMAIN input.top :
              input.top[n] = <<>> => n \in DOMAIN result.data.top /\ result.data.top[n] = <<>>

\* No item is an empty dict.
Whole(l) == \A i \in DOMAIN l : DOMAIN l[i] # {}

\* An item lacks what the schema requires, or has what does not convert.
Faulty(l, i, n) ==
    LET V == ToSet(schema.lists[l][n])
        lacks == n \notin DOMAIN input.lists[l][i]
    IN  \/ "not_missing" \in V /\ lacks
        \/ "not_empty" \in V /\ (lacks \/ input.lists[l][i][n] \in {Empty, Null})
        \/ "int_validator" \in V /\ ~lacks /\ input.lists[l][i][n] = Bad

\* What is refused names every item with an error by its position in the
\* request, also when other items are dropped from the data; but an item that
\* is an empty dict is lost when the data is flattened.
ErrorsInPlace ==
    Done /\ (\A l \in DOMAIN input.lists : Whole(input.lists[l])) =>
        \A l \in DOMAIN schema.lists \cap DOMAIN input.lists : \A i \in DOMAIN input.lists[l] :
            {n \in DOMAIN schema.lists[l] : Faulty(l, i, n)} =
                IF l \in DOMAIN result.errors.lists THEN result.errors.lists[l][i] ELSE {}

\* Only a number that is given as empty and has no default breaks a request.
BreaksOnEmpty ==
    result = TypeError => "start" \in DOMAIN input.top /\ input.top.start = Empty

Validated == AcceptedWhole /\ ErrorsInPlace /\ BreaksOnEmpty
=============================================================================
