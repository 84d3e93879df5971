------------------------------ MODULE Patches -------------------------------
(***************************************************************************)
(* Patching a dataset, a group or a user.  A patch shows the object,       *)
(* changes what it is told to and sends the whole of it to the update,     *)
(* which validates every field and saves it.  What is shown went through   *)
(* the schema of the show action, what is sent goes through that of the    *)
(* update: the two must fit, field by field, or a patch of one field       *)
(* changes or refuses another.  An update may also be sent a part of the   *)
(* fields only.                                                            *)
(***************************************************************************)
EXTENDS Naturals, Sequences, FiniteSets

CONSTANTS
    Text, New,          \* texts
    Taken,              \* a name that another object has
    Empty, Null,        \* '' and None
    Missing,            \* the field is not there
    Org1, Org2,         \* organizations
    UnownedAllowed,     \* ckan.auth.create_unowned_dataset
    MaxChanged          \* bound: columns that differ from the first row

VARIABLES
    kind,      \* what is patched
    who,       \* who does it: a sysadmin, or somebody who may update it
    stored,    \* the columns of its row
    shown,     \* what is shown of it
    field,     \* what was patched last, if anything was
    errors     \* the fields that were refused then

vars == <<kind, who, stored, shown, field, errors>>

Kinds == {"dataset", "group", "user"}

\* Fields with the same validators stand for each other: notes for the texts
\* of a dataset, about for those of a user.
Columns ==
    [dataset |-> {"id", "name", "title", "notes", "state", "private", "owner_org", "extra"},
     group |-> {"id", "name", "title", "state", "users", "packages"},
     user |-> {"id", "name", "email", "password", "about", "sysadmin", "state", "plugin_extras"}]

\* Columns that an update clears when it is not sent them
\* (remove_if_not_provided), and extras, which are saved as a whole.
Cleared == [dataset |-> {"title", "notes", "extra"}, group |-> {}, user |-> {}]

ValuesOf(f) ==
    CASE f = "id" -> {Text}
      [] f = "name" -> {Text, New, Taken, Empty}
      [] f = "title" -> {Text, Empty, Null}
      [] f \in {"notes", "about", "plugin_extras", "extra"} -> {Text, Empty, Null}
      [] f = "email" -> {Text, New, Taken, Empty}
      [] f = "password" -> {Text, New}
      [] f = "state" -> {"active", "deleted"}
      [] f \in {"private", "sysadmin"} -> {"true", "false"}
      [] f = "owner_org" -> {Org1, Org2, Empty, Null}
      [] f \in {"users", "packages"} -> {"both", "first", "none"}

-----------------------------------------------------------------------------
(* The schemas.                                                            *)

default_show_package_schema ==
    [id |-> <<>>,
     name |-> <<"not_empty", "unicode_safe", "name_validator", "name_unique">>,
     title |-> <<"if_empty_same_as_name", "unicode_safe">>,
     notes |-> <<>>, private |-> <<>>, owner_org |-> <<>>,
     state |-> <<"ignore_missing">>,
     extra |-> <<"not_empty">>]

default_update_package_schema ==
    [id |-> <<"ignore_missing", "id_not_changed">>,
     name |-> <<"ignore_missing", "name_validator", "name_unique", "unicode_safe">>,
     title |-> <<"ignore_missing", "unicode_safe">>,
     notes |-> <<"ignore_missing", "unicode_safe">>,
     owner_org |-> <<"ignore_missing", "owner_org_validator", "unicode_safe">>,
     private |-> <<"ignore_missing", "boolean_validator", "no_organization_not_private">>,
     state |-> <<"ignore_not_admin", "ignore_missing">>,
     extra |-> <<"not_missing", "unicode_safe">>]

\* Shown groups keep what their schema does not name.
default_show_group_schema ==
    [id |-> <<>>, title |-> <<"ignore_missing", "unicode_safe">>,
     name |-> <<"not_empty", "unicode_safe", "name_validator", "name_unique">>,
     state |-> <<>>, users |-> <<>>, packages |-> <<>>]

default_update_group_schema ==
    [id |-> <<"not_empty", "id_not_changed", "unicode_safe">>,
     name |-> <<"ignore_missing", "not_empty", "name_unique", "unicode_safe">>,
     title |-> <<"ignore_missing", "unicode_safe">>,
     state |-> <<"ignore_not_admin", "ignore_missing">>,
     users |-> <<>>, packages |-> <<>>]

\* A user is shown without validation.
Shown_user == [f \in Columns["user"] |-> <<>>]

default_update_user_schema ==
    [id |-> <<"not_empty", "id_not_changed", "unicode_safe">>,
     name |-> <<"ignore_missing", "name_validator", "user_name", "unicode_safe">>,
     email |-> <<"not_empty", "name_unique", "unicode_safe">>,
     password |-> <<"ignore_missing", "unicode_safe">>,
     about |-> <<"ignore_missing", "unicode_safe">>,
     sysadmin |-> <<"ignore_missing", "ignore_not_sysadmin", "limit_sysadmin_update",
                    "boolean_validator">>,
     state |-> <<"ignore_missing", "ignore_not_sysadmin">>,
     plugin_extras |-> <<"ignore_missing", "json_object", "ignore_not_sysadmin">>]

ShowSchema ==
    [dataset |-> default_show_package_schema, group |-> default_show_group_schema,
     user |-> Shown_user]
UpdateSchema ==
    [dataset |-> default_update_package_schema, group |-> default_update_group_schema,
     user |-> default_update_user_schema]

-----------------------------------------------------------------------------
(* Validators.  Each takes a value to a value, to an error, or stops.      *)

Sysadmin == who = "sysadmin"

\* owner_org_validator: whoever gives the dataset to another organization must
\* be allowed to create datasets there; here that is Org2 for all.
OwnerRefused(v) ==
    \/ v \in {Null, Empty, Missing} /\ ~UnownedAllowed
    \/ v = Org1 /\ stored.owner_org # Org1 /\ ~Sysadmin

\* datasets_with_no_organization_cannot_be_private: when the data names no
\* organization the row is asked for one.
Ownerless(d) == d.owner_org \in {Missing, Empty, Null} /\ stored.owner_org \in {Empty, Null}

Drop == [value |-> Missing, error |-> FALSE, stop |-> TRUE]
Keep(v) == [value |-> v, error |-> FALSE, stop |-> FALSE]
Fail(v) == [value |-> v, error |-> TRUE, stop |-> FALSE]
FailStop(v) == [value |-> v, error |-> TRUE, stop |-> TRUE]

\* What a validator makes of value v of field f among the data d.
Apply(validator, f, v, d) ==
    CASE validator = "ignore_missing" -> IF v \in {Missing, Null} THEN Drop ELSE Keep(v)
      [] validator = "not_missing" -> IF v = Missing THEN FailStop(v) ELSE Keep(v)
      [] validator = "not_empty" -> IF v \in {Missing, Null, Empty} THEN FailStop(v) ELSE Keep(v)
      [] validator = "unicode_safe" -> Keep(IF v \in {Missing, Null} THEN Empty ELSE v)
      [] validator = "if_empty_same_as_name" ->
            Keep(IF v \in {Missing, Null, Empty} THEN d.name ELSE v)
      [] validator = "name_validator" -> IF v = Empty THEN Fail(v) ELSE Keep(v)
      [] validator = "name_unique" -> IF v = Taken THEN Fail(v) ELSE Keep(v)
      [] validator = "user_name" ->
            IF v = Taken \/ (v # stored.name /\ ~Sysadmin) THEN Fail(v) ELSE Keep(v)
      [] validator = "id_not_changed" -> IF v # stored.id THEN Fail(v) ELSE Keep(v)
      [] validator = "ignore_not_admin" -> Keep(v)
      [] validator = "ignore_not_sysadmin" -> Keep(IF Sysadmin THEN v ELSE Missing)
      [] validator = "limit_sysadmin_update" -> Keep(v)
      [] validator = "boolean_validator" -> Keep(IF v = Missing THEN "false" ELSE v)
      [] validator = "json_object" -> Keep(IF v = Empty THEN Null ELSE v)
      [] validator = "owner_org_validator" ->
            IF OwnerRefused(v) THEN Fail(v) ELSE IF v \in {Null, Missing} THEN Drop ELSE Keep(v)
      [] validator = "no_organization_not_private" ->
            IF v = "true" /\ Ownerless(d) THEN Fail(v) ELSE Keep(v)

\* Mutant of After: errors do not stop the validators of a field, nor does a
\* value that is dropped.
AfterOn(r, validators, i, f, d) ==
    IF i > Len(validators) THEN r
    ELSE LET next == Apply(validators[i], f, r.value, d)
         IN  [next EXCEPT !.error = r.error \/ next.error]

\* What the validator at place i makes of the result of those before it.
After(r, validators, i, f, d) ==
    IF i > Len(validators) \/ r.stop THEN r
    ELSE LET next == Apply(validators[i], f, r.value, d)
         IN  IF r.error THEN [value |-> next.value, error |-> TRUE, stop |-> next.stop] ELSE next

\* The validators of a field, of which there are four at most, one after
\* another until one stops.
Run(validators, f, v, d) ==
    LET first == After(Keep(v), validators, 1, f, d)
        second == After(first, validators, 2, f, d)
        third == After(second, validators, 3, f, d)
    IN  After(third, validators, 4, f, d)

\* All fields of the data d against a schema.
Validate(schema, d) == [f \in DOMAIN schema |-> Run(schema[f], f, d[f], d)]

-----------------------------------------------------------------------------
\* user_dictize: the password is never shown, and the plugins' data is not.
Hidden == IF kind = "user" THEN {"password", "plugin_extras"} ELSE {}

\* group_show says no datasets unless it is asked to.
Unasked == IF kind = "group" THEN {"packages"} ELSE {}

\* package_show, group_show and user_show of a row; errors are left out.
Show(row) ==
    LET r == Validate(ShowSchema[kind], row)
    IN  [f \in Columns[kind] |-> IF f \in Hidden \cup Unasked THEN Missing ELSE r[f].value]

\* What is left of a column that is cleared; an extra is gone.
Blank(f) == IF f = "extra" THEN Missing ELSE Null

\* table_dict_save, group_dict_save, user_dict_save: a column that was not
\* sent is kept or cleared; package_owner_org_update makes '' no organization.
Saved(d) ==
    [f \in Columns[kind] |->
        IF d[f] # Missing THEN (IF f = "owner_org" /\ d[f] = Empty THEN Null ELSE d[f])
        ELSE IF f \in Cleared[kind] THEN Blank(f) ELSE stored[f]]

\* package_update, group_update and user_update with the data d.  An
\* organization is validated before what depends on it, and there is nothing
\* to validate of an extra that is not there.
Update(d) ==
    LET Owner == Run(UpdateSchema[kind].owner_org, "owner_org", d.owner_org, d).value
        r == Validate(UpdateSchema[kind],
                      IF kind = "dataset" THEN [d EXCEPT !.owner_org = Owner] ELSE d)
        bad == {f \in Columns[kind] : r[f].error} \ {f \in Columns[kind] \cap {"extra"} : d[f] = Missing}
        row == Saved([f \in Columns[kind] |->
                        IF f = "extra" /\ d[f] = Missing THEN Missing ELSE r[f].value])
    IN  /\ errors' = bad
        /\ stored' = IF bad = {} THEN row ELSE stored
        /\ shown' = IF bad = {} THEN Show(row) ELSE shown
        /\ UNCHANGED <<kind, who>>

\* The row that is there at first.
First ==
    [f \in Columns[kind] |->
        CASE f = "state" -> "active"
          [] f \in {"private", "sysadmin"} -> "false"
          [] f = "owner_org" -> Org1
          [] f \in {"users", "packages"} -> "both"
          [] OTHER -> Text]

\* package_patch, group_patch and user_patch.
Patch(f, v) ==
    /\ v \in ValuesOf(f)
    /\ Cardinality({c \in Columns[kind] \ {f} : stored[c] # First[c]}) < MaxChanged
    /\ Update([shown EXCEPT ![f] = v])
    /\ field' = f

\* An update with some of the fields that are shown.
UpdateWith(F) ==
    /\ Update([f \in Columns[kind] |-> IF f \in F THEN shown[f] ELSE Missing])
    /\ field' = "none"

Init ==
    /\ kind \in Kinds
    /\ who \in {"sysadmin", "editor"}
    /\ stored = First
    /\ shown = Show(First)
    /\ field = "none" /\ errors = {}

Next ==
    \/ \E f \in Columns[kind] : \E v \in ValuesOf(f) : Patch(f, v)
    \/ \E f \in Columns[kind] : UpdateWith({"id", "name", f})

Spec == Init /\ [][Next]_vars

TypeOK ==
    /\ kind \in Kinds
    /\ stored \in [Columns[kind] -> {Missing} \cup UNION {ValuesOf(f) : f \in Columns[kind]}]
    /\ errors \subseteq Columns[kind]

\* A patch of one field is refused for that field only, and when it is
\* accepted nothing else that is shown changes; the members and the datasets
\* of a group stay, and what is never shown too.
OnlyField ==
    field' # "none" =>
        /\ errors' \subseteq {field'} \cup IF field' = "owner_org" THEN {"private"} ELSE {}
        /\ \A f \in Columns[kind] \ {field'} :
              /\ shown'[f] = shown[f]
              /\ f \in Hidden \cup Unasked => stored'[f] = stored[f]

\* A dataset that is private has an organization (the error of
\* datasets_with_no_organization_cannot_be_private says so).
PrivateOwned ==
    kind = "dataset" /\ stored.private = "true" => stored.owner_org \notin {Empty, Null}
=============================================================================
