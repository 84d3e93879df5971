--------------------------- MODULE DatasetChanges ---------------------------
(***************************************************************************)
(* The summary of what changed between two versions of a dataset or an     *)
(* organization, which the activity extension shows for an activity and    *)
(* the one before it.  An entry says what changed, how, and, most of them, *)
(* what it is now; it is found by comparing fields, sets of keys and       *)
(* lengths of lists one by one.                                            *)
(***************************************************************************)
EXTENDS Naturals, FiniteSets, Functions

CONSTANTS
    WholeFields,     \* title, name, private, license: always "change"
    OptionalFields,  \* maintainer, author, notes, owner_org, url, ...
    ExtensionFields, \* fields that extensions add to the dictionary
    Versions,        \* bound: the versions that are compared
    None             \* no value

Fields == WholeFields \cup OptionalFields
Blank(v) == v \in {None, ""}
Same(a, b) == a = b \/ (Blank(a) /\ Blank(b))

VARIABLES old, new   \* the versions of two neighbouring activities

vars == <<old, new>>

\* Versions have: fields, tags, extension (fields of extensions), extras,
\* resources: [name, format, description, url, extras] for each id.
TypeOK == old \in Versions /\ new \in Versions

-----------------------------------------------------------------------------
\* Entries that do not carry the value there is now: new is None in them.
Silent == {"remove", "new_file", "change_value_no_new"}
Carried(method, v) == IF method \in Silent THEN None ELSE v

\* How a field is said to have changed.
Method(f, o, n) ==
    IF f \in WholeFields THEN "change"
    ELSE IF Blank(n) THEN "remove" ELSE IF Blank(o) THEN "add" ELSE "change"

FieldEntry(f, o, n) ==
    [what |-> "field", key |-> f, method |-> Method(f, o, n),
     new |-> Carried(Method(f, o, n), n)]

FieldChanges(o, n) ==
    {FieldEntry(f, o.fields[f], n.fields[f]) : f \in {g \in Fields : o.fields[g] # n.fields[g]}}

\* One entry for one element, or one for all of them.
Listing(what, one, multiple, S) ==
    IF S = {} THEN {}
    ELSE {[what |-> what, keys |-> S, method |-> IF Cardinality(S) = 1 THEN one ELSE multiple]}

TagsRemoved(o, n) == Listing("tags", "remove_one", "remove_multiple", o.tags \ n.tags)
TagsAdded(o, n) == Listing("tags", "add_one", "add_multiple", n.tags \ o.tags)

\* Mutant of TagChanges: when tags are removed those added are not told.
TagChangesRemoved(o, n) ==
    IF o.tags \ n.tags # {} THEN TagsRemoved(o, n) ELSE TagsAdded(o, n)

TagChanges(o, n) == TagsRemoved(o, n) \cup TagsAdded(o, n)

\* Fields of extensions that both versions have; those added and removed are
\* not told.
ExtensionChanges(o, n) ==
    {[what |-> "extension_fields", key |-> f, new |-> n.extension[f]] :
        f \in {g \in DOMAIN o.extension \cap DOMAIN n.extension :
                 o.extension[g] # n.extension[g]}}

\* The entries for a dictionary of extras.  Of a single one that is added
\* without a value, only the key is told.
AddMethod(S, n) ==
    IF Cardinality(S) > 1 THEN "add_multiple"
    ELSE IF \A k \in S : Blank(n[k]) THEN "add_one_no_value" ELSE "add_one_value"

Added(what, o, n) ==
    LET S == DOMAIN n \ DOMAIN o IN
    IF S = {} THEN {}
    ELSE {[what |-> what, keys |-> S, method |-> AddMethod(S, n),
           values |-> Restrict(n, IF AddMethod(S, n) = "add_one_no_value" THEN {} ELSE S)]}

Removed(what, o, n) == Listing(what, "remove_one", "remove_multiple", DOMAIN o \ DOMAIN n)

\* A value that is taken away is told so in the extras of resources only.
ValueMethod(what, o, n) ==
    IF Blank(o) THEN "change_value_no_old"
    ELSE IF Blank(n) /\ what = "extras" THEN "change_value_no_new" ELSE "change_value_with_old"

ValueEntry(what, k, o, n) ==
    [what |-> what, key |-> k, method |-> ValueMethod(what, o, n),
     new |-> Carried(ValueMethod(what, o, n), n)]

Valued(what, o, n) ==
    {ValueEntry(what, k, o[k], n[k]) : k \in {j \in DOMAIN o \cap DOMAIN n : o[j] # n[j]}}

ExtraChanges(what, o, n) ==
    Added(what, o, n) \cup Removed(what, o, n) \cup Valued(what, o, n)

\* The entries for a resource that both versions have.  That the url is
\* another one is told, not which one it is.
DetailMethod(f, o, n) ==
    IF f = "url" THEN "new_file"
    ELSE IF f = "description" /\ ~Blank(o) /\ Blank(n) THEN "remove"
    ELSE IF f # "name" /\ Blank(o) /\ ~Blank(n) THEN "add" ELSE "change"

DetailEntry(id, f, o, n) ==
    [what |-> f, resource |-> id, method |-> DetailMethod(f, o, n),
     new |-> Carried(DetailMethod(f, o, n), n)]

Details == {"name", "format", "description", "url"}

OneResource(id, o, n) ==
    {DetailEntry(id, f, o[f], n[f]) : f \in {g \in Details : o[g] # n[g]}}

ResourceChanges(o, n) ==
    LET Ids == DOMAIN o.resources \cap DOMAIN n.resources IN
    {[what |-> "new_resource", resource |-> id, new |-> n.resources[id].name] :
        id \in DOMAIN n.resources \ DOMAIN o.resources}
    \cup {[what |-> "delete_resource", resource |-> id] :
        id \in DOMAIN o.resources \ DOMAIN n.resources}
    \cup (UNION {OneResource(id, o.resources[id], n.resources[id]) : id \in Ids})
    \cup (UNION {{[what |-> "resource_extras", resource |-> id, entry |-> e] :
                    e \in ExtraChanges("extras", o.resources[id].extras,
                                                 n.resources[id].extras)} : id \in Ids})

\* check_metadata_changes and check_resource_changes.
Summary(o, n) ==
    FieldChanges(o, n) \cup TagChanges(o, n) \cup ExtensionChanges(o, n)
    \cup ExtraChanges("extra_fields", o.extras, n.extras) \cup ResourceChanges(o, n)

Init == old \in Versions /\ new \in Versions

\* The next activity: its version is compared with the one before.
Save(v) == old' = new /\ new' = v

Next == \E v \in Versions : Save(v)

Spec == Init /\ [][Next]_vars

-----------------------------------------------------------------------------
(* Reading the summary. *)

About(S, what) == {e \in S : e.what = what}
Keys(S, methods) == UNION {e.keys : e \in {x \in S : x.method \in methods}}

AddMethods == {"add_multiple", "add_one_no_value", "add_one_value", "add_one"}
RemoveMethods == {"remove_one", "remove_multiple"}

\* The dictionary that the entries E make of o; a value that is not told is none.
ReadExtras(E, o) ==
    LET added == {e \in E : e.method \in AddMethods}
        changed == {e \in E : e.method \notin AddMethods \cup RemoveMethods}
        ValueIn(e, k) == IF k \in DOMAIN e.values THEN e.values[k] ELSE None
    IN
    [k \in (DOMAIN o \ Keys(E, RemoveMethods)) \cup Keys(E, AddMethods) |->
       IF \E e \in added : k \in e.keys
       THEN ValueIn(CHOOSE e \in added : k \in e.keys, k)
       ELSE IF \E e \in changed : e.key = k
            THEN (CHOOSE e \in changed : e.key = k).new ELSE o[k]]

Agree(d, e) == DOMAIN d = DOMAIN e /\ \A k \in DOMAIN d : Same(d[k], e[k])

\* The value that the entries E, at most one, make of v.
ReadValue(E, v) == IF E = {} THEN v ELSE (CHOOSE e \in E : TRUE).new

\* The summary tells everything but the new url of a resource: whoever knows
\* the old version and reads the summary knows the new one (fields, tags,
\* extras, which resources there are, and of those there were the name, the
\* format, the description and the extras), and which resources have another
\* url; no value and an empty one are the same to him.
SummaryTellsAll ==
    LET S == Summary(old, new)
        Res == {e \in S : "resource" \in DOMAIN e}
        Of(id) == {e \in Res : e.resource = id}
    IN
    /\ \A f \in Fields :
         Same(ReadValue({e \in About(S, "field") : e.key = f}, old.fields[f]),
              new.fields[f])
    /\ new.tags = (old.tags \ Keys(About(S, "tags"), RemoveMethods))
                    \cup Keys(About(S, "tags"), AddMethods)
    /\ Agree(ReadExtras(About(S, "extra_fields"), old.extras), new.extras)
    /\ \A f \in DOMAIN old.extension \cap DOMAIN new.extension :
         new.extension[f] =
           LET E == {e \in About(S, "extension_fields") : e.key = f}
           IN  IF E = {} THEN old.extension[f] ELSE (CHOOSE e \in E : TRUE).new
    /\ DOMAIN new.resources =
         (DOMAIN old.resources \ {e.resource : e \in About(S, "delete_resource")})
           \cup {e.resource : e \in About(S, "new_resource")}
    /\ \A id \in DOMAIN old.resources \cap DOMAIN new.resources :
         /\ \A f \in {"name", "format", "description"} :
              Same(ReadValue(About(Of(id), f), old.resources[id][f]),
                   new.resources[id][f])
         /\ About(Of(id), "url") = {} <=> old.resources[id].url = new.resources[id].url
         /\ Agree(ReadExtras({e.entry : e \in About(Of(id), "resource_extras")},
                             old.resources[id].extras),
                  new.resources[id].extras)
=============================================================================
