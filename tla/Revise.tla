------------------------------- MODULE Revise -------------------------------
(***************************************************************************)
(* package_revise: one request that says what a dataset must look like,    *)
(* what to take out of it, what to put into it and what to answer.  It     *)
(* holds the row's lock from the first look to the commit, so that one     *)
(* request is one step.  Parts of the dataset are named by paths: of a     *)
(* field, or of the resources, one of them (by its position, which may be  *)
(* negative, or by the first characters of its id) and a field of it.      *)
(***************************************************************************)
EXTENDS Integers, Sequences, FiniteSets, SequencesExt, Folds, Functions

CONSTANTS
    Old, New,       \* texts
    Null,           \* None, and what is left of a field that is taken out
    NotAList,       \* a value that is no list
    Refused,        \* the answer of a request that failed
    NoRequest,
    FirstId, SecondId, NewId,   \* ids of resources
    Items,          \* how the patterns of filters name resources,
    Inside,         \* and resources of which they name a field
    MaxPatterns, MaxResources

VARIABLES
    notes, url,     \* fields of the dataset
    resources,      \* its list of resources
    request,        \* the request that is to be served
    answer          \* what the last one answered

vars == <<notes, url, resources, request, answer>>

Texts == {Old, New}
Resource == [id : {FirstId, SecondId, NewId}, description : Texts \cup {Null}]

\* Positions and ids as they are written in a path, and what they stand for.
Positions == [p \in {"0", "1", "-1", "-2"} |->
                 CASE p = "0" -> 0 [] p = "1" -> 1 [] p = "-1" -> -1 [] OTHER -> -2]
Ids == [p \in {"first", "second"} |-> IF p = "first" THEN FirstId ELSE SecondId]

Pattern(keep, path) == [keep |-> keep, path |-> path]
Change(path, value) == [path |-> path, value |-> value]

-----------------------------------------------------------------------------
(* Paths                                                                   *)

NoKey == 99     \* raised: DataError

\* resolve_string_key, of a key in the list l: the index as it is written, so
\* that negative ones stay negative.  Ids are looked for in items that all
\* have one up to the one that is found.
IndexOf(l, k) ==
    IF k \in DOMAIN Ids THEN
        LET found == {i \in DOMAIN l : "id" \in DOMAIN l[i] /\ l[i].id = Ids[k]
                                       /\ \A j \in 1..i : "id" \in DOMAIN l[j]}
        IN  IF found = {} THEN NoKey ELSE (CHOOSE i \in found : \A j \in found : i <= j) - 1
    ELSE IF k \in DOMAIN Positions /\ -Len(l) <= Positions[k] /\ Positions[k] < Len(l)
         THEN Positions[k] ELSE NoKey

\* The position in TLA+ of an index.
At(l, i) == IF i < 0 THEN Len(l) + i + 1 ELSE i + 1

-----------------------------------------------------------------------------
(* filter_glob_match: the keys of a level are matched with the heads of    *)
(* the patterns, one pattern after another.                                *)

Without(d, K) == Restrict(d, DOMAIN d \ K)

\* The patterns on the level of a dict: a star stands for all keys, whatever
\* follows it.  Patterns for what lies below a key are kept for later, if the
\* key is there when they are read.
Sifted(d, globs) ==
    LET step(s, g) ==
            LET head == Head(g.path)
                K == IF head = "*" THEN DOMAIN s.data ELSE {head}
            IN  IF head # "*" /\ head \notin DOMAIN s.data THEN s
                ELSE IF head # "*" /\ Len(g.path) > 1 THEN
                    [s EXCEPT !.below = Append(@, Pattern(g.keep, Tail(g.path)))]
                ELSE IF g.keep THEN [s EXCEPT !.protected = Restrict(s.data, K) @@ @]
                ELSE [s EXCEPT !.data = Without(@, K)]
    IN  FoldLeft(step, [data |-> d, protected |-> <<>>, below |-> <<>>], globs)

FilterKeys(d, globs) == Sifted(d, globs).protected @@ Sifted(d, globs).data

\* On the level of a list the values of an item are filtered each time that
\* another pattern has been read.
FilterList(l, globs) ==
    LET indices == 0..Len(l) - 1
        step(s, g) ==
            LET head == Head(g.path)
                i == IndexOf(s.data, head)
                t == IF head = "*" THEN
                        IF g.keep THEN [s EXCEPT !.protected = @ \cup (indices \ s.removed)]
                        ELSE [s EXCEPT !.removed = @ \cup (indices \ s.protected)]
                     ELSE IF i = NoKey THEN s
                     ELSE IF Len(g.path) > 1 THEN
                        [s EXCEPT !.children = Append(@, [at |-> i, glob |-> Pattern(g.keep, Tail(g.path))])]
                     ELSE IF g.keep THEN
                        [s EXCEPT !.protected = IF i \in s.removed THEN @ ELSE @ \cup {i}]
                     ELSE [s EXCEPT !.removed = IF i \in s.protected THEN @ ELSE @ \cup {i}]
                of(i_) == LET c == SelectSeq(t.children, LAMBDA x : x.at = i_)
                          IN  [j \in DOMAIN c |-> c[j].glob]
                heads == {t.children[j].at : j \in DOMAIN t.children} \ (t.removed \ t.protected)
            IN  IF head = "*" \/ i = NoKey THEN t
                ELSE [t EXCEPT !.data =
                        [j \in DOMAIN @ |->
                            LET mine == {h \in heads : At(l, h) = j}
                            IN  IF mine = {} THEN @[j]
                                ELSE FilterKeys(@[j], of(CHOOSE h \in mine : TRUE))]]
        end == FoldLeft(step, [data |-> l, protected |-> {}, removed |-> {}, children |-> <<>>], globs)
        left == SelectSeq([j \in DOMAIN l |-> j],
                          LAMBDA j : j - 1 \notin end.removed \ end.protected)
    IN  [j \in DOMAIN left |-> end.data[left[j]]]

\* The dataset after its filter; only the resources have something below.
Filtered(d, globs) ==
    LET kept == FilterKeys(d, globs)
        below == Sifted(d, globs).below
    IN  IF "resources" \notin DOMAIN kept \/ below = <<>> THEN kept
        ELSE [kept EXCEPT !.resources = FilterList(@, below)]

\* The answer is a dict with the dataset under 'package', and the filter is
\* read from there: patterns for fields of the dataset begin with 'package'.
Answered(d, globs) ==
    LET whole == [package |-> d]
        kept == FilterKeys(whole, globs)
        below == Sifted(whole, globs).below
    IN  IF "package" \notin DOMAIN kept \/ below = <<>> THEN kept
        ELSE [package |-> Filtered(d, below)]

-----------------------------------------------------------------------------
(* update_merge_dict, update_merge_list and update_merge_string_key        *)

MergeItem(r, u) == u @@ r

MergeList(l, u) ==
    [i \in 1..(IF Len(u) > Len(l) THEN Len(u) ELSE Len(l)) |->
        IF i > Len(l) THEN u[i] ELSE IF i > Len(u) THEN l[i] ELSE MergeItem(l[i], u[i])]

\* A list takes only a list.
Merge(d, u) ==
    IF "resources" \in DOMAIN u /\ "resources" \in DOMAIN d
    THEN IF u.resources = NotAList THEN Refused
         ELSE [u @@ d EXCEPT !.resources = MergeList(d.resources, u.resources)]
    ELSE u @@ d

\* Mutant of MergeKey: the item at a position is replaced.
MergeKeyReplaces(d, c) ==
    IF Len(c.path) = 1 THEN Merge(d, Head(c.path) :> c.value)
    ELSE IF c.path[2] = "extend" THEN [d EXCEPT !.resources = @ \o c.value]
    ELSE LET i == IndexOf(d.resources, c.path[2])
         IN  IF i = NoKey \/ c.value = NotAList THEN Refused
             ELSE [d EXCEPT !.resources[At(d.resources, i)] =
                     IF Len(c.path) = 2 THEN c.value ELSE c.path[3] :> c.value]

\* One change with a path.
MergeKey(d, c) ==
    IF Len(c.path) = 1 THEN Merge(d, Head(c.path) :> c.value)
    ELSE IF "resources" \notin DOMAIN d THEN Refused
    ELSE LET l == d.resources IN
         IF c.path[2] = "extend" THEN
            IF c.value = NotAList THEN Refused ELSE [d EXCEPT !.resources = l \o c.value]
         ELSE LET i == IndexOf(l, c.path[2])
                  u == IF Len(c.path) = 2 THEN c.value ELSE c.path[3] :> c.value
              IN  IF i = NoKey \/ u = NotAList THEN Refused
                  ELSE [d EXCEPT !.resources[At(l, i)] = MergeItem(@, u)]

\* Lists are extended before their items are changed, so that a change may
\* name a new item.
Extends(c) == Last(c.path) = "extend"
InOrder(changes) ==
    SelectSeq(changes, LAMBDA c : Extends(c)) \o SelectSeq(changes, LAMBDA c : ~Extends(c))

MergeKeys(d, changes) ==
    FoldLeft(LAMBDA e, c : IF e = Refused THEN Refused ELSE MergeKey(e, c), d, InOrder(changes))

-----------------------------------------------------------------------------
(* Matching: check_dict, check_list and check_string_key                   *)

Shown == [notes |-> notes, url |-> url, resources |-> resources]

MatchesItem(r, m) == \A f \in DOMAIN m : f \in DOMAIN r /\ r[f] = m[f]

Matches(d, m) ==
    \A f \in DOMAIN m :
        IF f # "resources" THEN d[f] = m[f]
        ELSE \A i \in DOMAIN m.resources :
                i <= Len(d.resources) /\ MatchesItem(d.resources[i], m.resources[i])

MatchesKey(d, c) ==
    IF Len(c.path) = 1 THEN Matches(d, Head(c.path) :> c.value)
    ELSE LET i == IndexOf(d.resources, c.path[2])
         IN  i # NoKey /\ MatchesItem(d.resources[At(d.resources, i)], c.path[3] :> c.value)

-----------------------------------------------------------------------------
(* The update that saves what was revised.  Fields that are not there are  *)
(* cleared; without a list of resources they stay.  Resources with no id   *)
(* of the dataset's get a new one.                                         *)

Saved(r) == [id |-> IF "id" \in DOMAIN r /\ r.id # Null THEN r.id ELSE NewId,
             description |-> IF "description" \in DOMAIN r THEN r.description ELSE Null]

Field(d, f) == IF f \in DOMAIN d THEN d[f] ELSE Null

\* What the request makes of the dataset, or Refused.
Revised(q) ==
    IF ~Matches(Shown, q.match) \/ \E j \in DOMAIN q.matches : ~MatchesKey(Shown, q.matches[j])
    THEN Refused
    ELSE LET filtered == IF q.filter = <<>> THEN Shown ELSE Filtered(Shown, q.filter)
             merged == Merge(filtered, q.update)
         IN  IF merged = Refused THEN Refused ELSE MergeKeys(merged, q.changes)

-----------------------------------------------------------------------------
(* Requests: those that filter, and those that match and change.           *)

Request(m, ms, f, u, c, i) ==
    [match |-> m, matches |-> ms, filter |-> f, update |-> u, changes |-> c, include |-> i]

Updates ==
    {<<>>, [notes |-> New], [resources |-> NotAList],
     [resources |-> <<[description |-> New]>>],
     [url |-> Old, resources |-> <<<<>>, [description |-> New]>>]}

Changes ==
    {<<>>, <<Change(<<"notes">>, Old)>>,
     <<Change(<<"resources", "-1", "description">>, New)>>,
     <<Change(<<"resources", "second">>, [description |-> New])>>,
     <<Change(<<"resources", "first">>, NotAList)>>,
     <<Change(<<"resources", "0", "description">>, New),
       Change(<<"resources", "extend">>, <<[description |-> New]>>)>>,
     <<Change(<<"resources", "-1">>, [description |-> New]),
       Change(<<"resources", "extend">>, <<[id |-> NewId]>>),
       Change(<<"url">>, Old)>>}

Matchers ==
    {<<>>, [notes |-> Old], [resources |-> <<[id |-> FirstId], [description |-> New]>>]}

KeyMatchers ==
    {<<>>, <<Change(<<"url">>, Old)>>, <<Change(<<"resources", "-1", "description">>, New)>>,
     <<Change(<<"resources", "second", "id">>, SecondId), Change(<<"notes">>, New)>>}

\* What of the dataset is to be answered: all; as the docstring of the request
\* has it, the notes; the notes; all but its resources.
Includes ==
    {<<>>,
     <<Pattern(TRUE, <<"notes">>), Pattern(FALSE, <<"*">>)>>,
     <<Pattern(TRUE, <<"package", "notes">>), Pattern(FALSE, <<"package", "*">>)>>,
     <<Pattern(TRUE, <<"package">>), Pattern(FALSE, <<"package", "resources">>), Pattern(FALSE, <<"*">>)>>}

Init ==
    /\ notes = Old /\ url = Old
    /\ resources = <<[id |-> FirstId, description |-> Old], [id |-> SecondId, description |-> New]>>
    /\ request = NoRequest /\ answer = Refused

\* A star stands for the whole of what it names.
Patterns ==
    {Pattern(keep, path) :
        keep \in BOOLEAN,
        path \in {<<"*">>, <<"url">>, <<"resources">>}
                 \cup {<<"resources", i>> : i \in Items}
                 \cup {<<"resources", i, f>> : i \in Inside, f \in {"*", "id"}}}

Filters == UNION {[1..n -> Patterns] : n \in 1..MaxPatterns}

Kept(d) ==
    IF d = Refused \/ "resources" \notin DOMAIN d THEN resources
    ELSE [i \in DOMAIN d.resources |-> Saved(d.resources[i])]

\* What is revised is saved as d, with this list of resources.
Save(d, list) ==
    /\ Len(list) <= MaxResources
    /\ Cardinality({i \in DOMAIN list : list[i].id = NewId}) <= 1
    /\ IF d = Refused
       THEN answer' = Refused /\ UNCHANGED <<notes, url, resources>>
       ELSE /\ notes' = Field(d, "notes") /\ url' = Field(d, "url")
            /\ resources' = list
            /\ answer' = Answered([notes |-> notes', url |-> url', resources |-> resources'],
                                  request.include)

package_revise ==
    /\ request # NoRequest
    /\ request' = NoRequest
    /\ \E d \in {Revised(request)} : \E list \in {Kept(d)} : Save(d, list)

Ask(q) ==
    /\ request = NoRequest
    /\ request' = q /\ answer' = Refused
    /\ UNCHANGED <<notes, url, resources>>

Next ==
    \/ package_revise
    \/ Len(resources) < MaxResources /\ \E f \in Filters : Ask(Request(<<>>, <<>>, f, <<>>, <<>>, <<>>))
    \/ \E m \in Matchers, k \in KeyMatchers, u \in Updates, c \in Changes, i \in Includes :
          /\ u = <<>> \/ c = <<>>
          /\ i # <<>> => m = <<>> /\ k = <<>>
          /\ Ask(Request(m, k, <<>>, u, c, i))

Spec == Init /\ [][Next]_vars

TypeOK ==
    /\ {notes, url} \subseteq Texts \cup {Null}
    /\ resources \in SeqOf(Resource, MaxResources)

-----------------------------------------------------------------------------
(* Reference: what a filter means.  A path is the list of its keys, those  *)
(* of items by their position in the list.                                 *)

Names(g, path) ==
    Len(g.path) = Len(path) /\ \A j \in DOMAIN path :
        IF j = 2 THEN \/ g.path[2] = "*"
                      \/ /\ IndexOf(resources, g.path[2]) # NoKey
                         /\ At(resources, IndexOf(resources, g.path[2])) = path[2]
        ELSE g.path[j] \in {"*", path[j]}

\* The first pattern that names a path says whether it is taken out.
TakenOut(f, path) ==
    \E j \in DOMAIN f : /\ Names(f[j], path) /\ ~f[j].keep
                        /\ \A i \in 1..j - 1 : ~Names(f[i], path)

Expected(f) ==
    LET list == SelectSeq([i \in DOMAIN resources |-> i],
                          LAMBDA i : ~TakenOut(f, <<"resources", i>>))
        gone(i, x) == TakenOut(f, <<"resources", i, x>>)
    IN  IF TakenOut(f, <<"resources">>) THEN resources
        ELSE [k \in DOMAIN list |->
                [id |-> IF gone(list[k], "id") THEN NewId ELSE resources[list[k]].id,
                 description |-> IF gone(list[k], "description") THEN Null
                                 ELSE resources[list[k]].description]]

\* The same of the answer, whose paths begin with 'package'.
Hidden(f, path) ==
    \E j \in DOMAIN f :
        LET is(g) == Len(g.path) = Len(path)
                     /\ \A k \in DOMAIN path : g.path[k] \in {"*", path[k]}
        IN  is(f[j]) /\ ~f[j].keep /\ \A i \in 1..j - 1 : ~is(f[i])

Asked(f, d) ==
    IF Hidden(f, <<"package">>) THEN <<>>
    ELSE [package |-> Restrict(d, {x \in DOMAIN d : ~Hidden(f, <<"package", x>>)})]

Filtering == request.filter # <<>>
Served == request # NoRequest

\* A filter takes out what its patterns name first with a minus, and nothing
\* else.
FilterStep ==
    Served /\ Filtering =>
        /\ url' = IF TakenOut(request.filter, <<"url">>) THEN Null ELSE url
        /\ resources' = Expected(request.filter)

\* A request whose match fails, or one of whose changes does, changes
\* nothing; one that is served found all that it asked to match, put in all
\* that it was told to and left the rest; extended lists have their items; and
\* it answers what it was asked for, with the dataset's fields under 'package'.
ChangeStep ==
    Served /\ ~Filtering =>
        LET q == request
            named == DOMAIN q.update \cup {Head(q.changes[j].path) : j \in DOMAIN q.changes}
        IN  IF answer' = Refused THEN UNCHANGED <<notes, url, resources>>
            ELSE /\ \A f \in DOMAIN q.match : f # "resources" => Shown[f] = q.match[f]
                 /\ "resources" \in DOMAIN q.match =>
                       Len(resources) >= 2 /\ resources[1].id = FirstId
                 /\ \A j \in DOMAIN q.matches :
                       LET c == q.matches[j] IN
                       /\ Len(c.path) = 1 => Shown[Head(c.path)] = c.value
                       /\ Last(c.path) = "description" => Last(resources).description = c.value
                       /\ Last(c.path) = "id" => \E i \in DOMAIN resources : resources[i].id = c.value
                 /\ "notes" \notin named => notes' = notes
                 /\ "url" \notin named => url' = url
                 /\ "resources" \notin named => resources' = resources
                 /\ \A j \in DOMAIN q.changes :
                       LET c == q.changes[j] IN
                       /\ c.path = <<"notes">> => notes' = c.value
                       /\ c.path = <<"resources", "-1", "description">> =>
                             Last(resources').description = c.value
                       /\ c.path = <<"resources", "-1">> =>
                             Last(resources').description = c.value.description
                 /\ \A i \in DOMAIN resources : resources'[i].id = resources[i].id
                 /\ answer' = Asked(q.include, Shown')
=============================================================================
