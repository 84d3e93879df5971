-------------------------------- MODULE Tags --------------------------------
(***************************************************************************)
(* Tags of datasets.  A tag is free or belongs to a vocabulary.  A tag of  *)
(* a vocabulary is unique by a constraint of the table; a free one is not, *)
(* as its vocabulary is NULL: whoever saves a dataset looks for the row of *)
(* each of its tags and inserts those that he has not found.  A row stays  *)
(* when nothing uses it, and so does the row that links a dataset to a tag *)
(* it does not have any more.  The search index names a vocabulary by its  *)
(* name, which may change.                                                 *)
(***************************************************************************)
EXTENDS Naturals, FiniteSets, FiniteSetsExt

CONSTANTS
    Workers,      \* requests that are served at the same time
    Datasets,
    Names,        \* names of tags
    Vocabularies,
    Labels,       \* names of vocabularies
    Free,         \* no vocabulary
    MayRename,    \* vocabularies are renamed
    MaxTags       \* bound: rows of tags

Ids == 1..MaxTags
None == "none"

VARIABLES
    label,        \* label[v]: the name of vocabulary v, if it exists
    tag,          \* tag[i]: row i of the tags
    link,         \* link[d, i]: the row that links d to tag i
    deleted,      \* the datasets that are deleted
    index,        \* index[d]: the tags of d in the search index
    job           \* job[w]: what w has read

vars == <<label, tag, link, deleted, index, job>>

Place == Vocabularies \cup {Free}
Tag == [name : Names, vocab : Place]
NoTag == [name |-> None, vocab |-> Free]
Idle == [ds |-> None, tags |-> {}, seen |-> {}]

TypeOK ==
    /\ label \in [Vocabularies -> Labels \cup {None}]
    /\ tag \in [Ids -> Tag \cup {NoTag}]
    /\ link \in [Datasets \X Ids -> {"none", "active", "deleted"}]
    /\ deleted \subseteq Datasets
    /\ \A d \in Datasets : index[d] \subseteq Names \X (Labels \cup {Free})
    /\ \A w \in Workers : job[w].tags \subseteq Tag /\ job[w].seen \subseteq Ids

Init ==
    /\ label = [v \in Vocabularies |-> None]
    /\ tag = [i \in Ids |-> NoTag]
    /\ link = [x \in Datasets \X Ids |-> "none"]
    /\ deleted = {}
    /\ index = [d \in Datasets |-> {}]
    /\ job = [w \in Workers |-> Idle]

-----------------------------------------------------------------------------
Rows == {i \in Ids : tag[i] # NoTag}

\* table_dict_save: one row with the name and the vocabulary, if there is one.
RowsOf(t) == {i \in Rows : tag[i] = t}

Tagged(L, d) == {i \in Ids : L[<<d, i>>] = "active"}

\* index_package: tags of vocabularies go to a field with its name; nothing
\* is left of a deleted dataset.
Indexed(T, L, V, D, d) ==
    IF d \in D THEN {}
    ELSE {<<T[i].name, IF T[i].vocab = Free THEN Free ELSE V[T[i].vocab]>> : i \in Tagged(L, d)}

\* Datasets whose links change are indexed again (related_packages).
Reindex(touched) ==
    index' = [d \in Datasets |-> IF d \in touched THEN Indexed(tag', link', label', deleted', d)
                                                  ELSE index[d]]

\* vocabulary_id_exists
Valid(tags) == \A t \in tags : t.vocab \in Vocabularies => label[t.vocab] # None

Fail(w) == job' = [job EXCEPT ![w] = Idle] /\ UNCHANGED <<label, tag, link, deleted, index>>

-----------------------------------------------------------------------------
\* package_update (or package_create) with tags: the rows that are found.
Look(w, d, tags) ==
    /\ job[w] = Idle
    /\ \A x \in Workers : job[x].ds # d
    /\ Valid(tags)
    /\ \E seen \in SUBSET Rows :
         /\ \A t \in tags : Cardinality(seen \cap RowsOf(t)) = Min({1, Cardinality(RowsOf(t))})
         /\ \A i \in seen : tag[i] \in tags
         /\ job' = [job EXCEPT ![w] = [ds |-> d, tags |-> tags, seen |-> seen]]
    /\ UNCHANGED <<label, tag, link, deleted, index>>

\* Mutant of SaveLinks: a link that was deleted stays deleted.
SaveLinksMutant(d, found) ==
    link' = [x \in DOMAIN link |->
                CASE x[1] = d /\ x[2] \in found /\ link[x] = "none" -> "active"
                  [] x[1] = d /\ x[2] \notin found /\ link[x] # "none" -> "deleted"
                  [] OTHER -> link[x]]

\* package_tag_list_save: links that are not in the list are deleted, new
\* ones are added, and old ones come back.
SaveLinks(d, found) ==
    link' = [x \in DOMAIN link |->
                CASE x[1] = d /\ x[2] \in found -> "active"
                  [] x[1] = d /\ x[2] \notin found /\ link[x] # "none" -> "deleted"
                  [] OTHER -> link[x]]

\* The tags that were not found are inserted, unless one of them breaks the
\* constraint, and the rows that were found are linked, if they are still
\* there.  The dataset is indexed if anything has changed.
Save(w) ==
    LET d == job[w].ds
        new == {t \in job[w].tags : ~\E i \in job[w].seen : tag[i] = t}
    IN  /\ d # None
        /\ IF ~ /\ job[w].seen \subseteq Rows
                /\ Valid(job[w].tags)
                /\ \A t \in new : t.vocab = Free \/ RowsOf(t) = {}
           THEN Fail(w)
           ELSE \E ids \in SUBSET (Ids \ Rows) :
                  /\ Cardinality(ids) = Cardinality(new)
                  /\ \A i \in ids : \A j \in Ids \ Rows : j < i => j \in ids
                  /\ \E named \in [ids -> new] :
                       /\ {named[i] : i \in ids} = new
                       /\ tag' = [i \in Ids |-> IF i \in ids THEN named[i] ELSE tag[i]]
                  /\ SaveLinks(d, job[w].seen \cup ids)
                  /\ job' = [job EXCEPT ![w] = Idle]
                  /\ UNCHANGED <<label, deleted>>
                  /\ Reindex(IF link' # link THEN {d} ELSE {})

Quiet == \A w \in Workers : job[w] = Idle

\* package_delete, and a dataset that is made active again.
Delete(d) ==
    /\ Quiet
    /\ deleted' = IF d \in deleted THEN deleted \ {d} ELSE deleted \cup {d}
    /\ UNCHANGED <<label, tag, link, job>>
    /\ Reindex({d})

\* vocabulary_create; tags are given with vocabulary_update here.
VocabularyCreate(v, name) ==
    /\ Quiet
    /\ label[v] = None
    /\ \A u \in Vocabularies : label[u] # name
    /\ label' = [label EXCEPT ![v] = name]
    /\ UNCHANGED <<tag, link, deleted, index, job>>

\* tag_delete (Tag.delete): the row goes with its links.
Without(gone) ==
    /\ tag' = [i \in Ids |-> IF i \in gone THEN NoTag ELSE tag[i]]
    /\ link' = [x \in DOMAIN link |-> IF x[2] \in gone THEN "none" ELSE link[x]]

Linked(gone) == {d \in Datasets : \E i \in gone : link[<<d, i>>] # "none"}

\* vocabulary_update, the tags: those that are not in the list are deleted,
\* with their links, and new ones are added.
VocabularyTags(v, names) ==
    LET gone == {i \in Rows : tag[i].vocab = v /\ tag[i].name \notin names}
        new == {n \in names : RowsOf([name |-> n, vocab |-> v]) = {}}
        free == Ids \ (Rows \ gone)
    IN  /\ Quiet
        /\ label[v] # None
        /\ \E ids \in SUBSET free :
             /\ Cardinality(ids) = Cardinality(new)
             /\ \A i \in ids : \A j \in free : j < i => j \in ids
             /\ \E named \in [ids -> new] :
                  /\ {named[i] : i \in ids} = new
                  /\ tag' = [i \in Ids |-> CASE i \in ids -> [name |-> named[i], vocab |-> v]
                                             [] i \in gone \ ids -> NoTag
                                             [] OTHER -> tag[i]]
        /\ link' = [x \in DOMAIN link |-> IF x[2] \in gone THEN "none" ELSE link[x]]
        /\ UNCHANGED <<label, deleted, job>>
        /\ Reindex(Linked(gone))

\* vocabulary_update, the name.
Rename(v, name) ==
    /\ MayRename
    /\ Quiet
    /\ label[v] # None
    /\ \A u \in Vocabularies : label[u] # name
    /\ label' = [label EXCEPT ![v] = name]
    /\ UNCHANGED <<tag, link, deleted, index, job>>

\* vocabulary_delete; the tags keep it from being deleted.
VocabularyDelete(v) ==
    /\ Quiet
    /\ label[v] # None
    /\ \A i \in Rows : tag[i].vocab # v
    /\ label' = [label EXCEPT ![v] = None]
    /\ UNCHANGED <<tag, link, deleted, index, job>>

\* tag_create: for a vocabulary, once.
TagCreate(v, name) ==
    LET t == [name |-> name, vocab |-> v]
    IN  /\ Quiet
        /\ label[v] # None
        /\ RowsOf(t) = {}
        /\ \E i \in Ids \ Rows :
             /\ \A j \in Ids \ Rows : i <= j
             /\ tag' = [tag EXCEPT ![i] = t]
        /\ UNCHANGED <<label, link, deleted, index, job>>

\* tag_delete: one row with the name.
TagDelete(t) ==
    /\ Quiet
    /\ UNCHANGED <<label, deleted, job>>
    /\ \E i \in RowsOf(t) : Without({i}) /\ Reindex(Linked({i}))

Sysadmin ==
    \/ \E v \in Vocabularies : \/ \E n \in Labels : VocabularyCreate(v, n) \/ Rename(v, n)
                               \/ \E names \in SUBSET Names : VocabularyTags(v, names)
                               \/ \E n \in Names : TagCreate(v, n)
                               \/ VocabularyDelete(v)
    \/ \E t \in Tag : TagDelete(t)

Next ==
    \/ \E w \in Workers : \/ \E d \in Datasets, tags \in SUBSET Tag : Look(w, d, tags)
                          \/ Save(w)
    \/ \E d \in Datasets : Delete(d)
    \/ Sysadmin

Spec == Init /\ [][Next]_vars

-----------------------------------------------------------------------------
\* A search by a tag, free or of a vocabulary, finds the datasets that have
\* it (index_package, related_packages).
IndexTagsCurrent ==
    \A d \in Datasets : index[d] = Indexed(tag, link, label, deleted, d)

\* A free tag that is looked up by its name gives every dataset that has a
\* tag of that name (Tag.by_name).
TagFindsAll ==
    \A n \in Names : Cardinality(RowsOf([name |-> n, vocab |-> Free])) <= 1

\* A dataset has the tags that it was saved with (package_tag_list_save).
SavesTags ==
    \A w \in Workers :
        LET d == job[w].ds
        IN  d # None /\ job'[w] = Idle /\ (link' # link \/ tag' # tag) =>
              {tag'[i] : i \in Tagged(link', d)} = job[w].tags
=============================================================================
