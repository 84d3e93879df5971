# A formal model of a CKAN portal

TLA+ specifications, TLC model checks and TLAPS proofs about this repository, a CKAN 2.11
portal (`ckan/`, `ckanext/`). The definitions are translated from the source. `PROJECT.json` maps
each definition to the lines it stands for, and lists the runs, mutants, hazards, findings and
theorems. All paths below are relative to `src/`.

To run: `tlc -workers 2 -config IndexSafe.cfg MCDatasetIndex` for a check,
`tlapm DatasetIndex_proofs.tla` for a proof.

## 1. The system

CKAN is a catalogue. A request is served by one web worker process, in one SQLAlchemy session over
PostgreSQL, which runs *action functions* (`ckan/logic/action/*.py`). Beside the database there are
a Solr index, the DataStore (a second database with the contents of uploaded tables), files on
disk, Redis queues and external services such as the DataPusher. None of these takes part in the
database's transactions; that is where most of the hard behaviour comes from. Some state is in the
memory of each web process (options, and in this portal the roles and the data requests).

| Component | State | Operations | What is hard | What makes it correct |
|---|---|---|---|---|
| Dataset writes and search index (`logic/action`, `lib/search`, `model/modification.py`, `model/meta.py`) | `package`, `resource`, `tag` rows; one Solr document per dataset, with a copy of the dictionary; row locks | create, update, patch, revise, resource update, delete, purge, bulk update, index rebuild, clear, clear-orphans | the index is written before COMMIT; the identity map keeps columns read before a lock; `package_show` answers from the index by timestamp | a patch changes what it names; an answer from the index is the committed content; the index ends up equal to the database; requests end |
| DataPusher (`ckanext/datapusher`) | the file, `last_modified`, the `task_status` row, jobs of an external service, the DataStore table | save (which submits twice), manual submit, hook | check-then-act on the task row; the service answers before, during or after the submitter; workers die; jobs fail | a complete task was made of the current file; one job at a time; a skipped submission has one to rely on; the hook finds its row; tasks end |
| Organization membership (`model/group.py`, `logic/action`) | `member` rows (no unique constraint), `package.owner_org`, `group.state` | create, delete, purge organization; update, delete dataset; add, remove user | check-then-insert; organizations are created and purged in two transactions; two identifiers (id and name) | at most one active row per pair; a dataset's row names its owner; nothing outlives an organization; removed means removed |
| Resource list of a dataset (`lib/dictization/model_save.py`, `logic/action`) | ordered resource rows, active, deleted or purged | create, update, delete, reorder a resource; merge of `package_update` | positions read before a lock; unchanged resources copied by position; deleted rows are kept for one update | positions have no gap; a resource leaves the list only on purpose |
| File storage (`lib/uploader.py`), DataStore (`ckanext/datastore`) | files on disk; tables in a second database, with a unique key and serial ids; `datastore_active` | upload; create, delete, purge a table; insert, update, upsert; download | neither takes part in the dataset's transaction; READ COMMITTED; pages by offset | the row describes the file; the flag says whether the table exists; what is committed is there; a download is whole |
| Groups, authorization (`model/group.py`, `authz.py`, `logic/auth`, `lib/plugins.py`) | members, parents, owners, collaborators; permission labels in the index; options | create, change, delete, restore organizations, datasets, memberships, collaborations | the hierarchy may loop; labels in the index against roles in the database; some hundred functions that ask each other | permissions agree from above and below; searches show what may be shown; nobody gets in who was not let in; nobody gives what he has not |
| Accounts (`model/user.py`, `lib/mailer.py`, `views/user.py`) | user rows, reset keys, mails | sign up, invite, change email, delete, request and perform a reset | emails are checked, then saved; a mail fails after its key is saved; the session is removed in a loop | deleted accounts stay deleted; a link works once; every account gets its link |
| Activities, notifications, followers (`ckanext/activity`, `model/follower.py`) | activity rows, follower rows, the times a dashboard was viewed and mailed | emit, follow, view, mail; pages; summaries of changes | activities are stamped, then committed; times are set in other transactions than mails are sent in | no mail twice, no activity missed; pages adjoin; a summary tells the whole change |
| Page view tracking (`ckanext/tracking`) | raw views, daily rows with totals, views in the index | view, summarise, rebuild | three transactions a day, and a process that may die between them | counts and totals are exact after every complete run |
| Tags and vocabularies (`model/tag.py`, `model/vocabulary.py`) | tag rows, links to datasets | save, delete, rename | free tags have no constraint that counts; rows that nothing uses stay | a dataset has, and is found by, the tags it was saved with |
| Validation, patches, revisions (`lib/navl`, `logic/schema.py`, `logic/validators.py`, `logic/action/patch.py`, `update.py`) | none | validate; patch; revise | validators rewrite flat keys in order; show and update schemas must fit | what is accepted was sent; a patch changes one field; a revision what it names |
| Lists and forms (`lib/pagination.py`, `lib/search/query.py`, `views/`) | pages in browsers | turn pages; post forms in several tabs | full, empty and cut pages; old forms | whoever turns pages sees all; a form changes what it shows |
| Options (`config/environment.py`, `lib/app_globals.py`, `model/system_info.py`) | `system_info` rows; a copy in each process | update, reset, reload | processes learn of a change by a time | a process with nothing to copy is up to date |
| Portal: data requests, roles (`plugins/veri_istegi.py`, `views/role.py`) | lists in the memory of a process | post, filter, page; give a role | lost at a restart, not shared | readers see all; a user gets the role he is given |
| Plugins, jobs, API tokens, relationships, resource views, CLI, translations | loaded plugins; queues; plain rows | load; enqueue; create, read, delete | order of chained actions | not modelled: see section 8 |

### How the components interact

* `package_update` and the other actions flush the session; `ckan_before_flush` (`model/meta.py`)
  collects the objects, `ckan_before_commit` calls `DomainObjectModificationExtension`, which
  notifies the search plugin and `IResourceUrlChange` observers, **before** COMMIT.
* The DataPusher plugin is such an observer (`notify`) and is called once more after
  `resource_update` has committed (`after_resource_update`). Both call `datapusher_submit`, which
  posts a job to the service; the service fetches the file and calls `datapusher_hook`.
* `package_update` calls `package_owner_org_update` in the same transaction; deletions of
  organizations update `package` and `member` rows in one.
* `organization_create` commits the group, then calls `member_create`, which commits again.

## 2. The modules

| Module | What it is |
|---|---|
| `DatasetStore` | abstract: what `create`, `patch` and `purge` promise, one at a time, all or nothing |
| `DatasetIndex` | rows, row locks, sessions, Solr documents; every step of a write; refines `DatasetStore` |
| `DataPusher` | one resource: file, task row, table, jobs of the service, the workers that save it |
| `Membership` | organizations, owners and member rows; a read step and a write step per request |
| `Resources` | the resources of a dataset: rows and positions, files, tables and flags |
| `Visibility` | organizations and their hierarchy, roles, collaborators, datasets and their labels in the index |
| `Permissions` | the authorization functions, one operator each, and the requests that change what others may do |
| `Accounts` | accounts, emails, invitations and reset links |
| `ActivityStream` | activities, followers, dashboards and mails |
| `ActivityPages` | the pages of a dataset's activity stream and the links between them |
| `DatasetChanges` | pure: the summary of the changes between two versions of a dataset |
| `Followers` | rows of who follows what, and the lists, counts and buttons made of them |
| `Tracking` | page views, their daily summaries and the index |
| `DataStore` | a table: transactions of several statements, and a download of many pages |
| `Tags` | tags, vocabularies and their links to datasets |
| `Validation` | a schema applied to flat data, validator by validator |
| `Patches` | the show and update schemas of datasets, groups and users, field by field |
| `Revise` | `package_revise`: match, filter, update and extend by paths |
| `ListPages` | the pages of searches, groups, users and feeds |
| `WebForms` | the forms of a dataset and its resources in several tabs |
| `SiteConfig` | options that are edited while the site runs |
| `DataRequests`, `PortalRoles` | the portal's own lists |
| `MCDatasetIndex`, `MCDataPusher` | instances for TLC of one module |
| `MCParts`, `MCStreams`, `MCAccess`, `MCSite` | instances for TLC of modules that share no state, one of which runs in each behaviour (`part`) |
| `MCSiteState` | the parts of `MCSite` that have theorems: tables, options, forms, roles, tags, patches |
| `DatasetIndex_proofs` | `TypeOK`, `CacheCoherent`, `PatchLeavesOthers`, `ImplementsStore`, `IndexInSync` |
| `DataPusher_proofs` | `TypeOK`, `HookFindsTask`, `TableIsCurrent` |
| `Membership_proofs` | `TypeOK`, `RowsHaveOrg`; `MembersRight`, `ResourcesRight`, `ResourceNotLost`, for `MCParts` |
| `Visibility_proofs` | `TypeOK`, `HierarchyAgrees`, `DeletedGrantsNothing`, `ReadersAgree`, `NoIntrusion` |
| `Permissions_proofs` | `TypeOK`, `GivesOnlyHis`, `GroupedByMembers`, `WaysAgree` |
| `Accounts_proofs` | `TypeOK`, `AccountsKept`; what is proved of `Visibility` and `Permissions`, for `MCAccess` |
| `Site_proofs` | `TypeOK` and `UpToDate` of `SiteConfig`; `RoleUpdated`, `FormsKept`, `RecordsLand`, `DumpWhole`, `TagsKept`, `PatchesOne`, for `MCSiteState` |
| `Streams_proofs` | `MailedOnce`, `NothingSkipped`, `PagesWhole`, `FollowersAgree`, `SummaryTellsAll`, `ViewsCounted`, `PagesTurned`, `TypesOK`, for `MCStreams` |

`PROJECT.json` says which components these make up, and what is left out of each.

Operators named "Mutant of ..." are defective forms of the definition that follows. No
specification uses them; put in the place of that definition they break the property
`PROJECT.json` names, which shows that the property depends on the code.

### DatasetIndex

A worker's `job` is its session: the request, the package object of the identity map (`obj`), the
dictionary to save (`dict`), what COMMIT will leave (`tx`) and the step it is at.

| Action | Code |
|---|---|
| `Load`, `Lock` | `Package.get`, without and with `for_update` |
| `Prepare` | `package_show` (index or database, `Show`), then the request's changes |
| `Flush`, `FlushCreate`, `FlushDelete`, `FlushPurge` | the `UPDATE`, `INSERT`, `DELETE` and the metadata_modified they set |
| `Index` | `SynchronousSearchPlugin.notify`: the document, from the session's own view |
| `Commit`, `Abort` | COMMIT; an error, or the death of a worker, at any step |
| `BulkUpdate`, `BulkFetch`, `BulkIndex` | `_bulk_update_dataset` |
| `RebuildRemove`, `RebuildInsert`, `Clear`, `FindOrphan`, `ClearOrphan` | `search-index` commands |

A dataset's content is a function of `Columns` (of the package row, kept by the identity map) and
`Parts` (resources, tags: read again on each dictization). That is the distinction the code's
behaviour turns on, so one representative of each kind and the two special columns `state` and
`private` are enough. Solr is taken to show a document once it was added.

### DataPusher

The worker's steps follow a save: `Edit`, `Upload` (the file is replaced), `Notify` (inside the
transaction), `Commit`, `AfterUpdate`; then `Check`, `Mark`, `Post`, `Posted` for a submission, and
`Hook`, `HookWrite` for a call of the service. The task row is written in a session of its own;
a session that has read the row once sees it unchanged (`seen`). The service is external: a job is
queued, fetches the file, loads the table or fails, and reports, as the extension expects of it.

### Membership

A request reads in one step and writes in another, because PostgreSQL's READ COMMITTED isolation
lets others commit in between. What it has read is in `request[w].seen` and `.was`. Only columns
that differ from what was read are written. `.owned` are the datasets a deletion has updated, whose
row locks it holds. `PurgeMembers` and `PurgeGroup`, and `CreateOrg` and `WriteAdd`, are the two
transactions of a purge and of a creation. `byName` says whether a request named its object by name.

### Resources

A request that locks the dataset first (`Create`, `Reorder`, `Update`, `Delete`) reads and writes the
rows while it holds `lock`; `Load` is what `resource_update` and `resource_delete` read before that.
`Package` and `Merge` are `package_update`, which reads twice. `Upload` replaces the file,
`Commit` or `Abort` ends the transaction. `DataStore`, `Table` and `Flag` are the steps of
`datastore_create`; `Drop` is the plugin's `after_resource_delete`; `PurgeTables` the command.
`omitted` remembers the resources that an update left out, `cut` those at which a request died, `claimed` those whose `datastore_active` a client
has sent or, in `package_update`, left out: the code keeps the old value only in `resource_update`, and only if none is sent.

### Visibility

Each action is one authorized request with its whole effect, transactions being short here:
`OrgDelete` also takes the rows, the owner of the datasets and the labels with it. `Above` and `Below` are
the two recursive queries, cut at `MaxRecurses`. `invited` and `exposed` are history: the outsiders
whom an insider let in, and the datasets an insider gave away.

### Accounts

A reset is `RequestReset` (or by name), then `SendKey` and `ResetSent` or `ResetFails` for each
account, then `Perform`, `PerformUpdate`, `Activate`, `Rekey` for who opens the link; an invitation
is `Invite`, `InviteCreate`, `InviteKey` and `InviteSent` or `InviteFails`. `fresh` says whether the
loop's session still exists. `mailed` and `spent` are history.

### Permissions

One dataset, one organization and one group. `GroupPowers`, `DatasetPowers`, `SitePowers` and
`AccountPowers` are what each authorization function lets somebody do; the actions are the requests
that change roles, collaborators, the owner and the groups of the dataset, with the authorization
that they ask for.

### ActivityStream, ActivityPages, DatasetChanges, Tracking

A change of a dataset (`CreatePackage`, ...) commits; then its subscriber stamps an activity (`Emit`)
and commits it (`CommitActivity`). `View` and `MarkOld` are the dashboard page; `Notify`, `NotifyList`,
`NotifyMail`, `NotifyFails`, `NotifySent`, `NotifyEnd` the mailing. Times are a counter. `ActivityPages` follows the
links of the pages while the stream grows; `DatasetChanges` compares any two of a set of versions;
`Tracking` has one action for each transaction of the command, and `Tick` for midnight.
`Followers` keeps the rows of the three tables when what is followed is deleted.

### DataStore

`Begin`, `ReadSchema`, `Update`, `Insert`, `Unblock`, `Commit` and `Abort` are the statements of a
transaction of `datastore_upsert`; each sees what was committed when it began. `KeyLocked` and
`RowLocked` are PostgreSQL's locks. `Create`, `DeleteRows` and `Drop` are requests of one step.
`Dump` and `DumpPage` are the download, a search for each page.

### Tags, Validation, Patches, Revise

`Tags`: `Look` finds the rows of the tags to be saved, `Save` inserts the others and links them; the
other actions are the vocabulary and tag requests. `Validation`: an action is one kind of validator (`Require`, `Ignore`, `FillIn`, ...), run for the next
key; `Augmented` puts the keys that the schema does not name under `__extras` and `__junk`, which are keys like others, with validators if the schema
has them; `PutBack` is `keep_extras`, and `Fail` an error that nobody catches. `Patches`: a row
is shown through one schema and sent back through another (`Patch`), or sent in part (`UpdateWith`); `After` is one validator of a
field, `Run` all of them, which are four at most (`FourAtMost`, an assumption that TLC evaluates).
`Revise`: a request is one step, since it holds the lock throughout; its `answer` is what `include` leaves of `{'package': ...}` (`Answered`).

### ListPages, WebForms, SiteConfig, DataRequests, PortalRoles

`ListPages`: `Open`, `GoTo`, `GoOn` follow the links of a list that may grow or shrink (`Change`).
`WebForms`: tabs render (`NewPage`, `EditPage`, ...) and post (`PostNew`, `PostEdit`,
`PostResource`, ...); `ReadBack` and `Publish` are the two ends of publishing. `SiteConfig`:
`Request` compares the time, `Reload` copies option by option, `Update` writes option by option and
the time at last. `DataRequests` and `PortalRoles`: one action for each view. The sorted list of data requests is the `Rank`
of each, that is how many come `Before` it; a role in an organization is given in up to three transactions (`RemoveMember`, `Promote` or `Denied`, `AddMember`).

## 3. What the runs check

| Run | Instance | Shows |
|---|---|---|
| `index_safe` | 2 workers, 1 dataset, 3 requests, aborts, `SafeKinds` | patches and purges that lock first, creations, rebuilds, clears and clear-orphans: no patch loses another's (`PatchLeavesOthers`), the index is answered from only if it agrees (`CacheCoherent`), the abstract store is implemented (`ImplementsStore`), `TypeOK` |
| `index_in_sync` | 2 workers, 3 requests, no aborts, all kinds but clear; those that do not lock first run alone | with nothing under way the index equals the database (`IndexInSync`); fair requests end (`RequestsEnd`) |
| `pusher` | 1 worker, 3 edits, 5 jobs, 1 manual submission, jobs fail; or 2 workers, 1 edit, 2 jobs, workers die and time out, tasks age | alone: `TableIsCurrent`, and `TaskEnds` under fairness, while the worker's steps interleave with the service's; racing: `HookFindsTask`; `TypeOK` |
| `pusher_stuck` | 2 workers, 1 edit | **violation** of `SkipsOnlyPending`, see 5 |
| `parts` | members: 1 worker, 1 user, 1 dataset, 2 organizations, 6 requests; or 2 workers, 1 organization, 4 requests, workers die. Resources: 1 worker, 3 resources, all kinds; or 2 workers, 2 of the resources, uploads; workers die | `MembersRight` for requests one after another, `RowsHaveOrg` for racing ones, `TypeOK`; `ResourcesRight` and `ResourceNotLost` for both, tables only for one after another |
| `resource_tables` | 1 worker, 2 resources | **violation** of `TablesOwned`, see 5 |
| `streams` | activities: 1 or 2 workers, an actor, a reader, a dataset, a group; pages of 2 of up to 8 activities; some 60 versions; 2 users who follow; 4 days, 2 views; lists of up to 8 items in pages of 2; 5 data requests in 4 days | `MailedOnce` racing and with deaths, `NothingSkipped` one after another; `PagesWhole`; `SummaryTellsAll`; `FollowersAgree`; `ViewsCounted`; `PagesTurned`; `TypesOK` |
| `access` | accounts: 2 processes, 2 accounts with one email, 3 keys; hierarchy: 4 organizations, 1 user; datasets: 1 dataset, 2 organizations, an insider and an outsider; authorization: 2 users, every option that opens something | `AccountsKept`; `HierarchyAgrees`; `ReadersAgree`, `NoIntrusion`; `GivesHisOwn`; `TypesOK` |
| `account_links` | 1 process, 2 accounts with one email | **violation** of `LinksSaved`, see 5 |
| `site` | a table of 4 rows, 2 keys, 3 requests, one at a time beside a download, or 2 racing; 2 datasets with up to 2 rows of tags, 2 names (1 in a race), 1 vocabulary; schemas of fields and of 2 items; patches of 1 field and updates of 2; revisions of up to 3 resources; 2 processes with 2 options; 2 tabs; 2 users' roles | `DumpWhole`, `RecordsLand`; `TagsKept`; `Validated`; `PatchesOne`; `RevisedExactly`; `UpToDate`; `FormsKept`; `RoleUpdated`; `TypesOK` |
| `private_owned` | a site whose datasets need no organization | **violation** of `PrivateOwned`, see 5 |
| `followees_counted` | 2 users, a dataset, a group, an organization | **violation** of `FolloweesCounted`, see 5 |

### The bounds, and why they are enough

* *Workers, tabs, processes.* Each hazard here is between two actors (a writer and a stale reader; a
  submitter and the hook; a mailer and a dashboard; two forms), so two suffice; the proofs hold for any number.
* *Datasets, users, the resource.* The code locks, indexes and joins one object at a time. One
  dataset makes all requests collide.
* *Requests* (`MaxRequests`, `MaxEdits`, `MaxJobs`, `MaxManual`). Three requests allow two
  concurrent writers and a third that meets what they leave. Six membership requests allow an
  organization to be made, given a dataset, deleted, and the dataset or user to come back. Five
  jobs allow each of three edits its submissions and a resubmission by the hook.
* *Rows* (`MaxRows`, `FewRows`). One row at most is inserted by a request, so the bound is that of the requests.
* *Resources.* Three may be reordered so that the position of one is that of another before; two are
  enough for races, of which `MaxVersion` (uploads) needs one on each side of a failure.
* *Organizations.* Four allow a chain with a deleted link, and a loop. `MaxRecurses = 1` is
  shorter than the chain, so that the cut of the recursion happens.
* *Keys, times, days, views, pages.* Three keys: an invitation, a reset and the key that replaces it.
  Three times: an activity, a mail or view, another. Four days are more than the two that
  a run goes back. Eight activities, and eight items of a list, are more than three pages of two, with the limits apart.
  Four ticks of the options' clock: two updates, each with its beginning and its end.
* *Patterns, fields.* Two patterns that may name the same part in the order that matters; two changed fields, of which
  one may depend on the other.
* *Values.* Two: a value, and another; where blanks matter, no value and an empty one too.
* *Symmetry* (`access`). Processes are alike, and so are two of the four organizations, whose names no
  definition compares. The run has no liveness property.
* `CHECK_DEADLOCK FALSE`: when the bounds are used up the system has nothing left to do.

### Where the properties stop

Some properties are checked for requests that are served one after another, because with two
they fail: the code checks and then acts without a lock. Others stop at a limit of the code.

* `IndexInSync` with `"rebuild"`: a rebuild writes a dictionary that it read before a commit. With
  `"clear_orphans"`: a creation that has indexed its dataset commits after it was taken for an orphan.
  With `"bulk"`: `_bulk_update_dataset` commits before it indexes, with an unchanged metadata_modified, and a
  patch in between takes the indexed dictionary for current and undoes it (`PatchLeavesOthers`). With `"resource"`:
  `resource_update` reads `resource.package` before `package_show` takes the row lock; the identity map
  keeps the older columns, and saving writes them over a patch that was committed meanwhile.
* Two updates that load the same row each write the columns they change.
* `OneJob`: two submissions both find no pending task. `CompleteIsCurrent`: an edit comes between
  the hook's read of the resource and its write of the task. With `MayStop` a submission that dies or
  times out leaves the task "submitting" until somebody submits by hand.
* `MembersRight`: two additions insert two rows, a removal deletes one; a dataset arrives between the
  count and the deletion; a worker dies between the two transactions of a creation. By name,
  `_group_or_org_delete` finds no rows and leaves the members active. `MemberIsOwner` says that an active row names
  the owner, not that there is one: a deleted row keeps `package_owner_org_update` from adding another when the dataset comes back.
* `ResourcesRight`: a client that sends `datastore_active` decides it (`update.py:102`, `model_save.py:56`; `test_update.py:999` asserts it), and
  so does one that calls `package_update` without it. A flag that a client has changed tells nothing of the table until the DataStore sets it again: such resources
  (`claimed`) are excepted. In the run clients claim one resource, which is also the one that requests die at; the race has no claims, since it compares no tables.
* `Resources`: `package_update` does not lock the row before it reads, so racing it breaks
  `Numbered`; `resource_update` writes `datastore_active` as it was when it read it; the file of a request that died after its upload
  is not the one the row describes (`cut`).
* `AccountsKept`: a reset that is performed while the account is deleted makes a pending account active
  again, and two that verified the same link both set a password.
  An inviter who is not a sysadmin may not delete the account when the mail fails (`refused`).
* `ActivityStream`: an activity that is stamped, but not committed, when a dashboard is viewed or
  mailed is never new (`NothingSkipped`); neither is one beyond the dashboard's limit.
  A process that dies after the mail and before `email_last_sent` is saved mails again (`MailedOnce`).
* `ActivityPages`: with a page limit that equals the maximum of the schema, the activity that would show that there is
  a next page is cut off. `SummaryTellsAll`: that the url of a
  resource is another one is told, not which (`changes.py:259`). Entries without a value otherwise mean that there is none now.
* `ViewsCounted`: a dataset whose rebuild fails is passed over, the command ends as if it had not (`cli/tracking.py:293`), and the index keeps the
  views that it had, or lacks the dataset, until a later run rebuilds it; such datasets (`failed`) are excepted. With `Gaps`, a start date after the last day leaves days out for ever.
* `RecordsLand`: a racing upsert looks for its key, does not find it, and inserts nothing when another
  transaction has inserted it since: it commits without its values. `DumpWhole`: rows that are deleted
  during a download move the later ones to earlier offsets, and it skips as many.
* `UpToDate` with `MayReset` or `MayDie`: `ResetConfigView.post` never writes `ckan.config_update`, and a process that
  dies in an update has not written it yet; the other processes keep their options.
* `TagsKept`: two racing requests insert a free tag twice, after which `Tag.by_name` finds one of
  them (`TagFindsAll`). A renamed vocabulary (`MayRename`) leaves the index with the old name.
* `FormsKept`: with two posted forms at once (`MaxRunning = 2`) the copy that publishes a dataset overwrites
  what was saved since, and may publish without a resource. The form of the first stage, posted late, makes a published dataset a draft.
* `PagesTurned` holds while `rows_max` and the limit of `all_fields` are no less than a page. The pager of the users'
  list forgets its limit, a limit of 0 divides by zero, orders with ties have no pages to speak of, and groups beyond the largest list are not
  shown. The links of feeds name no page: their number of the last page is a float (`FeedLeadsOn`, which no run checks). A search with `q`
  of groups is applied after the page was cut. The counter of the data requests counts the first page of 999.
* `RoleUpdated`: a sysadmin who changes his own role in an organization is removed and then refused. Numbers of roles collide between processes,
  roles and data requests are lost when a process is restarted, and a renamed role loses its capacity.
* `GivesHisOwn` (`WaysAgree`): the account of another is open, for an update and nothing else, to whoever has its reset key, a visitor too (`auth/update.py:202`).
* `Validated`: items without fields are lost when the data is flattened, so that `extras: [{}]` passes and an error of an item that comes after one is
  reported one place too early. A schema that names neither `__extras` nor `__junk`, as that of searches, leaves what is put aside in the data, under these
  keys, and a field without validators that is missing stays as the mark for that. An empty `start` of a search becomes `None`, whose
  comparison with 0 is a `TypeError` (`BreaksOnEmpty`).
* `RevisedExactly`: `include` is read from `{'package': ...}`, where no field of the dataset is: `+notes,-*` answers `{}`, `+package__notes,-package__*` the
  notes (`update.py:629`; the docstring, `update.py:498` and 555, can be read as if its patterns were of fields of the dataset). In a filter a negative position names nothing, `-resources` leaves the resources, and a pattern by id names nothing once the
  id itself was filtered out.
* `NoIntrusion`: an unowned deleted dataset may be restored by anybody who may create unowned ones. It also needs every ancestor to be
  within reach of the recursion (`Uncut`), and admins to cascade. With three organizations and `MaxRecurses = 0` an outsider who
  made a chain of organizations and left the middle one is cut off from the bottom; an insider makes a dataset there; the outsider
  takes the middle one back. With `Cascading = {"editor"}` an outsider above makes another one an editor of what is below.

`index_in_sync` has no aborts, because the index is written before COMMIT: an aborted request
leaves a document that is ahead of the row until the next write. `CacheCoherent` holds with aborts:
such a document has a timestamp no row has, so `package_show` never answers with it.

## 4. Fairness

`DatasetIndex!Fairness`: weak fairness for the steps of a request that has begun (a worker runs its
request to the end or aborts), strong fairness for the steps that wait for a row lock, because
PostgreSQL grants a lock to its waiters in order. New requests and aborts are not fair.

`MCDataPusher!MCFairness`: for the process that serves alone, weak fairness for a request that it is
serving and for the service's work on a job; strong fairness for the delivery of a job's report,
since the service calls the hook until it is served. The service is external, so this is an
assumption about it. Nothing in the code makes up for a report that is never delivered. No new edits are assumed.

The other modules have no liveness property: their requests do not wait for one another in a loop,
and nothing in the code repeats what failed, except for cron, which calls the mailing and the
tracking again.

## 5. Findings

* `pusher_stuck`: a submission records "pending" after the service has answered. A job that has
  reported by then finds its "complete" overwritten; every later save is skipped (`action.py:195`).
* `account_links`: of several accounts with one email only the first gets a reset link that works,
  because making its key removes the session that the others were read in (`lib/mailer.py:286`).
* `resource_tables`: a resource that `package_update` leaves out is marked as deleted without a word to
  the DataStore, and purged by the next update; its table is orphaned (`model_save.py:138`).
* `private_owned`: where datasets need no organization, an update that sends an empty `owner_org` for a private
  dataset passes, because the validator asks for the organization that it had (`validators.py:928`); the dataset
  then refuses every patch.
* `followees_counted`: the numbers of users and of datasets that somebody follows are the number of groups
  he follows, and the number of all is three times that (`get.py:2730`).

## 6. What is proved

For every value of the constants, from the named assumptions (finite bounds and disjoint nulls),
which TLC evaluates in the runs of these modules, and the hypotheses that are given here.

* **DatasetIndex, any kinds.** `Spec => []TypeOK`. `TypeOK` is not inductive: a step that copies
  `obj` needs it to be there. `Typed == TypeOK /\ Shape` adds which fields are filled in at each
  step. One lemma per group of actions.
* **DatasetIndex, `Kinds \subseteq SafeKinds`.** `[]CacheCoherent`, `PatchLeavesOthers`,
  `ImplementsStore`. The invariant is `Coherent`: `Typed`; who holds the lock (`LockOwned`); equal
  timestamps mean equal content among *all* copies, committed, indexed or in a session
  (`VersionsDistinct`), and no timestamp is from the future (`VersionsPast`), so a flush makes a
  version nobody has; a patch works on the committed version from its lock to its commit
  (`PatchLatest`); ids are given out once (`CreateNew`, `CreateOnce`). Each part is needed: without
  the sessions' copies a rebuild could index a version with a stamp that is used again. With other
  kinds the theorems are false (section 3). The refinement maps
  `shown` to what `package_show` answers, and each `Commit` to one abstract step, all others to
  asking, dropping or stuttering.
* **DatasetIndex, `Orderly`.** `[]IndexInSync`, if the kinds that do not lock before they read are in `Alone`, there is no clear, and
  no request aborts. Each of the three is needed (section 3), and `index_in_sync` has them. The invariant
  `Synced` says of every job how far its session, the row and the document are apart at each step
  (`CurrentOf`), that a dataset nobody works on is in the index as it is in the database
  (`Settled`), and that whoever is not alone holds the lock.
* **DataPusher.** `[]TypeOK` and `[]HookFindsTask`, with any number of workers, edits and jobs,
  whoever dies. The invariant `TaskKnown`: a worker past `Mark`, and a job past `Post`, know that
  the row exists, and no step removes it. `[]TableIsCurrent` for one worker that neither stops nor lets a
  task go stale, with any number of edits and jobs, while its steps interleave with the service's: the invariant
  relates the worker's step, the task row and each job in the service to the version of the file that it was asked for.
* **Membership.** `[]TypeOK` and `[]RowsHaveOrg`, for all kinds, with races and deaths. The
  invariant `Typed` adds what a request carries by its kind (`Proper`), and that rows it has
  loaded were inserted (`SeenInserted`). `RowsHaveOrg` is inductive with it: an insertion needs the
  organization (the foreign key), and the second transaction of a purge looks for the rows again.
  The mutant `PurgeGroupSeen`, which uses those of the first, breaks it. `MembersRight` of the behaviours of `MCParts` in which
  one worker serves, by id (`~ByName`) and to the end (`~MayStop`), as needed (section 3). The invariant `OneServes`: what the request has read is
  what is in the tables (`Reads`), no two active rows join the same two (`Unique`), an active row names the owner, and an
  organization has had an admin, but for the one that is created or purged (`Settled`). That the
  removals and deletions leave nothing behind follows from `Reads`.
* **Resources**, for the behaviours of `MCParts`, any workers (at least one), uploads and finitely many resources (`Listing`), while `package_update` and the
  DataStore, which do not lock before they read, run alone. `ResourcesRight` and `ResourceNotLost`, races and deaths included. Lists are ordered by position:
  `Ordered` says that where positions differ there is an order, `Renumbered` that a list which is saved numbers its rows without a gap (`Gapless`),
  `Joined` and `MergedIs` that reordering has each row once and that the rows which `package_update` copies by position are those
  that were given. The invariant `Kept`: a request that holds the lock knows the rows as they are, or is an update, which writes nothing but its own file
  and flag (`Ready`); files are those of the rows but where one is about to be described (`Stored`). For requests one after another `Told` adds
  that a flag tells the table but between the two databases' commits and where a client has set it, and that what `Drop` is to drop is what the session knows of (`Known`).
* **Visibility**, for constants that are `Proper` (the null is no role, organization or row). `[]HierarchyAgrees`, `[]DeletedGrantsNothing`
  and `[]ReadersAgree`, for any hierarchy, loops included, any depth of the recursion and any number of users. The invariant: an
  organization that is not active has no members and no place in the hierarchy (`Closed`), and the labels in the
  index are those of the rows (`Labelled`). The lemma `Backwards` turns a path upwards around. `[]NoIntrusion` if moreover
  `Contained`: as many steps of the recursion as organizations (`Uncut`), and admins cascade. Both are needed (section 3). The invariant
  `Guarded`: the dataset of an insider that nobody gave away has an owner, in which no outsider who was not let in has any permission. A role that an
  outsider gives himself or another, or a place in the hierarchy that he moves an organization to, reaches an
  organization only if he was an admin there before; as the recursion is not cut this composes (`Shortcut`: a path longer than there are
  organizations comes to one of them twice; the least length of a path exists by `WFMin`). `Accounts_proofs` states the same of the behaviours of
  `MCAccess`, by the lemmas of its two instances.
* **Permissions**, for constants that are `Proper`. `[]TypeOK`, `[][GivesOnlyHis /\ GroupedByMembers]_vars` and `[]WaysAgree`, for any
  users, sets of options and permissions of the roles. `TypeOK` is inductive, as it has that deleted users keep no role. A step that gives a power
  is one of those that change a role, the owner of the dataset or its collaborators (`StepGives`); the lemmas `ThreePowers` and
  `FewerPowers` reduce the powers of a role to those of the three roles, and each authorization function is compared with
  the power it asks for. `Accounts_proofs` states them of `MCAccess`, as `GivesHisOwn`, and the types of all its parts (`TypesOK`).
* **Accounts, `"perform" \in Alone`.** `[]TypeOK` and `AccountsKept`, with any number of processes, accounts and emails, mails that fail
  and processes that die. The invariant says what a process knows of the account it works on
  (`JobOK`), that keys of different accounts differ, that a spent key is about to be replaced and
  that a pending account has a link or is about to get one.
* **SiteConfig.** `[]TypeOK` always; `[]UpToDate` if `Undisturbed` (no reset page, and no process dies in a request), which is
  needed (section 3). The invariant: a process that knows the stamp, or will know it when it has copied the rest, has every option that it
  has copied as it was set last, or an update that has not ended is going to change the stamp (`Current`).
* **MCSiteState.** A step of `MCSite` is one of `StateNext`, or leaves what `MCSiteState` has alone; so what is proved of `StateSpec`
  holds in the run. In all of these one form, and one edit of roles, is served at a time (`MaxRunning = 1`, one process), as section 3 says they must.
  * `RoleUpdated`, for any users, names of roles and edits: what the view knows of the user's rows at each of its transactions.
  * `FormsKept`, for any contents, resources and finitely many tabs: a form that was rendered shows the dataset of the stage it is for, and
    what the copy that publishes was read from is still what is there.
  * `RecordsLand`, for any workers, keys, values and batches (`Batched`) whose records do not take each other's rows (`Apart`: two records of
    one batch with the same key do overwrite each other, and only the last one is there afterwards). The invariant `Recorded`: rows are numbered
    below the serial, a request has written a row for each record that it has passed (`Sound`), and where requests are alone an upsert inserts
    only what it has not found. The lemma `RaceWrites` carries the steps of the race over.
  * `DumpWhole`, for any batches, and limits and sizes of pages that are not zero (`Paged`). The rows are read by position, in the order of their
    numbers, which is stated as the *rank* of a row: how many rows have a number up to its own. `Ranks` says that ranks are 1 to the number
    of rows in the order of the numbers, `PageRanks` that a page has the next ranks, `RanksStay` that rows which come last change none. The invariant:
    a transaction adds its rows after all that are stored (`Orderly`, which needs requests one after another: a race commits serials out of order);
    what is out is increasing and has every kept row up to the rank that was read (`Gathered`), and pages are as far apart as they are long,
    but for a last one (`Fits`); a short page ends the download, since then no row is left (`LastCompletes`).
  * `TagsKept`, for any datasets, names and vocabularies, if no vocabulary is renamed (`Tagging`; section 3 says why). The invariant `Attached`, which
    holds in a race too: what is linked to a dataset, and what a request has found, is a row, a vocabulary that has tags exists, and documents are
    current. Documents stay so because a change is either of links, whose datasets are indexed again (`Reindexed`), or of rows that nothing
    links to (`SameIndexed`). For requests one after another also `FreeOnce`: no two rows of one free tag, as what was not found is not there.
  * `PatchesOne`, after any number of patches and updates (the run stops at two changed columns), if the values are apart (`Patching`). The
    validators of a field keep a value, drop it, or refuse it (`RunKeeps`, `RunChain`, `RunStops`, `RunFails`), and one lemma for each column of each kind
    says which. The invariant `Patched`: the row is of the type that updates write (`RowType`: no dataset without an organization, no name that is
    taken), whoever is not a sysadmin edits no sysadmin, and what is shown is the row, but for hidden fields and for a dataset without title,
    which is shown with its name (`Seen`). From it, what was shown is accepted and saved as it was, and what is accepted is of its type (`Agrees`).
* **ActivityStream.** `MailedOnce`, for any workers, users and datasets, with requests that race and processes that die. The invariant `Mails`: what a
  request knows at each step (`Shape`); a user has been mailed nothing newer than the time that is saved as mailed last, or
  than what the mailing at work is about to save (`Sent`, `Timely`); and one mailing at a time (`OneNotifies`: cron starts no call before the last has ended).
  `NothingSkipped`, when a request that looks at a dashboard is alone and one worker serves all, and if there are no more activities than a dashboard shows
  (`MaxTime <= Limit`, as in the run): each is needed (section 3). The invariant `Served` adds that what the worker has listed is still all
  that is new, and that the times of activities are distinct. That limiting each branch of the union first loses nothing of a page holds without
  these: `PageOfUnion`, for any set of sets of activities, offset and limit, by the rank of an activity in a set and in a part of it.
* **ActivityPages.** `PagesWhole` if `PageLimits`: a page is not empty, and one activity more than it shows may be asked for. The invariant
  `Leafed`: a page shows an interval of the times, which depends on its kind (first, older, newer) and on how long the stream was
  when it was made.
* **DatasetChanges.** `SummaryTellsAll`, for any fields: the lemma `SummaryTells` says it of any two versions whose extras are
  dictionaries, whatever they hold.
* **Followers.** `FollowersAgree`, if users, datasets, groups and organizations are finite and apart (`KindsApart`). Lists are made of sets,
and the lemma `ListsJoined` puts them together.
* **Tracking.** `ViewsCounted`, for the behaviours of `MCStreams`: one cron, no gaps, pages without resources, and any finite sets of pages and
  visitors (`Viewing`), days and views. What a row counts is a sum over rows, and what it should count is a number of visitor-day pairs; `Sum` is
  written as the size of a set, and `SumIsViews` gives a one-to-one map between the two, so that no induction over the rows is
  needed. The invariant `Tracked`: there is one row of a page and a day, which has come and was viewed (`Rowed`); the command is between its start
  and its end, which has come (`Timed`); the rows of a day tell its views (`Exact`) if it is before the last complete run, before the day
  of any row, or before where the command is, since each of these means that it was over when it was summed up; rows keep the dataset that had the
  name of the page (`Named`); and the index says the total of the latest row, or the command has a row of the dataset still to index, unless one
  died (`Fresh`). The mutant `StartAfterLast`, by which the last day that has rows is not summed up again, breaks it.
* **ListPages.** `PagesTurned`, its first half, for any number of items and size of pages that the caps of the lists allow (`Listing`: `rows_max` and the
  limit of `all_fields` are no less than a page, and no group is beyond the largest list but on its last page; section 3 says why). The invariant
  `Reading`: who goes on from the first page is on a page that there is, and has seen each item up to its end once, and no other (`Walked`).
  That the last page is where the items end is division with a rest, by two lemmas (`Quotient`, `MulStep`), since the
  provers multiply no two variables.
* **DataRequests.** `PagesTurned`, its second half, for any samples, dates, days and size of pages, if the counter's page holds all
  requests (`Asking`). What is sorted is stated by ranks, here too: a request that was there keeps those that were before it, and others may come between, so
  its rank only grows (`RanksGrow`: the list as it was is mapped one-to-one into what is before it now). The invariant
  `Asked`: what was there when the reader began is still in the list, and each of it that is on one of the pages up to his has been shown (`Turned`).
* **MCStreams.** `TypesOK`, for all parts, if `PageLimits` and `KindsApart`; it follows from `Mails`, `Leaves`, `Following`, `Tracked`, `Reading` with
  `Bounded`, and `Asked`.

### Only model-checked

Liveness (`RequestsEnd`, `TaskEnds`), which is out of the prover's reach, and what rests on induction over data: the folds of `Revise`
and `Validation` (`RevisedExactly`, `Validated`); of induction the proofs use only that a set of numbers has a
least one. `TypesOK` of `MCSite` includes the types of the folds.

## 7. Plan for what is left

1. Proofs: the types of the parts of `MCSite`.
2. Models: `get_action` and chained plugins; API tokens; resource views; relationships; the rest of
   `logic/action/get.py`.

## 8. Not modelled, and why

Translations, templates, the declaration of options and most of the command line read state or render it, and call the actions above.
Relationships, resource views and API tokens are rows nothing else here depends on. Background jobs are a thin layer over
rq, whose queue is a library. Plugins are loaded once, before anything is served; the caches of `get_action` and of the
authorization functions are filled by whichever thread comes first, with the same values. `cleanup_broken_datasets` fails on its first line
(`g.user.name`), the routes of `views/package.py` are shadowed by those of `views/dataset.py`, and `check_org_permission`, `get_role_permissions` and
`get_user_org_role` of `views/role.py` are called by nothing. Inside the modelled parts these are left out: authorization (requests
are authorized, but for `Visibility` and `Permissions`), validation (requests are valid, but for `Validation` and `Patches`), the hundredth of a second to which timestamps
are compared (versions have counters instead), Solr's commit delay, and the contents of files.
