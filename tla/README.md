# A verification model of qiuxs-blog

This directory holds TLA+ modules for the blog's core logic, the TLC
configurations that check them on small instances, and proofs checked by TLAPS.
`PROJECT.json` lists the components, the runs, the mutants that show each
property can fail, the source lines of every definition, the hazards, the
disagreements found between code and documents, and the theorems. Paths below
are relative to `src/`.

To run a check: `tlc -config <run>.cfg <Module>.tla`, where the module of each
run is in the table under *Runs*. To check the proofs: `tlapm` on each module
whose name ends in `Proofs`.

## 1. The system

An administrator writes articles in a React application. A Go service keeps
everything in MySQL, with Redis for sessions, login limits, callback nonces, id
counters and the hotlink policy. Publishing freezes one article's draft, or the
site settings, into an immutable *release*; Jenkins downloads the release as a
bundle, builds a static site with Astro and moves it to the web server, where a
symbolic link `current` selects what readers see. Jenkins reports each stage by a
signed HTTP callback. To repair what a lost callback left behind, the service reads
a `release.json` on its own host: a copy of the deployed one that the installation
has to make (`deploy/env/blog.env.example:38-40`), and nothing in the repository makes.

| Component | State it keeps | Operations | What is hard | What makes it correct |
|---|---|---|---|---|
| Release store, `service/internal/release` | `site_state` (current release, active job), `releases` and `release_articles`, `publish_jobs`, `articles.published_revision_id` | create, retry, apply callback, fail trigger, reconcile | late, repeated and reordered callbacks; retries of old snapshots; two publishers | one attempt at a time; statuses agree; pointers are those of the current release; only success advances |
| Orchestration, `release/service.go` | requests in progress | Publish, Retry, Callback, startup reconciliation | the Jenkins call is outside the transaction and may fail ambiguously; crash after commit | a failed trigger is compensated; a stray build does no harm |
| Jenkins pipeline, `deploy/jenkins` | queue, running build | validate, bundle, build, deploy, report | aborts, repeated builds, callbacks refused or lost at each stage | only the active attempt's build deploys |
| Web server directory, `deploy/scripts/deploy-static.sh` | `releases/<id>`, `current` | move, switch, prune, rollback | failure between two of these steps; a command that fails does not stop the next one | the current release has its files, what `current` names is accounted for |
| Service deployment, `deploy/scripts/deploy-service.sh`, `blog-service.sh` | process, pid file, `current` | start, stop, restart, go back | a start that times out, two controllers | one process, under the link that stays |
| Articles, `service/internal/article` | `articles` (slug, state, pointers) | create, get, list, trash, untrash | trash races a running release; Get reads three rows without a transaction | published articles are active; Get never mixes two drafts |
| Revisions, `service/internal/revision` | `article_revisions` with tags and media, `lock_version` | save draft, create version, restore, list | optimistic lock across replaced drafts | no silent overwrite; versions immutable |
| Tags, `service/internal/tag` | `tags` | create, rename, delete | rename between resolution and use | a frozen snapshot keeps its names |
| Settings, `service/internal/settings` | `site_settings`, hotlink policy and its cache | put site, put and read policy | optimistic lock; cache loaded while the policy is replaced | the cache never serves a replaced policy after its Put returned |
| Id generation, `service/internal/idgen` | Redis counters | next, insert with healing | counter lost, then raised from MAX(id) while inserts are uncommitted | ids are unique, an insert needs no more heals than there are setbacks and concurrent rows |
| Authentication, `service/internal/auth` | sessions, limiter counters | login, logout, authenticate | check-then-record limiter; compensation of a half-made session | no session survives a failed login |
| Media, `service/internal/media` | `media`, objects in GFS | upload, register, proxy | two uploads of one content | one row per content |
| Builder, `service/internal/builder` | `builders`, callback nonces | save, prepare, trigger, verify callback | a repeated callback versus a replayed one; nonce lifetime | a claimed nonce answers only its own payload |
| Admin editor, `admin/src/editor` | local draft, `lockVersion`, save state | edit, autosave, retry, reload, publish | late answers; refetch over a dirty draft | no edit is lost or reported saved when it is not |
| Visual editor and upload, `admin/src/editor`, `admin/src/media` | the view, the page's content, `visualValueRef`, the upload under way | type, paste, change mode, upload, insert | the view reports a change late; an upload outlives its editor | the view shows what is saved |
| Page of a release, `admin/src/publishing` | an entry of the query cache | poll, refetch, retry | answers out of order | no poll takes the page back |
| Other admin pages, `admin/src` | query cache, session, settings form | login, logout, save, refetch | out-of-order answers | signed out is final; a save replaces what its author saw |

Interactions: the admin application calls the service's HTTP API; the service
calls Jenkins (one POST per attempt); Jenkins calls the service (bundle, and one
callback per stage) and the web server (ssh, rsync); the service reads the copy of
`release.json` at `BLOG_CURRENT_RELEASE_JSON_PATH` before each Publish or Retry and
at its start. Articles, revisions, settings
and releases share the MySQL tables: `freezeArticle` of a release changes the
editing draft of an article, the completing callback changes
`articles.published_revision_id`, and Trash reads it.

Every component, including those that are not modelled and why, is in
`PROJECT.json` under `components`; the hazards, each at its line, are under
`hazards`.

## 2. The modules

| Module | Models |
|---|---|
| `SerialPublishing` | what publishing promises: one live snapshot, replaced as a whole by the one being published |
| `Release` | `service/internal/release`: the tables and the transactions, for arbitrary callers |
| `Publishing` | `Release` driven by the orchestrator, the Jenkins pipeline and the deployment, with faults |
| `RevisionHistory` | what the versions of an article promise: a history that only grows |
| `Revisions` | `service/internal/revision`: the revisions of one article and several browser tabs |
| `ReleaseBundle` | `release/bundle.go` with the rows it is read back from: orders, tags, checksum |
| `TagSnapshots` | `service/internal/tag` and the copies drafts and releases keep of a tag |
| `HotlinkCache` | `settings/hotlink.go`: the policy, its cache, its loads |
| `SiteForm` | the `site_settings` row and the page that edits it |
| `BuilderConfig` | `builder/repository_mysql.go` and the use a publish attempt makes of a target |
| `CallbackDelivery` | `builder/callback.go`: the way of a signed callback into a job |
| `MediaRegistry` | `media` registrations over `idgen`'s counter |
| `AdminAccess` | `service/internal/auth`, `bootstrap`: first account, logins, limiter, sessions |
| `Autosave` | `admin/src/editor/useAutosave.ts` with its query, its server and another tab |
| `AdminSession` | `admin/src/auth/AuthProvider.tsx`: who is signed in, according to the page |
| `VisualEditor` | `admin/src/editor/MarkdownEditor.tsx`, its listener, and the upload of pictures |
| `PublishingPage` | `admin/src/publishing/PublishingPage.tsx` and the cache it polls into |
| `MCRelease`, `MCPublishing`, `MCRevisions`, `MCComponents` | small instances |
| `ReleaseProofs`, `PublishingProofs`, `RevisionsProofs`, `CallerProofs`, `SettingsProofs`, `ContentProofs`, `BundleProofs`, `AdminPageProofs` | the theorems |

Which composes which: `Publishing` extends `Release` and adds the callers; the
abstract `SerialPublishing` and `RevisionHistory` are instantiated by `Release`
and `Revisions`. The other modules share no state with these or with each other
and stand alone; where one of them touches a release (`TagSnapshots`,
`ReleaseBundle`, `CallbackDelivery`, `BuilderConfig`) it has the part of it that
it needs in one step, and says so at its head. `MCComponents` is not a
composition: it checks them in one run, one at a time.

### Release

| Variable | Code |
|---|---|
| `current`, `active` | `site_state.current_release_id`, `active_publish_job_id` |
| `release[r]` | the `releases` row with its `release_articles`: status, site snapshot, frozen revision of each article (0: not in the snapshot) |
| `job[j]` | the `publish_jobs` row: release, status, stage, build number, finish time |
| `published[a]` | `articles.published_revision_id` |
| `draft[a]` | `revision_no` of the editing draft |
| `state[a]` | `articles.state` |
| `settings` | the `site_settings` row |

One action per transaction: `CreateLocked`, `CreateRetryLocked`,
`ApplyCallbackLocked`, `FailTriggerLocked`, `ReconcileLocked`, and `Trash`,
`Untrash`, `PutSite` of the neighbouring services. All release transactions lock
the `site_state` row first, which is why each is one step. `Trash`, `Untrash` are
single guarded UPDATE statements. A transaction that answers an error or a
duplicate leaves the database as it was and is not a step; the *answer* is an
operator (`CallbackAnswer`, `ReconcileAnswer`) because `Publishing` depends on it.

Nothing is assumed of the callers: any event of `CallbackEvent`, any trigger
failure and any artifact may be presented at any time. That makes the results
about `Release` independent of Jenkins and of the network.

Abstractions: an article's content is its revision number (slug, title, tags,
media and hash are frozen with it and never compared otherwise); the site
snapshot is one value, and `PublishableSite` are those
`ValidateReleaseSnapshot` accepts; timestamps are kept only where the answer to
a repeated event depends on them; ids grow, and an id lost by a rollback is
skipped. The latest attempt is the one with the greatest id: the code sorts by
`created_at`, then id, and the model assumes that the database clock does not
step back between two attempts of a release.

### Publishing

A session `p` is one Publish or Retry request; `op[p].pc` is where it stands:
`reconcile` (artifact read, transaction to come), `create`, `trigger` (committed,
Jenkins not called yet), `compensate`. A build `b` walks through `validate`,
`bundle`, `compile`, `build`, `deploy`, `move`, `link`, `prune`, `succeed`; a
failing stage goes to `failing` (its own failure report) and `postfail` (the
`post { failure }` report, always for stage `queue`). `queue` and `sent` are the
Jenkins queue and the callbacks nobody waits for any more.

The web server is three variables: `dir[r]`, the build whose files are at the top of
`releases/<r>`; `touched[r]`, the build that last moved something there, which stands
for the directory's time, because runs follow one another; and `link`, the name that
`current` holds. `deploy-static.sh` does its work in one remote command, and
`remote_sh` (`lib.sh:13`) sends it as `sh -c set -eu; ...`: ssh joins its arguments,
so the `set -eu` ends up in a shell of its own and the rest runs without it. Hence:

- The test for an existing directory stops nothing. `mv` of the stage onto a directory
  that is there moves the stage *into* it and succeeds: `MoveDirectory` leaves `dir[r]`
  and renews `touched[r]`.
- A command that fails does not keep the next ones from running, and the status the
  pipeline sees is that of the last one, the removal, or of the lost connection. Fault
  `command` is the first, `deploy` and `prune` the second, before and behind the switch.
- The link is written as the bare id of the release and is looked up beside itself,
  while the files are in `releases/`. `link` is what the code writes; `LinkFolder`, `At`
  and `Served` say what is found behind it. Only `CurrentIsServed` is about that.

The directories beyond the newest `Retained` (five in the `Jenkinsfile`) are removed; a
failure then leaves any part of the removal undone. The script recognizes a release by a
name of two characters at least: releases 1 to 9 are neither counted nor removed.
Attempts that failed behind the move leave directories that count, so the directory of
the current release can become one of those beyond (`Overtaken`).

`artifact` is the `release.json` on the service's host. `CopyArtifact` is the copy that
the installation is told to make, of what a run has deployed; it may happen any
number of times while the run is at its last report, or never, and fairness does not
oblige it. So nothing that is shown here rests on a copy being made. `ReadArtifact`
reads whatever copy there is, however old.

`Faults` selects what may go wrong, and the comment at its definition says what
each fault is. Faults are steps of the model, never obligations: fairness never
forces one.

### Revisions

| Variable | Code |
|---|---|
| `row[r]` | the `article_revisions` row with its tags and media: status, reason, `revision_no`, `lock_version`, content |
| `pointer` | `articles.draft_revision_id` |
| `state` | `articles.state` |
| `held[c]` | the draft a tab got last; it sends back only `lock_version` |
| `request[c]` | a version or restore between the transaction that reads and checks the draft and the one that freezes it |

`SaveDraft`, `CommitVersion`, `CommitRestore` and `FreezeArticle` (of a release)
lock the `articles` row and then the editing row it names, so each is one step.
`BeginVersion` and `BeginRestore` are the read-only transaction before: whatever
it saw, the draft may be saved, replaced, published or trashed before the second
one. `Answer` lets every answer be lost, so a tab may hold any draft it ever got.
A transaction that fails is rolled back and changes nothing; `Refuse` ends the
request.

Abstractions: a revision's title, Markdown, cover, tags and media are one
content; `Content` is what `ValidateDraft` accepts and `Freezable` what
`ValidateFreezable` accepts, so the empty content of a new article is in the
first and not in the second. Reading an article is one step although the code
reads the pointer and then the row: it starts again if the row is no longer being
edited, and an answer exists only where the two agree. `Release` counts the
drafts of an article by the releases that froze them; the versions made by hand
in between are the subject of `Revisions`, where in turn an article may be
trashed at any time.

`RevisionHistory` has no rows, locks or tabs: an edit replaces the text; keeping
appends the text, which must be fit for the site; bringing a version back
appends the text and replaces it by a kept one. `HistoryIsAppendOnly` maps the
text to the content of the row `pointer` names, and the versions to the frozen
rows in the order of their numbers.

### ReleaseBundle and TagSnapshots

`newestRow` and `currentRow` are the rows of the release created last and of the
current one, with the prepared articles in the order they were inserted; a row
also keeps the payload its checksum was taken of. `StoreArticle`, `StoreWithout`,
`StoreSettings` are `PrepareSnapshot` followed by the computation of the checksum
and the INSERTs; `EncodeCanonicalBundle` is everything `Service.Bundle` does to a
row: `LoadReleaseArticles` in the order of the query, `AssembleStoredBundle`,
`NormalizeBundle`, and the comparison with the stored checksum. The canonical
JSON is a one-to-one encoding, so a checksum is its payload. The code's
`sort.Slice` and `ORDER BY` calls are `Sorted`, by a key of one or two numbers:
place n takes the element with n - 1 elements ahead of it (`NthByKey`). It is
stable, which the code's sorting is not; where two elements of a list could have one
key (before the list is checked) the list is refused, whatever their order.

An article of a bundle carries the id of its frozen revision, and the checksum hashes
it. `freezeArticle` freezes the open draft under its id and opens the next one under a
fresh one, so `StoreArticle` gives the published article a revision that no stored row
has (`UnusedRevisions`), and the other articles keep theirs: two releases that publish
the same content still have different checksums.

In `TagSnapshots`, `tagName`, `tagSlug` are the table, `draftTags` the copies in
each open draft, `saving` a save between `ResolveTags` and the transaction that
stores what it resolved, `currentTags` the copies in the current release.
`BundlePayload` is the check that one tag has one name and one slug.

### HotlinkCache

`policy` is the database; `cache`, `cacheValid`, `cacheGeneration`, `loadFlight`
are the fields of the service under `cacheMu`. A reader goes `enter`, then
`load` (it leads) or `wait`, `loaded` or `woken`, `done`. Each step is what a goroutine
does between two acquisitions of the mutex. `ReplaceHotlinkPolicy` (the commit)
and `PutReturns` (which invalidates the cache) are two steps, and a Put may end
before the second: its commit's answer was lost. `CancelReader` ends a context, and
loads may fail.

### SiteForm and BuilderConfig

`rows[n]` is what the settings row held at lock version n; `siteData`,
`siteDraft`, `siteConflict` are the query's data, the form and the conflict
notice; `put`, `siteRefetch`, `siteReload` the requests under way, each served in
one step and answered in another. `base` is a history variable: what the server
had when the page took over the lock version it sends.

`BeginBuilderSave` is `SELECT ... FOR UPDATE`, which locks a row only if there is
one (`rowHolder`); `InsertBuilder`, `UpdateBuilder` are the statements behind it;
`PrepareTarget`, `RecordTarget`, `TriggerTarget` the three moments at which a
publish attempt uses a target: `target.config` is what it has loaded, `target.job`
what the transaction that creates its job has written there (`NoConfig` before),
and both are on their way to Jenkins while the row is saved again.
`newestToken` is a history variable.

### CallbackDelivery

A delivery carries a message through `claim` (`SET NX`), `read` (the `GET` behind a
refused claim), `apply` (the transaction, for one job that holds the lock) and
`answered` or `replay`; any number of deliveries of one message may be under way,
and each may fail in between (`DeliveryFails`). `claims` is Redis; the clock of
the service advances by itself, and claims end with it. `appliedCount` and
`claimedAt` are history variables.

### MediaRegistry

Every SQL statement and every Redis command of a registration is a step of
`upload[u]`: `find` (by content), `next` (INCR), `insert`, then `max` and `raise` (a
heal, after an id in use), `reread` (after content in use). The counter may be
lost, an insert may be done although it errs, and rows are there already whose ids
no counter of this lane has given. `MaxInt` stands for the largest id, at which
`NextId` overflows. A request is `exhausted` when it has healed as often as the
code allows. `Setbacks` are the losses of the counter, and one more if there are
rows from before it.

### AdminAccess

`failures` are the two counters of the window, `sessions` the tokens in Redis,
`cookies` those a browser was given. A login goes `verify`, `username`, `ip` (the two
increments), or `create`, `touch`, `reset`, `compensate`. Every call may err, and a
write that errs may have been done; `strays` are the tokens that such errors leave
behind. `WindowPasses` ends the window of one counter.

### Autosave and AdminSession

JavaScript runs one handler, timer or answer at a time, so each is a step; the
server serves a request in a step of its own, before its answer arrives.
`document` is the number of the edit that made it; `generation`, `kind`,
`lockVersion` are the reducer's state, `epoch`, `inFlight`, `timer` the refs;
`flights` are the save requests, `reload` and `refetch` the two ways a server's copy
comes back. `stored[n]` is the server's draft at lock n, which another tab may
save too. Replacing the draft (a version, a restore, a release) is the subject
of `Revisions`, where locks start again.

In `AdminSession`, `calls` are the requests of the page (bootstrap, login, logout,
any query), `bootstrapGeneration`, `bootstrapEffect`, `actionController` the refs
of the provider. An aborted request may still be served, and an answer that is
already under way is not stopped by `abort`.

### VisualEditor

The text exists three times, which is what makes it hard: `content` is what the page
has and autosave sends, `view` what one types in, and `known[e]` the editor's
`visualValueRef`. `reports` are the documents the listener is about to report (Milkdown
waits 200 ms); `ReportUpdate` is `reconcileMarkdownUpdate` with its three outcomes, of
which the first ignores a document that the view no longer has. `ShowContent` is the
effect that replaces the view by a content it did not come from. Every visual editor
that is mounted has its own `visualValueRef` and upload controller (`known`,
`current`), and they outlive it: `EnterSource` does not end an upload.
`picture[u].at` walks through the three requests of an upload, `policy`, `transport`,
`register`; an abort lets no answer through. A text is a set of pieces, typed or pictures.

### PublishingPage

`detail` is the entry of the query cache that the page shows, `effect` the one that
the running polling effect was started with; the two differ until React has rendered.
`Rerender` is the effect's cleanup and its new start: polls sent before are disposed.
A poll, the refetch on focus and a retry are sent, served and answered in steps of
their own, `latestJob` being the service's. A status is a number, its place in the life
of a job, and the last two are success and failure.

## 3. Runs

| Run | Module | Question | Bounds | Result |
|---|---|---|---|---|
| `release_core` | `MCRelease` | do the invariants and action properties hold, and is publishing serial, for arbitrary callers? | 2 articles, 3 settings (one not publishable), 2 releases, 3 attempts, 2 builds, 1 time, symmetric | holds |
| `pub_faults` | `MCPublishing` | does the web server hold what the database says, whatever fails? | 1 session, 2 attempts, 2 builds; releases 10 and 11, one directory kept; all faults but `command` | holds |
| `pub_live` | `MCPublishing` | is the lock always released? | 2 sessions, 2 attempts, 2 builds; releases 10 and 11, one directory kept; trigger, deploy, prune, command | holds |
| `revisions` | `MCRevisions` | is there one draft, and is no version altered, lost or numbered twice, whatever tabs and releases do? | 2 tabs, 3 contents (one not fit), 3 rows, locks to 2, symmetric | holds |
| `components` | `MCComponents` | what each of the twelve other components promises, see below | below | holds |
| `release_trash` | `MCRelease` | is a published article active? | 1 article | violated |
| `pub_early_failure` | `MCPublishing` | is the lock released when a build fails before deploying? | 1 attempt; build | violated |
| `pub_served` | `MCPublishing` | does `current` lead to the files of a deployed release? | 1 release, 1 attempt; no fault | violated |
| `pub_failed_online` | `MCPublishing` | does a failed publication leave the public site alone? | 1 release, 1 attempt; prune | violated |
| `revision_overwrite` | `MCRevisions` | does a save replace only what its author has seen, or what a version keeps? | 2 tabs, 2 rows, locks to 3 | violated |
| `tag_rename` | `TagSnapshots` | can every draft be released? | 2 articles, 2 tags, 1 rename | violated |
| `autosave_refetch` | `Autosave` | is typed text replaced by its author alone? | 4 edits, one tab | violated |

Why the bounds are enough. Two releases and three attempts are the smallest number in
which a failed release is retried after another one succeeded and a first attempt of the
other is still possible; two articles tell "the" article from "another" one; a second
build number tells a retry's build from the first. In `pub_faults` two releases,
attempts and builds contain an attempt that is given up, repeated by hand or rolled back
beside the next one, of the same release (whose stage is moved into the directory of the
first) or of another. Their ids are 10 and 11, which the pruning script recognizes, and
one directory is kept, so that every deployment removes the one before it and the
directory of the current release can be overtaken. One session is enough there, because
a second one reaches the store only through the site lock and `release_core` puts no
order on its callers; `pub_live`, where sessions wait for each other, has two, and the
fault `command`, under which the script goes on with whatever it finds. `FirstRelease`,
`MaxRelease`, `MaxJob`, `MaxBuild`, `MaxTime` are the only bounds; they limit the ids
handed out. `release_core` uses the symmetry of articles and of publishable settings; it
checks no liveness.

`revisions` has three rows, hence two versions: one to restore, and one that the
restore makes. Lock 2 tells a saved draft from a new one, and with every
replacement locks start at 1 again, so that a stale request finds its own number
on another row. `revision_overwrite` needs lock 3: the content a draft has at
lock 1 is always kept in a version too, so only an edit at lock 2 can be lost, by
a save that makes it 3. `MaxLock` and the ids in `RowId` are the only bounds. A
third tab would only add another stale `held`, and two already differ in row, lock
and content. Tabs, ids and fit contents are interchangeable.

`components` is one run for twelve modules: `subject` is chosen at the start, the
other modules rest in an initial state, and so its behaviours are those of each
module alone. Its bounds, and what they are for:

| Subject | Properties | Bounds |
|---|---|---|
| hotlink | `AnswersAreFresh`, `LoadsAreShared`, `ReadsEnd` | 2 requests, 2 Puts: a leader and a waiter, overtaken twice |
| tags | `TagLinksAreStable` | 2 tags, 3 names, 2 slugs, 2 articles, 1 rename: two articles that share a tag |
| media | `MediaIsRegisteredOnce`, `HealingSuffices` | 2 uploads, 2 files, 2 keys; lane 1 of 2, ids 1, 2 and 3 taken, largest id 7, 3 heals, counter lost once: heals that overlap, a foreign lane, overflow; and the heals that `HealingSuffices` asks for are the fewest |
| access | `FailuresAreBounded`, `FailedLoginLeavesNoSession`, `OneAdministrator` | 2 initializations, 2 logins, 2 tokens, limits 1: the overshoot by concurrent logins |
| callback | `AppliedOnce`, `NonceHasOneOwner` | 3 messages, two with one nonce, 2 deliveries, skew 1, lifetime 1, clock to 3: claims that end while the timestamp is accepted |
| autosave | `SavedMeansStored`, `DirtySettles` | 4 edits, locks to 4, another tab: a save, an edit during it, a conflict, a reload |
| session | `SignOutIsFinal` | 5 requests: bootstrap, login, query, logout and one that is late |
| bundle | `BundleVerifies`, `RevisionsFixChecksum` | 2 articles, 2 tags whose slugs and ids are ordered differently, 2 names, 2 times, 3 revision ids: an article published again with the same content |
| site | `EverySaveSawWhatItReplaced` | 3 contents, one of them normalized into another; locks to 2 |
| builder | `TokenIsNewest`, `BuildsRunWhereRecorded` | 2 saves, 3 targets (one switched off), 2 tokens |
| editor | `ViewShowsContent` | 2 pieces, 2 pictures, 2 visual editors, 2 reports due: an upload that outlives its editor or is overtaken by another, a report of a text that has changed since |
| page | `PollsGoForward` | 1 active status, 2 polls, 2 attempts: polls that overtake each other, one sent before a retry and answered after it |

The bounds were raised until every step and every disjunct of these modules
happens; only the two guards by which `AdminSession` ignores the answer of a
superseded bootstrap question are never false, because such a question is asked
again only after its predecessor was answered.

Deadlock checking is off in `pub_faults` and `components`: once the ids are used up
or the requests are done the instance has nothing left to do. `tag_rename` and
`autosave_refetch` look for one step, not for the end.

What the passing runs show that a test would hardly reach: `SingleActiveJob`,
`ReleaseMatchesJobs` and `PointersMatchCurrent` over all interleavings of callbacks,
retries and reconciliations; `OnlyActiveBuildDeploys` over lost answers and late
deliveries, where the pipeline and the database disagree about how far an attempt is;
`CurrentHasFiles` over retries into a directory that is there and removals that end
half-way; `LinkIsAccounted` over a failure behind the switch of the link, and over a
copy of `release.json` that is read before other reports and used behind them;
`AnswersAreFresh` over a load that began before a Put and ends behind it;
`HealingSuffices` over heals whose raised counter hands out ids that another request has
not inserted yet, in a table that was not empty; `FailedLoginLeavesNoSession` over every
pair of errors of Redis and MySQL; `ViewShowsContent` over typing, pasting, late reports
and insertions by an editor that is gone; `PollsGoForward` over polls of an effect that
was disposed.

What the violated properties show (quotations in `PROJECT.json`, `findings`):

1. A failure in the `queue` or `build` stage is refused by `allowedTransition`,
   so the lock is never released, although the service's README says such
   failures are accepted and the design says an administrator can end the job.
2. An article can be trashed between the creation of the release that publishes
   it and its success.
3. A deployment without any fault leaves `current` pointing at a name beside it at
   which there is nothing: the files are in `releases/`.
4. An error behind the switch of the link makes the pipeline report a failure, and
   `current` names the failed release; nothing switches it back.
5. `lock_version` starts at 1 on every new draft and a save names no row, so a
   tab that holds the draft before a version or a release overwrites a later edit
   of the new one when the numbers meet.
6. After a tag that two published articles share is renamed, no draft saved since
   can be released: the release would carry the old name of the other article.
7. A refetch of the article restarts the editor although edits wait to be saved:
   what was typed is gone. The flag that should hold refetches back is never set.

Seen while modelling and not stated as a property, because no document promises
otherwise or the run would show a single assignment:

- A Put of the hotlink policy whose commit's answer is lost returns before it
  invalidates; the policy it replaced is served until the next Put or restart.
- When the final success callback is lost, the attempt stays `deploying` and keeps the
  lock until a copy of its `release.json` is on the service's host. The design
  (`docs/superpowers/specs/2026-08-13-qiuxs-blog-design.md:533`) has the service read the
  deployed file; `blog.env.example` leaves the copying to the installation, and
  `Jenkinsfile.site` has no step for it. So no run claims that the lock is released
  when that callback is lost.
- A copy that is not replaced after the next release succeeded names a build which the
  database has overtaken. `ReconcileLocked` then asks for an administrator
  (`ReconcileAnswer` is "required"), before every Publish and at every start.
- A retry whose first attempt had moved its directory moves the stage into that
  directory and succeeds: the site that is deployed, and its `release.json`, are those
  of the first attempt.
- A `mv` or `ln` that fails on the web server is not noticed, and the attempt succeeds.
  (`CurrentHasFiles` excepts it, `LinkIsAccounted` has a line for it.)
- A retry publishes the whole snapshot that its release was created with, as the
  service's README says; a release that succeeded in between is undone with it.
- A rollback links `current` to any directory that is there, and the next deployment
  may remove it: directories are kept by their time only.
- Releases whose deployment fails between the move and the switch take places among
  the five directories that are kept. After four of them the next deployment removes the
  directory of the release that the database, until the last callback, calls current.
- An upload outlives its editor. When it ends after the author went to the source and
  typed there, the picture is put into what that editor knew last, and the text typed
  since is replaced (`useEditorImageUpload.ts`). What was typed into the view in the
  200 ms before an insertion is lost the same way. Choosing a file that is refused ends the
  upload before it.
- A refetch of a release that was served before a retry and is answered after it puts
  the page back to the failed attempt; polling ends there until the next focus. So does
  a retry whose answer is lost.
- go-redis repeats commands by default (`platform/redis.go:17`), so one failed login may
  count twice: `FailuresAreBounded` bounds the counted ones.
- Restoring a version freezes the draft it replaces without `ValidateFreezable`,
  which a version made by hand must pass.
- "Keep my changes" on the settings page starts from the server's fields, and
  fields edited during a save are overwritten when it succeeds.
- A 401 of a query sent before the present login signs it out.
- `blog-service.sh` waits for `/healthz` after a start, and `Jenkinsfile.service`
  asks for it; the service serves `/health/live` and `/health/ready` only
  (`health/handler.go`). As written, every start is taken for a failure after 60
  seconds, the new process is stopped, and the deployment of the service goes back
  to the release before, whose start fails the same way.
- Saves of the builder's fields are last-writer-wins, and a new URL saved without
  a token keeps the token of the old one.

## 4. Fairness

`FairSpec` assumes weak fairness of: each session's steps; `StartBuild` and the
steps of each build; `Restart`. The reasons are: an HTTP handler runs to its end
and its calls have timeouts; Jenkins takes builds from its queue in turn and its
`curl` calls end (`--max-time`, `--retry`); a stopped service is started again.
Fairness of a session is more than a handler's end: an idle session's next step is
another request, so it says that somebody publishes again sooner or later. Nothing
makes a fault, a Refuse rather than a Commit, a copy of `release.json` or an operator's
step happen.

`LockIsReleased` is claimed for models in which every report is answered and the
stages before the deployment succeed; `pub_early_failure` shows that it fails
otherwise, and a lost final report keeps the lock as said above. It does not rest on
reconciliation.

`ComponentsFairness` has two parts. `HotlinkFairness`: a goroutine that can go on does,
its query of the database ends (`WF` of each reader's steps; a context is never obliged
to end, and `ReadsEnd` needs no Put to come). `AutosaveFairness`: a timer that is set
fires (`Run`), and a save of the present epoch is served and answered, or fails
(`SaveProceeds`); a browser's `fetch` ends when the connection does. `DirtySettles`
needs no fairness of reloads, refetches or the author.

## 5. Proofs

`ReleaseProofs` proves, for every set of articles, settings, ids, build numbers
and times satisfying `ReleaseAssumption` (ids are positive integers, publishable
settings are settings, the absent snapshot is no setting), that `Spec` implies
`[]TypeOK`, `[]SingleActiveJob`, `[]ReleaseMatchesJobs`, `[]PointersMatchCurrent`,
`[]SnapshotIsFrozen`, `[]FirstAttemptChangesOneThing`, the action properties
`OnlySuccessAdvances` and `HistoryIsImmutable`, and the refinement
`PublishingIsSerial`.

The argument. `NextIsAKind` shows that every transaction is of one of six kinds:
it creates a release with its first attempt, adds an attempt to a failed release,
records progress of the active attempt, ends it in success or in failure, or
edits content. The inductive invariant `IInv` is the conjunction of the checked
invariants with two more: `AttemptsHaveReleases` (an attempt's release is stored)
and `ActiveIsLatest` (no attempt was made after the active one). The latter is
needed because `ReleaseMatchesJobs` says that only the *latest* attempt can have
succeeded, and success is recorded on the *active* one. `FirstAttemptChangesOneThing`
needs `PointersMatchCurrent` (the base a release is built on is what is live) and
the lock (nothing advances `current` before that attempt ends). One lemma per
kind preserves `IInv`; the action properties and the refinement follow from the
kinds and the invariant.

`PublishingProofs` proves, for every set of sessions and builds and every subset of
the thirteen faults (`PublishingAssumption`: the faults are known ones, the three
times the pipeline uses are times, at least one directory is kept), that `PSpec`
implies `Spec`, so that all of the above holds of the whole system, and `[]PTypeOK`,
`[]OnlyActiveBuildDeploys`, `[]CurrentHasFiles` and `[]LinkIsAccounted`.

The argument. A build is *shown* (`Shown`) when its run is behind the switch of the
link, the copied `release.json` or one a request has read names it, a success callback
for it is on its way, or a job records its success: everything from which somebody may
conclude that it was deployed. `ShownBefore`: a run becomes one only by passing the
switch. `ShownFacts`: what is known of a shown build (its attempt has its number and is
deploying or ended, its run is behind the switch, and its directory was touched by it or
a later run, or was old enough to be removed). The other parts of `PInv` say whom
requests, queue, runs, callbacks and directories name. `OnlyActiveBuildDeploys` is
inductive with them: the active attempt of a run that is moving files can be ended
neither by a success (its build is not shown) nor by a failure (a run that moves files
reports none).

`CurrentHasFiles` says that some attempt of the current release put the files there, not
that the last one did: `DirectoriesAreMoved` knows that whatever is at the top of
`releases/<r>` was moved there by a run of an attempt of r that was told to deploy, and
that `touched` is known when `dir` is. Removing directories needs three more facts.
`OvertakenKept`: a build overtaken by as many newer directories as are kept stays so,
although some of these are removed themselves; `TopSurvives` says why, of any finite
ranked set: take the removed element with the fewest above it, then all of those stay,
and they are enough. `RunsInTurn`: builds run in the order of their numbers, so the run
that prunes is the newest, and no directory that a run still needs is overtaken
(`RunningIsNewest`).

`LinkIsAccounted` needs two facts about the attempt that is deploying. `ShownIsLinked`:
if its build is shown, the link names its release, so a success that is recorded makes
current what is linked. `SwitchedHasNotFailed`: if the link names its release and nothing
fails behind the switch, then its failure is neither reported nor going to be. Both
suppose that nobody else moves the link and no switch fails unnoticed (`Undisturbed`);
with those faults the invariant only says that the link names an attempt that ended.

Every step is described in five
parts, each proved once of `PNext`: what it does to attempts, runs, files,
callbacks and requests (`JobsMove`, `BuildsMove`, `FilesMove`, `MessagesMove`,
`RequestsMove`).

`RevisionsProofs` proves, for every set of tabs, ids and contents and every
`MaxLock` satisfying `RevisionsAssumption` (0 is no id, the empty content is a
draft but not fit, a lock is positive), that `Spec` implies `[]TypeOK`,
`[]OneDraft`, `[]HistoryIsNumbered`, `[]LockFixesContent` and the refinement
`HistoryIsAppendOnly`.

The argument. `StepIsAKind` shows that a step leaves the rows alone, saves the
draft, or replaces it by a copy, and that a tab afterwards holds what it held or
the draft as it now is. `LockFixesContent` is the heart: a draft read at any time
names a stored row, no lock of that row has gone backwards, and equal locks mean
equal content. It is proved of each single draft (`KnownStays`), which is why it
holds of held drafts and of checked requests alike. With it a version that is
committed freezes exactly the content that was checked, although the check was a
transaction of its own; `RequestsWereChecked`, which the inductive invariant adds,
says that this content was fit. `HistoryIsNumbered` gives each number below the
draft's exactly one frozen row, so that the versions of the refinement are a
sequence (`FrozenRows`); a replacement appends to it (`VersionsGrow`) and every
other step leaves it alone (`VersionsStay`).

`SettingsProofs` on `HotlinkCache` (any number of requests and Puts): `CacheInv` says that a
cached policy is no older than the last acknowledged one, that a load whose
generation is the present one leads the registered flight, and that what such a
load has read is fresh. The heart is `PutReturns`: it raises the
generation in the step that acknowledges, so no good load is older than it.

`CallerProofs` on `CallbackDelivery` (any messages, nonces, times, and any number of
deliveries): the status moves forward only, and the job stands at or behind the status
of every message applied (`AppliedIsPassed`), so a second application of a message is
refused by the store even when its claim has ended. A claim covers every earlier claim
of its nonce (`ClaimsCover`), hence `NonceHasOneOwner`.

`CallerProofs` on `AdminAccess` (any finite set of logins, any limits): `CountersHaveRoom`
counts the failures together with the logins that may still add one; a login is
let through only under the limit. `EarlyLoginsHaveNoToken` makes every ending of
a login account for its session.

`SettingsProofs` on `BuilderConfig` and `SiteForm`: a save that has found the builder's
row holds its lock and knows it as it is (`SavesKnowTheRow`), so the token it writes
back is the newest; everything the settings page holds or has sent pairs a lock version
with what the row held at it, and rows are only added.

`AdminPageProofs` on `Autosave` (any number of edits and of saves by other tabs): every answer
names a lock version and the document the server has at it, and a request of the
present epoch and generation carries the document that is shown, so "saved" is
set only for what was stored.

`AdminPageProofs` on `AdminSession` (any number of requests): signing out begins a
new generation, so a request of the present generation was made since the page
was last signed out, and only such a request signs it in.

`AdminPageProofs` on `VisualEditor` (any pieces, pictures, number of editors and of
reports): the view is what the page was told of it, or the last report that is due is of
the view as it is and will be heard (`ViewIsToldOf`). The report that is ignored is that
of a paste, which was told at once; a text is pasted as it is into an empty document
only, so no later document is taken for it (`PasteWasFirst`).

`AdminPageProofs` on `PublishingPage` (any number of statuses, attempts and polls): a poll
of the running effect was served a view that is not before the effect's
(`AnswersAreInOrder`), because the effect started with a view the service had had by
then; and a page that has rendered shows the effect's view.

On `BuilderConfig` also: a prepared target is usable, and its job, once written, has the
fields of the configuration that is sent (`TargetIsAsPrepared`).

`ContentProofs` on `TagSnapshots` (any tags, articles and renames): a copy of a tag, in
a draft, in a save under way or in the current release, has the slug its tag has in the
table (`CopiesAreSound`), because a rename leaves slugs alone and none is given twice.
On `MediaRegistry` (any files, keys and requests): the unique key gives a file one row,
and an answer is a row (`FilesHaveOneRow`, `AnswersAreRows`), whatever ids are drawn.

`HealingSuffices` (any lane, any rows there before, any finite number of requests)
rests on a count. A heal reads the greatest id and then raises the counter beyond
it, so whoever draws an id afterwards can find it taken only by a row that was not
there when MAX(id) was read, that is by one of the requests that are still running,
or after the counter was lost again. `HealInv` charges every heal of a
request to a setback or to a row another request has stored since (`HealsWithin`),
and each of them once. The proof found the property, as it stood before, off by one:
it counted the losses of the counter only, and rows that are there before the counter
has given any id are one more setback. The run has such rows, and one loss; the theorem
is about any number of losses.

`BundleProofs` on `ReleaseBundle` (any articles, tags, titles, times, any length of
lists) has two parts. Of sorting: with keys that differ, the number of elements ahead is
a one-to-one map onto the places (`SortedKeepsElements`), so a sorted list has the
elements of the list, and two lists with the same elements, each once, are sorted alike
(`SortForgetsTheOrder`). Of the bundle: `RowsAreSound` says that a stored row has
articles that pass the checks, each once, that its articles together were assembled, and
that its checksum is that of the payload; it is inductive because a row is only ever
written after `PayloadOf` accepted it. From it, looking the tags up again by slug gives
back the very tags (`TagsAreFoundAgain`), so the payload computed from the rows is the
one computed before they were written; and a payload determines the articles with their
revisions and tags (`PayloadTellsTheArticles`). Of the checksum: a published article has
a revision that no stored row has (`UnusedRevisions`), so equal revisions mean equal
articles (`RevisionsAreFresh`), and what is assembled of them does not depend on the
order they were put together in (`PayloadIsOfTheContents`). Hence `RevisionsFixChecksum`
in both directions: two releases have one checksum exactly if they have the same
settings and the same frozen revisions.

## 6. What is only model-checked

Liveness (`LockIsReleased`, `ReadsEnd`, `DirtySettles`) is out of the prover's reach.
Every invariant and every action property that a passing run checks is stated by a
theorem. The runs that find a violation have no theorem, of course; their properties are
false.

## 7. Not modelled

- Wiring, configuration, connections, health, the command line, and
  `httpapi/admin.gen.go`, which is generated: nothing there keeps state after
  startup.
- HTTP parsing, the negotiation of encodings, the rendering of problems; the
  parsing of Markdown and of URLs, hashing and signing: predicates on a message
  or a content, which each model takes as a set of those accepted.
- The retries of `article.Service.Get` between its two reads: `Load` in
  `Revisions` is the read that found the pointer unchanged.
- The page of an article's versions, the list of releases beside `PublishingPage`, and
  the error messages of both.
- In `VisualEditor`: deleting and undoing, an editor that cannot be created,
  changes that the listener does not report, and the layout.
- A remote command that outlives its ssh connection, and the link that a failed `mv`
  leaves in `.current-new`.
- The deployment of the service itself and its process control: the probe above
  makes every start fail; `Publishing` has the service stop and start again.
- A crash after the commit of a job and before the Jenkins call leaves a pending
  job that nobody ends; no document promises otherwise, so it is not stated as a
  property, but `pub_faults` contains those states.
- The static site generator: `BuildSite` succeeds or fails.

## 8. Plan

Done: `Release`, `SerialPublishing`, `Publishing`; `Revisions`, `RevisionHistory`;
the twelve components above; the proofs listed under *Proofs*.

Left: the page of an article's versions over `Revisions` (its query, its comparison and
its restore), the list of releases over `PublishingPage`, and the process control of
`blog-service.sh`.
