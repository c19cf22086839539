# Deployment Validation Operator: TLA+ models and proofs

The operator lists every namespaced object of a cluster in rounds, groups the
objects of a namespace by their labels, runs kube-linter on the groups that
changed, and publishes what fails as Prometheus gauges.  What is hard about it is
not the linting but the bookkeeping around it: a cache that decides what is *not*
validated again, gauges that outlive the run that set them, rounds that are given
up half way, and a second goroutine that replaces the checks, empties the cache
and resets the gauges while a round runs.

## 1. Inventory

| part | source | state | operations | hard behaviour |
|---|---|---|---|---|
| generic reconciler | `pkg/controller/generic_reconciler.go` | `apiResources`, `objectValidationCache`, `currentObjects`, locals of a round | `Start`, `reconcileEverything`, `reconcileGroupOfObjects`, `handleResourceDeletions`, `LookForConfigUpdates` | rounds abandoned at any error; objects and namespaces change between List calls; a member of several groups; discovery tried once |
| grouping of objects | `groupAppObjects` there, `pkg/utils/labels.go` | map from label set to objects, continue token | `processResourceLabels`, `processResourceSelectors` | result depends on the order of kinds; pages |
| selection helpers | `pkg/utils/selector.go`, `object.go` | none | `GetLabelSelector`, `hasEmptySelector`, `IsOwner` | five places a selector may be in, empty selectors |
| API discovery | `pkg/controller/reconcileobjects.go` | set of resources | `reconcileResourceList`, `Add`, `getPriorityVersion` | several groups and versions of one kind, in any order |
| validation cache | `pkg/controller/validationscache.go` | map from key to resource version and UID | `store`, `has`, `remove`, `objectAlreadyValidated` (which also removes), `drain` | no lock, shared by two goroutines |
| watched namespaces | `pkg/controller/watchnamespaces.go` | list of names and UIDs | `getWatchNamespaces`, `resetCache` | UID stale within the round |
| validation engine | `pkg/validations/` | `config`, `registry`, `enabledChecks`, `registeredChecks`, gauge vectors | `RunValidationsForObjects`, `processResult`, `clearMetrics`, `DeleteMetrics`, `ResetMetrics`, `SetConfig`, `InitRegistry`, `getValidChecks`, `removeCheckFromConfig` | three fields published without a lock; series deleted by exact label set; recursion; removal in a shared array |
| ConfigMap watcher | `pkg/configmap/configmap_watcher.go` | `cfg`, an unbuffered channel | Add/Update/Delete handlers, `GetConfig`, `ConfigChanged` | `cfg` written while it is read; blocking send; a type assertion that can panic |
| metrics server | `pkg/prometheus/prometheus.go` | gauge registry, HTTP server, error channel | `PreloadMetrics`, `Server.Start` | the goroutine that serves, the channel and the context, in any order |
| process | `main.go`, `internal/options` | none | `setupManager`, start, signals, exit | restart loses everything in memory; signals at any moment |

How they interact: the manager starts the reconciler, the watcher and the metrics
server.  The reconciler's `Start` spawns `LookForConfigUpdates`, which receives the
watcher's signals and writes the engine's fields, the cache and the gauges.  The
reconciling goroutine reads and writes the same engine, cache and gauges.  Nothing
is locked except inside the Prometheus client.

What makes the parts correct:

* the cache hides no failure: an object that is skipped is correctly reported;
* a series can always be deleted, and disappears when its object does;
* nothing fresh is forgotten, whatever fails in between;
* a persistent failure is reported for good; a shutdown ends the loop;
* a configuration that stays in the ConfigMap is in force at last, and a rejected
  one leaves nothing behind; verdicts of an old one do not survive an update;
* a misspelled name costs no valid check;
* discovery, paging and sorting leave no object out, and groups do not depend on
  the order of anything that comes unordered;
* the process ends when it is told to, otherwise only for a cause that its exit code
  tells, and never lives on without its metrics or its reconciler when these fail.

`PROJECT.json` lists the hazards line by line with the properties that cover them.

## 2. Modules

```
Groups ------------+
Checks - Cluster --+- ValidationEngine - Reconciler -+- ReconcilerProofs - SeriesProofs - RefinementProofs
   |     ValidationCache --(INSTANCE)------^  :      |                                       |
   |                        Reporting ..(refines)    +- MCReconciler                         |
   |                           +- ReportingProofs    |                                       |
   +---- ConfigWatcher ------------------------- Operator - MCOperator                       |
                                                     +----------- OperatorProofs ------------+

Discovery, Groups, Selectors -- Grouping -- MCGrouping
                                   +------- GroupingProofs -- PagesProofs

CheckConfig (Checks by INSTANCE), MetricsServer -- Process -- MCProcess
                                                      +------ ProcessProofs
```

Three compositions are checked: the reconciler with the cluster (Reconciler, and
Operator with the updater and the watcher added), discovery with grouping
(Grouping), and the life of the process (Process).  They meet in definitions they
share: `Groups` is what Grouping computes and what Reconciler works with, and
`Checks` is what CheckConfig computes and what Operator publishes.

* **Checks** - check names, configurations and what `getValidChecks` makes of one.
  `Metered` are the checks `PreloadMetrics` created a gauge for.
* **Cluster** - the environment: namespaces with UIDs, objects with resource
  versions and manifests.  A manifest is reduced to what the operator can tell
  from it (labels, what its selector matches, what it fails alone and in company,
  replicas, whether it converts to its Go type).
* **Groups** - which objects belong together, as a function of their manifests.
* **ValidationCache** - the operations of `validationCache` as pure operators.
* **ValidationEngine** - the engine's fields and the pieces of its methods.
* **Reconciler** - one step per List call, per group decision, per run of
  kube-linter, per gauge set, per object stored.  `pc` says where the goroutine is:

  | `pc` | code |
  |---|---|
  | `discover` | before `once.Do` of the first round |
  | `watch` | `getWatchNamespaces` |
  | `namespaces` | loop head of `processNamespacedResources`; with no namespace left, `handleResourceDeletions` |
  | `list` | `groupAppObjects` |
  | `groups` | the loop over `relatedObjects` |
  | `lint`, `report` | `reconcileGroupOfObjects` before and after `run.Run` |
  | `idle`, `stopped` | the `select` of `Start`, and after its return |

* **Reporting** - the abstract specification: things fail checks and change; a
  reporter begins work on some, adjusts their gauges, settles them, forgets.
* **ConfigWatcher** - pending informer events, the handlers, the two halves of a
  write to `cfg`, the blocking send.
* **Operator** - the three goroutines over the shared state, restarts and panics.
  `raced` is a history variable: an update was published, drained or reset while
  a group was between its run and its storing, since the process started.
* **Discovery** - `reconcileResourceList`: the server's lists read in any order,
  the filters and `resourceSet.Add`, a failure at any point.
* **Selectors** - `GetLabelSelector` and its helpers, and, apart from it, what the
  Kubernetes API says of the same object (`SpecifiedMatches`) and which objects it
  admits (`WellFormed`).
* **Grouping** - `groupAppObjects` for one namespace: the kinds sorted, listed page
  by page from a snapshot (`ListPage`, one call of List), each object put under its
  label set and under those its selector matches (`ProcessItem`, one turn of the loop
  over the items), while objects change and pages fail.
* **CheckConfig** - include and exclude lists as slices of shared arrays; one step
  per question to the resolver, one per name removed.  `missing` holds what the
  regexp read from the error's text (`Quoted`), which need not be a name of the
  lists, and `depth` counts the calls of `getValidChecks` to itself.
* **MetricsServer** - `Server.Start`, its goroutine and their unbuffered channel.
* **Process** - `setupManager` step by step with bad settings and the configuration
  file; the runnables, the updater, signals, the manager's grace period, exit codes,
  and the panics of the program's own code: two settings, the recursion of
  `getValidChecks` that uses up the stack, `DeleteFunc` given a deletion the informer
  missed.  That last one is Operator's `HandlerPanics` too, where it is a restart.
* **MCReconciler**, **MCOperator**, **MCGrouping**, **MCProcess** - the clusters,
  configurations, servers and settings TLC uses.
* **...Proofs** - theorems (section 4).

Definitions whose name ends in `_<Something>` after the name of another one are
the mutated forms used to show that each property can fail.

### The refinement

`Reconciler!Promise` instantiates Reporting: a thing is an object under the UID of
its namespace (`Key`), its version the resource version, its verdict the cache
entry, the gauges are the series, and what is in work are the members of the group
in process.

| Reporting | Reconciler |
|---|---|
| `Change` | a write to the cluster |
| `Begin` | the decision about a group: `objectAlreadyValidated` may drop stale entries, and the members go to work or not |
| `Adjust` | a run of kube-linter with `clearMetrics`; a report processed |
| `Settle` | an object stored |
| `Forget` | `handleResourceDeletions` |

Everything else - discovery, namespaces, List calls, failures, the loop - is a
stutter.  `Forget` and `Begin` may drop a verdict only if it is stale or the thing
may be lost sight of (no labels), which makes the refinement the statement that
rounds lose nothing, and `Settle` requires the gauges to be true.

### Abstractions

* In Reconciler a List is one step; Grouping has its pages, which come from one
  snapshot.  Lists of two kinds are different steps in both.
* Groups are keyed by label set and taken in any order, as Go ranges over a map.
  A selector matches the label sets met before it in list order, its own object's
  included.  An object without labels and without a matching selector is in no
  group, so it is never validated nor seen.
* `clearMetrics` runs once per group with the reports of the group; it and
  `run.Run` are one step because it only deletes and commutes with other deletions.
* A verdict is data of the manifest: `fails` for checks that look at one object,
  `needs`/`provides` for checks that look at the lint context.
* Data races have the outcomes the build can produce: `cfg` is seen half written
  (`Mixed`: any set of checks, as the torn structure may pair the include list or
  `addAllBuiltIn` of one configuration with the exclude list of the other); the slice
  `enabledChecks` is seen with the array of one list and the length of the other
  (`Torn`; a length beyond the array is left out); the three engine fields are seen
  assigned in any order.
* `UpdateFunc` on a resync gets two equal objects and does nothing; it is left out.
* `readConfig` of an empty string succeeds with the zero configuration, so a
  ConfigMap without the expected key is one more member of `Config`.  README line
  97 of the repository promises the defaults in that case; it is not pursued as a
  finding because the resolver's own defaults may still apply.
* kube-linter's resolver is external.  It names the unknown checks of the include
  list that are wanted and perhaps those of the exclude list (`Reportable`); names
  with a comma (`Awkward`) are those the pattern for its error misses.  The error
  quotes names as Go does, and the pattern reads a quoted name with its backslashes
  (`Quoted`): such a name (`Misread`) is not the one in the lists, unless what is read
  happens to be another name there, so the loop removes nothing and the recursion
  goes on until the stack is used up.  `MaxDepth` stands for the stack, of which is
  assumed only that a configuration without such names fits; a container with little
  memory may be killed earlier, which is the same end with another exit code.
* The manager, `net/http` and signal handling are external to Process: a first
  signal cancels, a second kills, runnables are awaited for a grace period that may
  end at any time.  The updater's goroutine is not a runnable and is not awaited.
  Process knows of the reconciler only whether its loop runs; that a cancelled loop
  returns is `ShutdownStops` of Reconciler.

## 3. Runs

All runs: `tlc -config <run>.cfg <module>`.  Deadlock is checked in `grouping`.  It
is off elsewhere because the system stops: after a shutdown (`pc = "stopped"`) or an
exit only a bounded environment is left, and it runs out.

| run | module | checks | what it shows |
|---|---|---|---|
| `groups` | MCReconciler | `TypeOK`, `NoFailureHidden`, `SeriesTracked`, `ImplementsReporting` | two overlapping groups, three objects that are fixed, scaled down, deleted at any point of a round |
| `aborts` | MCReconciler | `IInv`, `FreshEntriesKept`, `AlarmsHaveCauses`, `ImplementsReporting` | two namespaces (one created again with a new UID), one failing call, an object that stops converting |
| `live` | MCReconciler | `FixedClearedIfNotShared`, `FailureReported`, `DeletedForgotten`, `ShutdownStops` | failures are reported, deletions forgotten, fixed objects cleared at last; a shutdown ends the loop |
| `config` | MCOperator | `OperatorTypeOK`, `ConsistentConfig`, `HiddenOnlyByRace`, `OrphanOnlyByRace` | updates of the ConfigMap during rounds |
| `config_live` | MCOperator | `ConfigConverges` | creations, rewrites, deletions, torn reads, panics and the restarts they cause |
| `restart` | MCOperator | `FailureReportedUnlessRaced` | restart and the update every start brings |
| `grouping` | MCGrouping | `GroupingTypeOK`, `BestVersionKept`, `GroupsAsSpecified`, `NothingMissed` | discovery in any order, kinds in every order `sort.Slice` may leave, pages, edits and failures between them |
| `process` | MCProcess | `ProcessTypeOK`, `EnabledAsAsked`, `UnknownNamesIgnored`, `CleanExit`, `ExitHasCause`, `NeverHalfAlive`, `SignalEnds`, `ResolutionEnds` | set-up, serving, configurations with misspelled, repeated, quoted and awkward names, a missed deletion, signals and errors in any order |

Bounds.

* `groups`: an object may change once after its creation, so it can be validated,
  changed and validated again with another object of its group in any phase; the
  third object is in two groups.
* `aborts`: three namespace UIDs for two names, so that one namespace is deleted
  and created again while the other lives.  One failing call is enough for a round
  that is given up between two complete ones; further failures repeat it.  Each
  namespace has one object, so a neighbour never excuses an alarm here
  (`AlarmsHaveCauses`): that disjunct is covered by the theorem.
* `live`: two deployments and two checks with a gauge.  The first is fixed while the
  second, in its group, keeps being reported for the other check: the case
  `FixedClearedIfNotShared` is about.  The second may also move to a group of its own
  in which it does not convert, so rounds are given up there after entries of a group
  were dropped, and `DeletedForgotten` of the first has to survive that.  One UID of
  the namespace; namespaces created again are in `aborts`.
* `config`: the ConfigMap exists or not at start, and changes once, so that one
  update follows another; three checks, two of them with a gauge.  The two
  configurations share a check, so a report of a run under the old one can still be
  accepted after the update, and the objects fail checks of both.
* `config_live`: no objects (which configuration is in force does not depend on
  them), but two changes, and panics restart the process; one built-in and one
  custom check, so that half-written configurations with an unknown check occur.
* `restart`: one check (which one hides a failure does not depend on another), one
  restart, one failing call and one change of an unrelated ConfigMap.
* `grouping`: pages of one object (`ListLimit = 1`), so every kind with two objects
  needs a continue token; one edit, which can fall between any two pages or between
  the objects of one; every path a selector may be read from occurs; a server
  with three versions of deployments and an older one with an unrecognized kind.
* `process`: at most one bad setting, since set-up ends at the first; one update;
  two signals, as a third finds no process.  The lists repeat a misspelled name,
  name a check in both lists, have unknown names in the exclude list, and a name with
  a quote.  `MaxDepth` is just above what the longest of them needs, so that a call
  too many would be seen.

Each of these runs stops at a disagreement between the code and what it says:

| run | property | disagreement |
|---|---|---|
| `stale_series` | `FixedCleared` | `clearMetrics` keeps a fixed object's series while a neighbour fails the same check; when the neighbour is deleted afterwards the group is skipped and the series stays for good |
| `no_replicas` | `NoReplicasCleared` | the labels to delete are built without the namespace UID and match nothing (comment at `validation_engine.go:166`) |
| `foreign_delete` | `ConfigConverges` | `DeleteFunc` ignores the name (README line 97 of the repository) |
| `startup_race` | `FailureReported` | gauges are reset after the drain (`generic_reconciler.go:161`); the first Add event is enough |

`FixedClearedIfNotShared`, `AlarmsHaveCauses`, `HiddenOnlyByRace`, `OrphanOnlyByRace`
and `FailureReportedUnlessRaced` show the other half: without such a neighbour the
series disappears, a series that is kept has such a neighbour as its only excuse, and
without such an overlap updates and restarts hide nothing and leave nothing behind.
`AlarmsHaveCauses` thereby permits what `stale_series` finds; it says that there is no
other way to it for an object the cache holds.

Limits of the code that appear as hypotheses of properties rather than as findings:

* a check without a gauge, as a custom check is, is never reported (`Reportable` of
  Reconciler);
* a discovery that failed is never tried again (`discovered`);
* one unconvertible object ends the round, so namespaces after it starve for as long
  as it is there (`generic_reconciler.go:337`); the liveness properties of rounds
  speak of clusters in which every object converts at last (`AllConverting`);
* `objectAlreadyValidated` has dropped the stale entries of a group by the time an
  object in it fails to convert (`validationscache.go:123`).  If another object of
  that group is then deleted, nothing leads to its series and it stays for good:
  `DeletedForgotten` excludes an unconvertible object in a group the deleted one could
  be in (`ConversionFailsApart`), and `SeriesTracked` is proved under `AllConvert`;
* a name with a quote or a backslash is never removed and ends the process
  (`validation_engine.go:313`): `ResolutionEnds`, `EnabledAsAsked` and `ExitHasCause`
  name it (`Misread`);
* a deletion the informer missed ends the process (`configmap_watcher.go:118`):
  `ExitHasCause` names it, `ConfigConverges` holds through the restart;
* a verdict of the old checks can be stored after the drain
  (`generic_reconciler.go:160`, `:347`), the race that `raced` records;
* a check that looks at the whole group may be decided by a member that is gone;
* a `VALIDATION_CHECK_INTERVAL` that is not positive panics, after the metrics are
  served already (`ExitHasCause` counts it as a bad setting);
* the comment at `generic_reconciler.go:214` says apps/v1 comes first, while the
  core group, whose name is empty, sorts before it; groups are what `Groups` says.

### Fairness

`WF` of a round: the goroutine of `Start` always runs and its ticker always fires
again; each List returns, with a result or an error.  `SF` of `Stop`: the select
of `Start` chooses at random among ready cases, so a done context that it meets
again and again is taken at last although a tick may be ready each time.  The
goroutines of `LookForConfigUpdates` and of the handlers run too (`WF`), and a
handler that panics does so.  In Process each goroutine of the program and the
manager keep running (`WF` each); `InitRegistry` has a fairness of its own because
either of two goroutines runs it.  Nothing is assumed of the cluster, of its users,
of the network, of signals, of configuration updates or of the grace period.
Bounds on the environment (`MaxVersion`, `MaxNsUid`, `MaxFaults`, `MaxChanges`,
`MaxForeign`, `MaxRestarts`, `MaxUpdates`) make it quiet at last; the liveness
properties of rounds are of the form "if ... for good", so that is what they speak
about anyway.

## 4. Proofs

For every value of the constants (clusters, groupings, configurations, servers,
settings and bounds of any size):

| module | theorem | states |
|---|---|---|
| ReconcilerProofs | `TypeCorrect`, `CacheHidesNoFailure`, `InductiveInvariant` | `[]TypeOK`, `[]NoFailureHidden`, `[]IInv` |
| SeriesProofs | `SeriesAreTracked`, `NoCheckIsMissing` | `[]SeriesTracked` if every object converts (`AllConvert`); `[]ChecksKnown` |
| RefinementProofs | `FreshEntriesAreKept`, `ReconcilerReports`, `AlarmsAreCaused` | `FreshEntriesKept`, `ImplementsReporting`, `[]AlarmsHaveCauses` |
| ReportingProofs | `ReportingIsTruthful` | `[]Truthful` of the abstract specification |
| OperatorProofs | `OperatorTypeCorrect`, `ConfigIsConsistent`, `OnlyRacesHide`, `OnlyRacesOrphan`, `NoRaceAlarms` | `[]OperatorTypeOK`, `[]ConsistentConfig`, `[]HiddenOnlyByRace`; `[]OrphanOnlyByRace` if every object converts (`AllConvert`); `[]AlarmsHaveCauses` of OperatorSpec |
| ProcessProofs | `ProcessTypeCorrect`, `ChecksAreAsAsked`, `RecursionIsBounded`, `UnknownNamesCostNothing`, `ExitIsClean`, `ExitsHaveCauses` | `[]` of `ProcessTypeOK`, `EnabledAsAsked`, `CallsAreBounded` of ProcessProofs, `UnknownNamesIgnored`, `CleanExit`, `ExitHasCause` |
| GroupingProofs | `BestVersionIsKept` | `[]BestVersionKept` |
| PagesProofs | `GroupingTypeCorrect`, `NoObjectIsMissed`, `GroupsAreAsSpecified` | `[]` of `GroupingTypeOK`, `NothingMissed`, `GroupsAsSpecified` |

The assumptions are those on the constants (`...Assumption`), which TLC evaluates in
the runs, and the two hypotheses stated in their theorems (`AllConvert` in
`SeriesAreTracked` and `OnlyRacesOrphan`, and that the versions of Reporting are
natural numbers).  `CheckConfigAssumption` says of quoting that it tells names apart
and leaves those of the built-in checks alone, and of the stack that it holds as many
calls as a configuration has entries.  `ManifestAssumption` of Grouping says that
objects are such as the API server admits: a selector stands under one field, as a
label selector or as a plain map.

*Types.* `TypeOK` is not inductive alone: keys and series are made of `nsId`, the
UID of the namespace in process, which is a UID only while `pc` is inside a
namespace.  `TypeInv` adds that (`InNamespace`).

*The cache.* `NoFailureHidden` says that a cached object at its live version has
every failure on the gauges.  It needs to know why the step that makes an object
cached, `StoreObject`, is right: `GroupEntries` (the members of the group were
listed, and what the cache holds of them is of the listed version), `ListedOnce`
(if the listed version is still the live one, the listed manifest is too) and
`ReportsPending` (each failure of a listed member is among the reports not yet
processed or already a series).  `CachedOnce` (an entry never is of a version
that does not exist yet) is what makes a write to the cluster harmless: it makes
the entry outdated instead of wrong.  The delicate step is `RunLint`, whose
`clearMetrics` deletes series of members that may still be cached; the proof shows
that such a member would be reported by the same run.  Lemma `HidesNothing` covers
every step that only drops entries or adds series.

*The series.* A series is added only for a member of the group in process
(`GroupInProcess`), and a cached key is dropped either because its object becomes
a member (`BeginGroup`), in which case `StoreObject` caches it again with a
version that is not empty (`ManifestsGiven`), or together with its series
(`handleResourceDeletions`).  The hypothesis is needed: an unconvertible object
ends the round after the entries of its group were dropped, and if one of the
members is deleted before the next round nothing leads to its series any more.
With it, List calls are the only steps at which a round is given up:
`NoCheckIsMissing` shows that under a fixed configuration neither `RunLintFails`
nor `ProcessReportFails` can happen, which is why these two are steps of `Operator`
and not of `Reconciler`'s `Next`.

*Nothing is lost sight of.* `FreshEntriesKept` and the `Forget` and `Begin` of the
refinement rest on `RoundInv`, above all on `SeenOrAhead`: a cached object that has
labels and is where it was is among the objects seen in this round, or the round is
still ahead of it - in its namespace, its kind, the listing, or its group.  At the
end of a round nothing is ahead, so what was not seen may be forgotten.  The other
conjuncts say what is needed to move an object from one place to the next: listings
belong to the namespace in process and to kinds already listed, ignored namespaces
are never looked at, members were seen when their group began.

*The alarms.* `AlarmsHaveCauses` is the converse of `NoFailureHidden`: an object that
is cached keeps no series it cannot account for.  While a group is between its run
and its storing, what its members have on the gauges is caused by what was *listed*
of them (`RunCaused`): `clearMetrics` has left only series whose check the run
reported for some member, and such a member is the object itself or a neighbour in
its namespace (`NeighboursCause`).  `StoreObject` then makes an object cached at its
live version only if the listed manifest is the live one (`CachedAsListed`), so the
cause carries over.  A write to the cluster gives the object a version that is not
cached, and says nothing of its neighbours' causes, which is why the neighbour of
the property is one that *could* fail the check: its manifest may have changed since.

*The refinement.* Each kind of step has its lemma (`RefinesChange`, `RefinesBegin`,
`RefinesAdjust`, `RefinesSettle`, `RefinesForget`, `RefinesStutter`);
`RefinesSettle` uses the cache invariant, `RefinesForget` uses `SeenOrAhead`.
With `ReportingIsTruthful`, the abstract reporter gives `NoFailureHidden` a second
time.

*The operator.* `ConfigIsConsistent`: while `InitRegistry` publishes, what it has
assigned already is of the new configuration (`PublishInv`).  `OnlyRacesHide`: as
long as no race happened, the cache invariant holds up to `ReportsPending` and
`NoFailureHidden`, which are suspended while an update is published and applied;
no group is in validation then, so nothing is stored, and after the drain the cache
is empty (`RaceInv`).  `OnlyRacesOrphan` (`OrphanInv`): without a race the reports in
process are of checks the engine knows, so a round is not given up between a report
and the storing of its object (`NoOtherFailure`); and between the drain, which leaves
every series without its entry, and the end of the resets, every series is of a gauge
vector still to be reset.  `NoRaceAlarms` needs no such reservation: what a race can
do is hide a failure or leave a series without its entry, but what the cache does
hold is never told of something that neither it nor a neighbour can fail (TLC checks
the property in `aborts`, without the updater).  That is so because `ListingInv` -
listing, entries and group agree with the cluster - does not speak of checks or
gauges at all, and because the updater only drains the one and resets the other.
`FailureReported`, the run `startup_race` and this theorem together say what a race
costs: alarms that are missing, or that stay when their object is no longer cached.

*Configurations.* A slice keeps, of the list it was given, every known name, unless
one is misread (`Kept`): what is read instead may be the name of a custom check, which
then is removed.  Its array holds nothing that was not in the list (`Keeps`).  `WithoutOne` shows
that moving the rest of an array down over one place loses only what was there;
the resolver never names a known check, so a removal never loses one.  When it is
content, what is wanted is known, and both the lists as asked and the arrays as left
resolve to it.  That a name which is present has a first place needs the naturals
to be well-founded (`SmallestOfSome`).  `DepthInv`, the measure behind
`ResolutionEnds`: what is still to be removed is in one of the lists, so each call of
`getValidChecks` to itself has cost them an entry, and the calls and the entries left
are together no more than the entries there were (`CallsAreBounded`).  As that is
below `MaxDepth`, a stack that is used up means a name that is misread
(`OverflowIsMisread`), which is what `ExitHasCause` needs.

*The exit.* A lemma for each group of steps that can end the process (`SetUpEnding`,
`ServerEnding`, `RunnableEnding`, `ManagerEnding`) says that it does so with the code
of its cause.  `ManagerInv` says that a context is done for a reason and that nothing
was up before the manager; `ServerInv` what `Start` and its goroutine may rely on.

*Discovery.* `DiscoveryInv`: one entry of a kind, of a version that was read and no
later in the scheme than any that was.

*The pages.* The invariant (`GroupingInv`) describes the map while it is built, object
by object.  `InOrder`: what was met comes, kind for kind and object for object, before
what is on the page, that before what the continue token leads to, and that before
the kinds still to be listed.  So the next object was never met before, and every
object a selector could have been asked about has been met exactly when it is in a
group already; with `Groups`, whose selectors look at the label sets met before, each
turn of the loop adds to every group what module Groups adds for that object
(`GroupHolds`).  Whether the selector matches is a lemma about `GetLabelSelector`
alone: of each field in which a selector may stand, it reads what the Kubernetes API
means (`SelectorField` and the lemmas after it).  `NoneLost`: an object of a kind
discovered is among the objects met, on the page, behind the token, or of a kind to
come; `SteadyAsSeen` says that it was met as it is.  Two kinds that sort alike, in
which `sort.Slice` may leave either order, cannot occur, because `DiscoveryInv` gives
one version of each kind.

Every safety invariant and action property of the passing runs is proved.  Only
model-checked are the liveness properties under fairness (`live`, `config_live`,
`restart`, and `SignalEnds`, `NeverHalfAlive`, `ResolutionEnds` of `process`), which
this prover does not reach.

## 5. Not modelled

* flags, ports and the pprof handlers (`internal/options`, `main.go`): they configure
  libraries; the reading of settings is reduced to whether it fails;
* `pkg/stringutils`, `version`, `config`, and `IsController` and `IsOpenshift` of
  `pkg/utils/object.go`: pure helpers and constants;
* the text of YAML, of environment variables and of metric labels other than
  check, object and namespace UID;
* client-go, the informer, controller-runtime, `net/http` and kube-linter, which are
  libraries: they appear only as the environment (`Cluster`, the events of
  `ConfigWatcher`, `Fails`, the resolver of `CheckConfig`, the manager of `Process`);
* memory: the Go map and slices are values; that an unlocked map write may crash the
  process is covered only as the restart it causes, and not as an exit of Process;
* panics inside the libraries, which `ExitHasCause` sets aside.

## 6. Plan

Done: the reconciler with its cluster, the updater and the watcher; the abstract
reporter and the refinement; discovery, selectors and grouping; the resolution of
configurations; the metrics server and the life of the process; theorems about each.

Open, in order of value:

1. One composition of Operator and Process, so that a restart is an exit with its
   cause; TLC would need a reduced reconciler (Reporting is a candidate).
2. What remains true after a race: which series and entries an overlap of an update
   with a group can leave wrong, and that the next update repairs them.
3. Larger clusters for `live` (three namespaces) with a faster liveness check.
