# Verification of the OpenEverest MariaDB provider

TLA+ models of the provider's reconcilers, the TLC runs that check them and the
theorems TLAPS proves about them. Paths such as `validate.go` are relative to
`src/internal/provider/` unless they start with `src/`.

The provider turns an OpenEverest `Instance` into custom resources of the
mariadb-operator. It keeps no state of its own: everything it knows is in the
Kubernetes API server, and it reads it through an informer cache. Two other
programs act on the same objects: the OpenEverest runtime, which calls the
provider, and the mariadb-operator, which acts on what the provider declares.
Neither is part of this repository; what the models say of them comes from the
calls, watches and comments of the provider and is marked external in
`PROJECT.json`.

## 1. Inventory

| Component | State it keeps | Operations | Code |
|---|---|---|---|
| Admission | none; reads the cached `MariaDB` | `ValidateMariaDB` and the checks it calls | `validate.go` |
| Engine reconcile | the `MariaDB` resource | `SyncMariaDB`, `desiredMariaDB` | `mariadb.go`, `galera.go`, `replication.go` |
| Point-in-time recovery | reference in `MariaDB`, `PointInTimeRecovery`, base `PhysicalBackup` | `SyncPITR`, `teardownPITR`, `desiredPITRRef` | `pitr.go` |
| Seeding | two credential Secrets, `bootstrapFrom`, data source status | `resolveBootstrapFrom`, `copyInstanceSecrets`, `syncDataSourceStatus` | `datasource.go` |
| Scheduled backups | one `Backup` or `PhysicalBackup` per schedule | `SyncScheduledBackups`, two reconcile functions, two prunes | `backup_schedule.go`, `backup_physical.go` |
| Retention | `maxRetention` of those resources | `deriveMaxRetention`, `countRetention`, `parseRetentionDuration` | `backup_schedule.go` |
| Backups, restores | operator `Backup`, `PhysicalBackup`, `Restore`; mirrored Jobs | `SyncBackup`, `SyncRestore`, `CleanupBackup`, `CleanupRestore`, `Mirror` | `backup.go`, `backup_physical.go`, `backup_schedule.go` |
| Replica template | template `PhysicalBackup` | `SyncReplicaTemplate` | `replica_template.go` |
| Status, connection details | phase and endpoint of the Instance | `StatusMariaDB`, `buildConnectionDetails` | `mariadb.go` |
| MaxScale proxy | `MaxScale` resource | `SyncMaxScale`, teardown, `readyMaxScale` | `maxscale.go` |
| Monitoring | `ServiceMonitor`, `VMServiceScrape` | `SyncServiceMonitor`, `SyncVMServiceScrape` | `monitoring.go` |
| Cleanup | deletion order | `CleanupMariaDB` | `mariadb.go` |
| Server-side apply | field managers | `pruneUnset`, `migrateFieldOwnership` | `apply.go` |
| Backup storage status | recovery window shown on the Instance | `BackupStorageStatuses`, `pitrWindow` | `backup_status.go` |
| TLS, affinity | none | pure translation | `tls.go`, `affinity.go` |
| Wiring | work queue, watches | `New`, `Sync`, `Status`, `Cleanup` | `provider.go`, `src/cmd/provider/main.go` |

How they interact:

* The runtime reconciles each Instance serially. One reconcile is `Sync`, which
  calls the engine, replica template, MaxScale, monitoring, scheduled backup,
  PITR and data source steps in that order (`provider.go:79-103`) and stops at
  the first error, followed by `Status`. An error or a `WaitFor` brings the
  Instance back to the queue.
* `ValidateMariaDB` runs in the HTTP server `src/cmd/provider/main.go` starts,
  concurrently with reconciles. It never sees the previous Instance spec: the
  cached `MariaDB` resource stands for it.
* Backups and restores are reconciled on their own, by two more reconcilers.
* `New` watches the `MariaDB`, `PointInTimeRecovery` and `MaxScale` resources
  (`provider.go:58-68`). Scheduled resources, the PITR base, the replica template,
  the scrape objects, the operator `Restore` of a seed and the Secrets the operator
  writes (credentials, CA bundles) trigger nothing. Whether the runtime reconciles
  an Instance again without being asked is not decided in this repository, and
  nothing here relies on it except where a property says so (`announces`).
* Monitoring has two more writers: the operator creates a `ServiceMonitor` and
  never deletes it, the VictoriaMetrics converter turns it into a
  `VMServiceScrape` of the same name, which the provider may take over.

What is hard here: reads that are outdated when they are used; failures between
any two calls of a reconcile that is repeated later with another spec; fields
that can only be changed by deleting and creating again; an operator that
finishes things in its own order; and sequences of edits that are each
admissible and together are not. `PROJECT.json` lists these hazards at their
lines.

What makes each component correct:

* Admission and engine: an engine only runs legal node counts; topology and
  storage class never change, the volume never shrinks, no downgrade; what is
  admitted is applied and takes effect.
* PITR: archival is only on while its timeline exists, and ends as asked.
* Seeding: restored data meets the passwords it was taken with; Ready is only
  shown with the data in place; seeding ends, and the owner sees how.
* Scheduled backups: one resource per schedule; no resource is deleted that is
  still wanted; in the end what is declared exists and nothing else does.
* Retention: as many copies as the owner asked for, or those of the time asked
  for; an age that does not change by itself.
* Backup storage status: what is shown ends up being the storage asked for and
  whether it can be recovered from.
* Replica template: there as long as the `MariaDB` refers to it, and on the
  storage the Instance offers.
* Proxy, status, cleanup: MaxScale is asked to go before the servers are; clients
  end up at the endpoint the Instance asks for, with a CA when it uses TLS; a
  deleted Instance leaves nothing. Details are never those of another moment.
* Monitoring: what the converter made is left alone, what was taken over stays
  taken over, and the exporter ends up scraped by those the Instance names.
* Backups and restores: a restore runs at most once and only from a complete
  backup of the same Instance; what is reported is what happened; nothing is left
  behind.
* Everywhere: when no reconcile is to come any more, what the last one left is what
  the Instance asks for.

## 2. Modules

| Module | What it is |
|---|---|
| `EngineContract` | abstract specification: what an owner is promised about the engine |
| `EngineUpdate` | edits, admission and `SyncMariaDB` of one Instance; refines `EngineContract` |
| `PitrSync` | PITR: the three resources, every call of `SyncPITR`, the watches |
| `RecoveryWindow` | `PitrSync` with the recovery window the owner is shown |
| `SeedingContract` | abstract specification: what an owner is promised about the data, its success and the phase shown |
| `Seeding` | creation from `spec.dataSource` with the operator's restore and the phase; refines `SeedingContract` |
| `ScheduledBackups` | `SyncScheduledBackups` call by call |
| `Retention` | the age derived from a count or a time, and what the operator prunes with it |
| `RestoreContract` | abstract specification: what an owner is promised about an in-place Restore |
| `BackupRestore` | one Backup, one Restore, the operator resources and Jobs behind them; refines `RestoreContract` |
| `InstanceSync` | what the steps of one Sync share: the Instance, the `MariaDB` resource, field ownership, the reconcile itself |
| `ReplicaTemplate`, `Proxy`, `Monitoring` | one step of Sync each, on top of `InstanceSync` |
| `ProviderSync` | `Sync`, `Status` and `Cleanup` as the composition of the three |
| `EngineUpdateProofs`, `PitrSyncProofs`, `SeedingProofs`, `ScheduledBackupsProofs`, `RetentionProofs`, `BackupRestoreProofs`, `ProviderSyncProofs`, `ProviderRestProofs` | theorems and their proofs |
| `MCEngineUpdate`, `MCSeeding`, `MCScheduledBackups`, `MCRetention`, `MCProviderSync` | model values and sets for TLC |

`PitrSync`, `Seeding` and `ScheduledBackups` abstract the rest of the same
Sync to one outcome, a failure before or after the calls they model;
`ProviderSync` does the same for those three.

### Conventions

* `pc` names the next call of the running reconcile. Everything between two
  calls to the API server is one action; between two calls anything else may
  happen, and the reconcile may fail (`SyncFails`), which stands for an error of
  any call, an error of another part of Sync, and a restart of the provider.
* A resource has its value in the API server and one in the informer cache.
  With `CacheLag` the cache catches up at any time; without it a read waits
  until it has (`Fresh`). The cache jumps to the current state: the versions in
  between are not shown one by one.
* In `PitrSync`, `Seeding`, `BackupRestore`, `EngineUpdate` and `ProviderSync`
  the surroundings (lag, slow deletions, Secrets left by an earlier Instance, word of
  what is not watched, an owner who waits, a converter at work) are chosen in `Init` and do not change. A property that needs good surroundings says so in its premise,
  so that one run covers all of them.
* An operator named "variant" is a plausible mistake in the operator after it.
  `PROJECT.json` lists it as a mutant: with it TLC finds the property violated.

### `EngineUpdate`

| Model | Code |
|---|---|
| `spec`, `snap`, `desired`, `cr`, `cache` | the Instance; the copy a reconcile was given; the object it built; the `MariaDB` resource; the informer's copy |
| `UserEdit` | the owner's edit, admitted by `ValidateMariaDB` against the cache |
| `ValidateTopology`, `ValidateGaleraReplicas`, `ValidateReplicationScaleOut`, `ValidateVersionDowngrade`, `ValidateStorageUpdate`, ... | the functions of the same name in `validate.go` |
| `ReadExisting`, `Desired`, `DesiredClass` | `SyncMariaDB` up to the apply: the storage class is copied from the existing resource |
| `ApplyMariaDB`, `RejectedApply`, `OperatorAccepts` | the server-side apply and the operator's webhook, as `validate.go:461-462` describes it |

Admission is one action: a cached read and the write of the accepted spec. That
an accepted spec reaches the API server a moment later is the same as the cache
being a moment older. `waits` distinguishes an owner who waits for an edit to
take effect from one who does not; the latter edits within `RacedSpec`.

### `PitrSync`

`ResolveRef` is `desiredPITRRef` (the reference is only declared once the
PITR resource is seen), `ApplyMariaDB` the apply, `AwaitMariaDB`, `CreateBase`,
`KeepBase`, `CreatePITR`, `UpdatePITR` the calls of `SyncPITR`, `DeletePITR` and
`DeleteBase` those of `teardownPITR`. `MariaDBEvent` and `PITREvent` enqueue the
Instance, `BaseEvent` does not. `FinalizePITR` and `FinalizeBase` are deletions
that complete later.

### `RecoveryWindow`

| Model | Code |
|---|---|
| `window`, `windowCache` | `lastRecoverableTime` of the `PointInTimeRecovery` is set; as the informer shows it |
| `reporting`, `published` | Sync is done and the status is not written yet; the storage status the owner sees |
| `StorageStatuses`, `ReportStatuses` | `BackupStorageStatuses` with `pitrWindow`, and the runtime writing what it returns |
| `StatusEvent` | the watch on the `PointInTimeRecovery`, for a change of its status |
| `Archives` | the operator, once the base and the reference are there |

`PitrStep` is a step of `PitrSync`; no new Sync begins while a status is due. The
time itself is abstracted to whether there is one. `ReportStatuses` reads the PITR
resource and its status from the cache: in surroundings with lag both may be those
of an earlier moment.

### `Seeding`

`ReadExisting` to `ApplyMariaDB` are the creation path of `SyncMariaDB`,
`StageDataSourceStatus` is `syncDataSourceStatus`, `ReportStatus` is
`StatusMariaDB`. `Restores`, `BecomesReady`, `LosesReady` and `GenerateSecret`
are the operator: physical data is restored before the server starts, a logical
dump into a server that is up, binary logs once every Pod is ready; a server
whose data has other passwords than its Secrets never becomes ready. A restore of physical
data, of the base of a recovery, of a logical backup (`RestoreFails`) and a replay
may each fail.

An Instance is reconciled when it is queued: by its creation, an error or a `WaitFor`
(`Retry`), and the watch of the `MariaDB` (`CacheCatchesUp`). Everything else that may
queue it is `Woken`, which never has to happen. The failure of a logical restore is
read from the operator `Restore` (`datasource.go:279-291`), which is not watched; with
`announces`, the Instance is queued after it all the same, because the operator changes
the status of the `MariaDB` with it or the runtime asks again (`FailureAnnounced`).
`SeedingEnds` names the two ends its owner is not told of (`EndsUnseen`): that failure
without `announces`, and a failed restore of physical data, for which
`syncDataSourceStatus` has no case and shows Restoring for ever
(`datasource.go:247-253`, `315`).

`SeedingPromise` maps the model to `SeedingContract`: `data` is whether the source's
data is in place, `recorded` the Succeeded recorded in the data source status,
`shown` the phase. `Promised` restricts it to current reads and an Instance that has
a data source; Secrets left by another Instance are included.

### `ScheduledBackups`

`NextSchedule`, `SwitchKind`, `Recreate`, `CreateResource`, `UpdateResource` are
the body of the loop, `ListStale...`, `DeleteStale` the two prunes. A Sync ends
at the first error; a missing `BackupStorage` is one. A configuration error of a
schedule is another and has the same effect, so only the storage is modelled.
A schedule name is declared once. `Delete` takes effect at once: the resources have
no finalizers. One that stayed, terminating, would be found again by the next call
and the next reconcile, which do not look at its `deletionTimestamp`
(`backup_schedule.go:145-176`, `254-263`), and nothing watches its end; neither
`NoTwin` nor `SchedulesAtRest` speaks of that.

### `Retention`

A schedule is the cycle of gaps between its runs. `DeriveMaxRetention(i, left)`
is the function of that name `left` days before the run of slot `i`: the interval
is the gap after that run, as in the two calls of `Next` on the parsed cron
expression. `Reconcile` may happen at any time between two runs. `Duration` is
the int64 arithmetic of `time.Duration`, in days. The operator prunes by age
after each successful run. Gaps are positive: for a cron expression with no next run
the code takes a day (`backup_schedule.go:124-126`), which no copy ever depends on, and
one that does not parse is a configuration error. `taken` are the ages of all copies made, `stored` of
those still there.

### `BackupRestore`

`SyncBackup` and `SyncScheduledRun` report the state of the operator resource or
Job, `CheckSource` and `SyncRestore` are the two halves of `SyncRestore`,
`MirrorJob` is the runtime's use of `Mirror`. The operator's conditions are
"none", "running", "complete", "failed" by the reason of the Complete condition,
which is True for a failure as well (`backup.go:391`). `SyncRestore` goes on when
the Restore is deleted while it runs; `CleanupRestore` only starts afterwards, as
the runtime reconciles one Restore at a time. The Restore names a Backup: a
`dataSource` of another type, or without a reference, is reported as Failed by every
`SyncRestore` (`backup.go:229-241`). `foreign` is a Backup whose origin is another
Instance; one without an origin (`backup.go:271`) is restored, and is taken to hold
the Instance's own accounts.

`RestorePromise` maps the model to `RestoreContract`: `source` settles on fit when a
complete backup that may be restored in place is stored, on unfit when there will
never be one (`Spent`, `Unrestorable`); `run` is the operator Restore, closed once
the Restore is deleted and its last `SyncRestore` is over; `reported` is the state
of the Restore.

### `InstanceSync`, `ReplicaTemplate`, `Proxy`, `Monitoring`, `ProviderSync`

| Model | Code |
|---|---|
| `spec`, `deleted`, `snap`, `pc`, `queued` | the Instance, its deletion, the copy a reconcile was given, its next call, the work queue |
| `mdb`, `tpl`, `mxs` and their caches | the `MariaDB`, template `PhysicalBackup` and `MaxScale` resources |
| `monitor`, `scrape` | the `ServiceMonitor` and the `VMServiceScrape`, read from the API server |
| `published` | the connection details of the last status |
| `secrets`, `news` | the credentials Secret and the CA bundles as a read finds them (`mariadb.go:392-397`, `423-431`); that one arrived is still to be told |
| `MigrateOwnership`, `ApplyMariaDB` | `migrateFieldOwnership` as an update of its own, then the apply; a field that is no longer declared stays while the legacy manager owns it |
| `SyncReplicaTemplate` | the function of that name: `DropTemplate`, `SkipTemplate`, `StorageMissing`, `RecreateTemplate`, `KeepTemplate` are its ways out |
| `SyncMaxScale`, `CleanupProxy` | apply or `teardownMaxScale`, in Sync and in `CleanupMariaDB` |
| `KeepMonitor`, `DropMonitor` | `SyncServiceMonitor` |
| `TeardownScrape`, `ReadScrape`, `AdoptScrape`, `ApplyScrape` | `SyncVMServiceScrape`: the read, the patch that takes the controller away and the apply are three calls |
| `ReportStatus`, `ConnectionDetails`, `NeededSecrets` | `StatusMariaDB`, `readyMaxScale`, `buildConnectionDetails`: a Secret that is missing leaves the Instance in Provisioning (`mariadb.go:370-375`) |
| `IssueSecret`, `SecretEvent` | the operator writes a Secret, before or after the resource is ready; with `announces` the Instance is queued after it, without nothing is |
| `CleanupEngine`, `ReleaseInstance` | the end of `CleanupMariaDB`, and the runtime's finalizer |
| `EngineEvent`, `ProxyEvent`, `TemplateCached` | informers: the first two enqueue, the last does not |
| `OperatorReads`, `OperatorMonitors`, `Convert` | the operator acting on a `MariaDB` it read before; the converter |

An Instance of these modules has the four fields the steps read: the storage
offered first, the proxy, the TLS mode and who is to scrape. Its topology is
replication, which is the one with a template.

## 3. Runs that pass

| Run | Shows | Bounds |
|---|---|---|
| `engine_update` | for an owner who waits: types, legal node counts, no refused apply, class honoured, the contract (refinement), stated scale-outs seeded, every edit takes effect; for one who does not, with a cache that lags: legal node counts, and the last edit wins unless it asks for a smaller volume | three topologies, counts unset, 2 to 4, three versions and an image without one, sizes unset, 1 and 2 with a default of 3 and a minimum of 2, two classes, with and without storage to stage a template; racing edits (`RacedSpec`) with two topologies, two counts, two images, two sizes, unset or one class |
| `pitr` | `ArchivalHasTimeline`, `RecoveryAtRest`, `Converges`, `WindowAtRest`, `WindowConverges` | `RecoveryWindow`: two storages and off, the window among them; all four surroundings (reads current or outdated, deletions at once or slow) |
| `seeding` | `CredentialsMatch`, `SeedingPromise` (refinement), `SeedingEnds` | no source and all three kinds, one loss of readiness (`MCScenario`): without Secrets left behind, reads current and outdated, with and without word of a failed restore; with such Secrets, reads current |
| `schedules` | `NoTwin`, `WantedIsKept`, `SchedulesAtRest`, `SchedulesConverge` | two schedules; four declarations each, between which lie a change of kind, of an immutable field and of one updated in place; two storages, each present or created later; reads current |
| `retention` | `EnoughCopies`, `NoHoard`, `SteadyAge` | daily, every other day and weekly; counts 0 to 5 and 200000, three days, two weeks, one and 4000 months, none; 64-bit durations (`Longest`, 106752 days); twelve runs, one of which may fail |
| `backup` | `RestoreSafe`, `NoOrphan`, `BackupTruth`, `RestorePromise` (refinement), `DeletionEnds`, `BackupReported`, `OnDemandRestoreEnds` | all four kinds, own and foreign backups, current and outdated caches, deletions at any time |
| `provider_sync` | `ProxyStopsFirst`, `TemplateOutlivesReference`, `ForeignScrapeKept`, `AdoptedScrapeKept`, `SettledAtRest` (endpoint, template, monitoring), `EndpointConverges`, `TemplateConverges`, `MonitoringConverges`, `CleanupEnds` | two storages; fifteen surroundings (`MCScenario`) |

Why the bounds are enough. Every comparison in the code is between one desired
and one existing object, so two values of a field (and a default that is neither
the largest nor the smallest) make each comparison come out every way; three
versions allow up, up again and back over both. Two storages are needed to move
and no more than two are ever involved, because each resource names one. Two
schedules let the loop fail on one and prune the other. In `Retention` twelve
runs are twice the largest count that fits and its slack, in each position of
the cycle. The scenarios of `provider_sync` let the owner change one group of
fields at a time (proxy with TLS, template, monitoring, and one with a missing
`BackupStorage` that ends every Sync before the proxy), each with the caches,
deletions, converter, older provider and word of late Secrets that matter to it; the groups only meet
through failures of a Sync, which may happen at every call anyway. One loss of readiness puts it before or after each step of a restore.
The theorems of section 6 remove the bounds, and the restriction to current
reads in `schedules`, for the properties they cover.

`CHECK_DEADLOCK FALSE` appears only where the system may stop: in
`BackupRestore` once the Backup and the Restore are gone, and in `ProviderSync`
once the Instance is (`CleanupEnds` shows that nothing is left then).

## 4. Fairness

* A queued Instance is reconciled (`BeginSync` weakly fair): the runtime retries
  errors and `WaitFor` without end. An Instance that is not queued is not, in
  `PitrSync`, `Seeding`, `ScheduledBackups` and `ProviderSync`; only `EngineUpdate`,
  where every step that matters queues the Instance, has no queue.
* What is not watched may be told of all the same, by a change of a watched status or
  by a runtime that asks again. That is fair only where `announces` holds
  (`SecretEvent`, `FailureAnnounced`); `Woken` is never fair.
* A call that a reconcile keeps coming back to is not the one that fails every
  time (strong fairness per step in `EngineUpdate`).
* In `PitrSync` and `Seeding` a running Sync goes on, and of the Syncs that come
  again and again not every one fails in one of its calls, though some may for ever:
  if Syncs begin for ever, some of them for ever reach their last call.
  Likewise of the attempts of `RecoveryWindow` to write a status
  (`ReportStatuses` strongly fair).
  `ScheduledBackups` uses a weaker assumption instead: a running Sync goes on,
  and `OutagesEnd` is a premise of the property that failures stop at some point.
  Without such an assumption nothing can be promised of any retried operation.
* `ProviderSync` assumes that failures stop at some point
  (`<>[](pc # "failed")`) and weak fairness of the reconcile. Only `ApplyScrape` is strongly fair: the converter may take the
  scrape back between adoption and apply, but not every time.
* Informers deliver (`CacheCatchesUp`, the events), deletions complete, the
  operator works on what it can see. These are the promises of the API
  machinery, not of this code.
* Edits, deletion of an Instance, the converter and the CronJobs are never fair. Liveness that needs the owner to stop says so
  (`EditsEnd`, `<>[][FALSE]_config`), except `EditsTakeEffect`, where the owner
  waits.
* A Backup or Restore is reconciled as long as it has not ended, and a reconcile
  under way comes to an end, with its last call or with an error (`BackupRestore`).
  No fairness is assumed afterwards: whether the runtime reconciles an ended
  Backup again is not decided in this repository.

## 5. Disagreements between code and comments

Five runs are expected to find a violation. Each checks what a comment or a test
says of the code.

| Run | What happens |
|---|---|
| `engine_default_count` | a two-node replication Instance without backup storage drops `engine.replicas`; the check returns early (`validate.go:360`), the default of three adds a node nothing can seed |
| `pitr_move` | PITR is moved to another storage; the base keeps the old one (`pitr.go:176`), so logs are archived to a storage without a base |
| `schedules_blocked` | a schedule whose `BackupStorage` is missing ends the loop (`backup_schedule.go:213`) before the prunes: dropped schedules run on |
| `retention_irregular` | five copies of a working-day schedule become six days, which hold four runs over a week-end (`backup_schedule.go:122`) |
| `restore_scheduled` | a restore of a scheduled logical backup names an operator Backup after the Job (`backup.go:293`); there is none, and it never ends |

Other limits of the code appear as premises of the properties that pass; TLC
finds a counterexample to each property without its premise:

* `waits` (`ApplyAccepted`, `ContractRespected`, `StorageClassHonoured`):
  two edits judged against the same outdated `MariaDB` can grow the volume and
  shrink it again, after which every apply is refused; a topology edited before
  the first `MariaDB` resource is visible switches the running engine
  (`validate.go:466`, `493`).
* Images that show a version (`ContractRespected`): one whose tag shows none may be
  replaced by any other (`validate.go:383-386` says so), so that two admitted edits
  lead from version 2 over such an image to version 1.
* Word of what is not watched (`announces` in `EndpointSettled`, `SettledAtRest`,
  `EndpointConverges`): the credentials or the CA bundle may arrive after the last
  reconcile; `errTLSCABundleNotReady` and a missing credentials Secret become
  Provisioning without an error (`mariadb.go:370-375`), no watch reports the Secret,
  and the Instance stays in Provisioning although everything runs. What the two
  properties say without it is that no *other* details are left.
* The two unseen ends of a seed (`EndsUnseen` in `SeedingEnds`), section 2.
* Current reads and immediate deletions for the base (`Converges`): PITR turned off and on while the base
  terminates can stay without a base, since no watch reports that it is gone
  (`pitr.go:173`).
* No Secrets left behind (`CredentialsMatch`, `SeedingEnds`): a Secret of a
  deleted Instance of the same name is taken for the copy (`datasource.go:187`).
* Current reads (`SeedingPromise`, and `NoEarlyReady`, which follows from it): if the `MariaDB` resource is missing in the
  cache during `syncDataSourceStatus` and there during `StatusMariaDB`, Ready is
  shown while the restore has not run (`datasource.go:233`, `mariadb.go:341`).
* Current reads (`NoOrphan`): a resource created a moment ago and not seen yet is
  taken for one that is gone; garbage collection removes it later, which
  `DeletionEnds` shows.
* The source still there (`OnDemandRestoreEnds`): `SyncRestore` looks at the
  Backup first, so a restore whose Backup is deleted is reported as Pending for
  ever (`backup.go:244`).
* Current reads (`ProxyStopsFirst`): a MaxScale created a moment ago and not seen
  yet is passed over by the teardown (`maxscale.go:188`).
* Current reads and immediate deletions (`TemplateConverges`): a template that is
  terminating, or one an old cache still shows, is taken for the one wanted, and
  no watch reports that it is gone (`replica_template.go:101`).
* An operator that is not busy, immediate deletions (`MonitoringConverges`): the
  provider waits until its cache shows the `ServiceMonitor` disabled
  (`monitoring.go:174-176`), which says nothing of a reconcile of the operator
  already under way; it creates the `ServiceMonitor` again.
* Ages that fit (`Fits` in `EnoughCopies`): 200000 copies of a daily schedule, or
  4000 months, overflow int64 (`backup_schedule.go:108`, `129`), and copies that
  were to be kept are pruned.
* Regular schedules (`SteadyAge`): for one on working days the age depends on the
  day of the reconcile, and each change recreates the operator `Backup`.
* Current reads and immediate deletions for the base (`RecoveryAtRest`) and the
  template (`TemplateAtRest`), an operator that is not busy and immediate deletions
  (`MonitoringAtRest`): the same unwatched deletions as for `Converges`,
  `TemplateConverges` and `MonitoringConverges`. What is watched (the reference, the
  PITR resource, the endpoint) needs none of it.
* Right after PITR moves to another storage, the window shown next to its name is
  still that of the old one; `WindowConverges` is about what is shown in the end.

## 6. Theorems

All are proved for every value of the constants that satisfies the module's
assumption (`EngineAssumption`, `PitrAssumption`,
`WindowAssumption`, `SeedingAssumption`, `SchedulesAssumption`,
`RetentionAssumption`, `BackupAssumption`, `SyncAssumption` with those of the
three step modules). These say that model values differ from ordinary ones, that
sizes, versions and gaps are integers and that defaults lie in the sets they
belong to. No finiteness is assumed. The three theorems of `RetentionProofs` have a
hypothesis of their own, `RegularSchedules`: one gap per schedule, at most one
failed run, and runs within the 100 years of `keepAllRetention`; the `retention`
run satisfies it. `NeverTwins` and `NoScheduleForgotten` assume `~CacheLag`, as the
`schedules` run has it.

| Theorem | Argument |
|---|---|
| `TypeCorrect` (six modules), `WindowTypeCorrect` | `TypeOK` is inductive |
| `QuorumAlwaysSafe` | `CountInv`: every Instance a reconcile holds was admitted, and the node count is a function of the Instance alone, so whatever the cache shows does not matter |
| `ClassHonoured`, `NeverRefused`, `ImplementsContract` | `SerialInv`, where the owner waits: what is about to be applied is the target computed from the current state, although it was built from the cache, and the target is a step the contract allows. It has to mention the class of a cached resource, because that is the one field copied from it |
| `ScaleOutAlwaysSeeded` | `ScaleOutInv` on top of `SerialInv`: an engine with a target that lacks a template is not about to gain stated nodes |
| `TimelineKept`, `WindowTimelineKept` | `TimelineInv` records what a Sync has established when it is about to make each call; the steps of the window change nothing it mentions but may queue the Instance |
| `PasswordsMatch` | `BootstrapInv` (the `MariaDB` resource is the one the data source calls for) and `SecretInv` (the Secrets are the source's before the resource exists); any lag of the cache |
| `ReadyMeansSeeded` | `PhaseInv`: a recorded success, and a status staged in this reconcile, mean the data is there; the operator never undoes that (`DataStays`) |
| `ImplementsContract` (`SeedingProofs`) | `PromiseInv` on top of `PhaseInv`: Failed is only shown for a reason that lasts (`FailedForGood`): a source that failed, a Secret whose source Instance is gone, a seed the operator has given up. Hence no data arrives and no other phase is shown afterwards |
| `NeverTwins` | `SwitchInv`: past the switch, the other kind has no resource; without cache lag |
| `WantedAlwaysKept` | `SeenInv` and `StaleInv`, any lag: a cached resource and the one in the API server, when both exist, have the same immutable fields (the cache may still show one that is gone or miss a new one, never the predecessor of the one that is there), and the prunes only list what the running Sync does not declare |
| `RestoresAreSafe` | `SourceInv`, any lag: success is reported only of a complete backup, and a check that was passed stays valid because a dump is never taken back |
| `BackupReportsAreTrue` | `SourceInv` and `BackupRunInv`, any lag: what the operator, the cache and the Backup say of the one run is the same run, each as far as it has seen it, and a backup that is spent stays so (`SpentForGood`), although its Job may be forgotten and the Backup mirrored again |
| `ImplementsContract` (`BackupRestoreProofs`) | `RestoreRunInv` on top of those, any lag: while a `SyncRestore` may come, the cache does not show an operator Restore that is gone, so none is created twice nor reported on after its end. Steps of the backup settle the source at most once (`SourceStep`); each step of the Restore is one of the contract's or changes none of its three values |
| `NothingLeftBehind` | `NoOrphan` is inductive: with current reads a resource that is not seen is not there, and only a live Backup or Restore gets another |
| `AgeIsSteady` | `CycleInv`: the age is the one derived at every slot, as all gaps are the same |
| `CopiesAreKept` | `KeptInv`: the copies made have the ages 0, g, 2g, ... with at most one missing (`Slotted`), and those younger than the age are on the storage. When one is older, the n + 1 slots below it hold n copies (`EnoughSlots`), whatever n and g are; `DurationFits` takes the overflow away |
| `CopiesArePruned` | on top of `KeptInv`: the copies on the storage lie on the same multiples of g, so no more than n + 1 of them are younger than the age (`FewSlots`); a run that fails prunes nothing and adds nothing (`FewAged`) |
| `ProxyAlwaysStopsFirst` | `StopInv`: past the teardown of a cleanup, and as long as the servers are asked to go, every MaxScale that is there was asked as well, and no Sync runs that could apply another, whichever one was interrupted; current reads |
| `ForeignScrapeAlwaysKept`, `AdoptedScrapeAlwaysKept` | `ScrapeInv`: the provider's spec and the Instance as controller come together, so what it deletes is its own |
| `TemplateAlwaysOutlives` | `ReferenceInv`, any lag: when a Sync of an Instance without storage gets to the template, the apply before it has removed the reference, because no legacy manager was left to keep it |
| `RecoveryNotForgotten`, `WindowNotForgotten` | `RestInv`, `WindowRestInv`: what each call of a Sync has left, as long as nothing has queued the Instance since it began; the reference is the one for what the cache shows, and a cache that changes queues the Instance |
| `NoScheduleForgotten` | `LoopInv`: what the loop has left behind is done and stays done while it works on the next schedule, the prunes do the rest, and the queue holds the Instance as soon as the Sync works on schedules that are no longer declared; any number of schedules, failures and edits |
| `NothingForgotten`, from `EndpointNotForgotten`, `TemplateNotForgotten`, `MonitoringNotForgotten` | one invariant per step of Sync (`EngineKept`, `ProxyKept`, `TemplateKept`, `MonitorKept`, `ScrapeKept`, `StatusKept`): what the step made holds from then on unless the Instance is queued. `QuietStep` leaves four kinds of steps to look at; the informers, the operator and the converter are among them. The endpoint part needs the operator to be done and says "or no details" without `announces`; the template part needs current reads and immediate deletions; the monitoring part an operator that is not busy, has made what it was asked for, and immediate deletions |

The theorems on what is "not forgotten" are the safety half of convergence. The
provider is not told of every change, so a Sync that ends must leave either what
the Instance asks for or an entry in the queue. They hold after any history of
failures, edits and, where the table says so, outdated reads, without any
fairness. What TLC adds with the liveness properties is that such a state is
reached.

Why an inductive invariant is needed: the properties speak of the resources,
but a step is decided by what an earlier step of the same reconcile read or
built. The invariants say what those copies are worth when they are used.

Only model-checked: every liveness property (`EditsTakeEffect`, `LastEditWins`,
`Converges`, `WindowConverges`, `SeedingEnds`,
`SchedulesConverge`, `DeletionEnds`, `BackupReported`, `OnDemandRestoreEnds`,
`EndpointConverges`, `TemplateConverges`, `MonitoringConverges`, `CleanupEnds`),
since the prover handles neither fairness nor ENABLED. Every safety property of
the passing runs is proved. The other way round, `TypeOK` of `PitrSync`, `Seeding`,
`ScheduledBackups`, `BackupRestore` and `ProviderSync`, and `NoEarlyReady`, are
proved and not among the properties of a run; the proofs cover every instance.

## 7. Not modelled, and why

* Affinity, resources, `my.cnf`, pod metadata, images of MaxScale and the
  exporter, endpoints and relabelings of a scrape, Galera SST encryption: fields
  translated from one object to another, on which nothing else depends.
* Validation of the fields that are checked alone (monitoring, proxy, Service
  type): no state is involved. `validatePITR` and `validatePointInTimeDataSource`
  are preconditions of `PitrSync` and `Seeding`.
* `pruneUnset`: a walk over a tree of values; the models keep the declared fields.
* Two schedules of one name on two storages, which share an operator resource
  (`backup_schedule.go:194`), and two Restores of one Instance at a time
  (`backup.go:304`): nothing in the repository says what should happen.
* Names: the root Secret of Instance `a` is the user Secret of an Instance named
  `a-root` (`mariadb.go:58-71`).
* The runtime and the operator beyond what the provider relies on.
* Finalizers of scheduled resources, schedules that never run, and Restores that name no
  Backup (section 2).
* RBAC markers, charts, generated definitions, CI: no behaviour.

## 8. Plan

Done, in this order: `EngineContract`, `EngineUpdate` (the
admission rules are the code's largest part and its most argued one), `PitrSync`,
`Seeding`, `ScheduledBackups`, `Retention`, `BackupRestore`; then `InstanceSync`
with `ReplicaTemplate`, `Proxy`, `Monitoring` and `ProviderSync`, which joins
them; `RecoveryWindow`; the racing owner in the main engine run; time retention
and 64-bit ages; the safety theorems; the properties of an Instance at rest with
their theorems; `SeedingContract` and `RestoreContract` with their refinement
proofs; the upper bound on the copies kept.

Left:

1. `Retention` composed with `ScheduledBackups`. What one does to the other is
   covered in parts: an age that changes by itself (`SteadyAge`) acts on
   `ScheduledBackups` like an edit of the retention, which its owner may make at
   any time; what is missing is the run under way that the recreation ends.
2. Schedule names declared twice, keyed by storage and name; a second Restore.
3. `PitrSync`, `ScheduledBackups` and `Seeding` as further steps of
   `ProviderSync`, in place of the failure that stands for them.
4. Terminating resources in `ScheduledBackups`.
5. The cleanup of an Instance with its Backups and PITR resources.
6. Proofs: that a Sync of `ProviderSync` which nothing disturbs ends in a state at
   rest, step by step (the ranking argument behind the liveness properties,
   without fairness).
