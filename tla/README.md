# siphon-bundler in TLA+

The bundler stores the source files of Siphon apps and the bundle footers built
from them. Clients push a project, devices pull it, and the web application
submits a frozen copy of it. This directory models the bundler's state and
concurrency in TLA+, checks small instances with TLC and proves the most important
properties for all instances with TLAPS. Paths such as `push.go` are short for
`src/src/siphon/bundler/push.go`.

## The system

### Parts, state and operations

| Part | Code | State | Operations |
|---|---|---|---|
| Cache | `cache.go`, `s3.go` | S3 objects, memcached items, the call each goroutine is in | Get, Set, Delete, cache-miss fill, three attempts per S3 operation |
| Rows | `db.go` | the `files` table: app, submission, name, hash | AddFile, UpdateFile, DeleteFile, GetFile, GetFiles, MakeSnapshot, AppExists, SubmissionExists |
| Archive | `archive.go`, `unzip.go` | the unzipped payload: `listing.json` and `diffs/` | Decompress, Compare, GetContent, GetMetadata, Close |
| Push | `push.go`, `utils.go` | one `pushHandler` per request, temporary directories | GET hashes; POST: load the Siphonfile, compare, add, change, remove, build and store footers |
| Metadata, icons | `metadata.go`, `icon.go` | none | ParseMetadata, GetIcons |
| Packager client | `packager.go` | a directory with the footers | MakeBundleFooters, CleanupFooters |
| Notifications | `notifications.go` | a RabbitMQ fanout exchange | PostAppUpdated |
| Pull | `pull.go` | one `pullArchive` per request | read rows, get assets and footer, write a zip |
| Submit | `submit.go` | one `submitHandler` per request | copy files, build a footer, MakeSnapshot |
| Auth | `auth.go` | none | decide on a handshake |
| Healthcheck | `healthcheck.go` | none | look for rows, get a file from S3, set and get one key |
| Routes | `routes.go`, `main.go` | none | wiring |

### How they interact

The Go HTTP server runs each request in a goroutine of its own and the bundler has
no locks. Pushes, pulls and submits of an app therefore interleave at every call to
postgres, S3, memcached, Django, RabbitMQ and the packager. Each SQL statement
commits by itself. A file is stored in S3 under its SHA-256, prefixed with the app
(and the submission, if any); a footer is stored under a fixed name, so footers are
overwritten and files are not. Memcached (128 MB) is a write-through copy of S3.
Docker restarts every container that stops.

### What is hard about it

- A content and its row live in two stores and are written in two steps. So are a
  footer and the rows it was built from.
- `remove` reads the rows, decides, and deletes from S3 later.
- A cache fill writes a value it read some time before.
- Several errors are ignored or overwritten, and a result set that is cut short is
  not an error at all (`rows.Err()` is never called).
- `dirty` is local to a request, so work that a failed push left undone is forgotten.
- A failed SQL statement panics (`rows.Close()` on nil rows), which cuts the handler off.
- A submission reads the rows of the app four times, and nothing keeps a push from
  changing them in between.
- A pull that cannot get the footer of its platform falls back to another key.
- A restart can come between any two steps.

`PROJECT.json` lists these hazards one by one, with the line where each bites and the
properties that cover it.

## Modules

| Module | Models | Extends |
|---|---|---|
| `Common` | absent values, the budget of faults | |
| `Cache` | `cache.go`, `s3.go` | `Common` |
| `Files` | the rows of `db.go` | `Common` |
| `Archive` | `Compare` of `archive.go`, the client's choice of what to send | `Files` |
| `Metadata` | `ParseMetadata` of `metadata.go` | `Files` |
| `Auth` | the decision of `AuthMiddleware` | `Files` |
| `Packager` | the keys of files and footers, what a footer is made from | `Cache`, `Archive`, `Metadata` |
| `Push` | the whole `/push` route | `Packager` |
| `Pull` | the whole `/pull` route | `Packager`, `Auth` |
| `Submit` | the whole `/submit` route, with `MakeSnapshot` | `Packager`, `Auth` |
| `Healthcheck` | the `/healthcheck` route | `Packager` |
| `Bundler` | `routes.go`: the four routes together | `Push`, `Pull`, `Submit`, `Healthcheck` |
| `AppStore` | what clients are promised: an atomic store | |
| `MCCache`, `MCPush`, `MCBundler` | instances for TLC | `Cache`, `Push`, `Bundler` |
| `PushProofs` | theorems about the cache, and about pushes that overlap | `Push` |
| `CurrentProofs` | theorems about pushes that do not overlap | `PushProofs` |
| `BundlerProofs`, `FrozenProofs` | theorems about the routes together, overlapping | `Bundler`, `PushProofs` |
| `SerialProofs` | what requests that do not overlap share; health checks | `BundlerProofs`, `FrozenProofs` |
| `SubmissionProofs`, `PullProofs` | submissions, and pulls of them, without overlap | `SerialProofs` |
| `StoreProofs` | the whole service without overlap; the refinement of `AppStore` | `PullProofs`, `CurrentProofs` |

### Cache

`s3[k]` and `mc[k]` are the object and the item at a full key. `call[p]` is the call
goroutine `p` is in: the operation, the message it is about to send (`at`), key,
value and failed attempts. One action is one message: `McHit`, `McMiss`, `S3Get`,
`Fill`, `S3Put`, `McSet`, `S3Del`, `McDel`, and a failing variant of each. A write that
reports an error may have been carried out or not. A delete that S3 refuses is a
success to `Bucket.Del`, which reads no status code. A missing S3 key is an error and
is retried. `Memcached` is FALSE for `SIPHON_ENV=testing`, where there is none.

`Domain[k]` is the set of values callers write at key `k`: one content for a hash,
many footers for a footer name. A hash is identified with its content, so clients are
taken to send the right hash, and SHA-256 to have no collisions. All keys belong to
one app: apps share no row and no key. S3 is taken to be strongly consistent.

### Files, Archive, Metadata, Auth, Packager

`rows[ns]` maps names to hashes, or to `None`, for the development files (`Dev`) and
each submission. `GetFiles` has two outcomes: all rows, or under a `dbread` fault any
part of them. `AddFile` is not enabled when the row exists (unique index), and
`UpdateFile` of an absent row does nothing. `Added`, `Changed`, `Removed` and
`DiffsComplete` are the four answers of `Compare`. `ShouldPush` is `should_push` of the
CLI, as the tests quote it. `GetSliceFilteredFiles` is the same for the names a set of
patterns matches; `SubmissionExists` and `AppExists` are the two counts `/submit` makes.

`Metadata` keeps of a Siphonfile what `ParseMetadata` looks at: the shape of
`base_version` and the length in bytes of six values. `BadMeta` is what the code rejects,
`WithinLimits` what its messages announce; `StoredSiphonfileValid` compares them. `Auth`
decides on a handshake as `AuthMiddleware` does, with the signature as a flag.

### Push

A pusher `p` is a client and the goroutine that serves it; `pc[p]` says where the
handler is. A step is one SQL statement, one message of a cache call, one call to
another service, or what the handler does by itself between two of those.

| `pc` | Code | Actions |
|---|---|---|
| `idle` | client, `GET /push` | `GetHashes` |
| `post` | `decompress` | `Decompress`, `DecompressFails` |
| `load`, `metaget` | `loadMetaData` | `LoadFromArchive`, `LoadHash`, `LoadHashFails`, `LoadFromCache`, `LoadFails` |
| `compare` | push.go:307-312 | `Compare`, `ArchiveUnreadable` |
| `apply`, `setting` | `update` | `UpdateCache`, `UpdateRow`, and their failures |
| `apply`, `deleting`, `rowdel` | `remove` | `RemoveCache`, `RemoveHashMissing`, `RemoveRow`, and their failures |
| `apply`, `fetch`, `fetching` | push.go:349-366, `FilesToTemp`, `GetIcons` | `NoChanges`, `FilesToTemp`, `ContentUnreadable`, `Fetch`, `Fetched`, `FetchFails`, `WriteLost`, `BadIcon` |
| `fetch` | `MakeBundleFooters` | `Package`, `PackageFails` |
| `put` | `putMetadata` | `PutMetadata`, `PutMetadataFails` |
| `footer`, `storing` | push.go:403-437 | `SetBundleFooter`, `FooterUnreadable`, `BundleFooterSet`, `SetBundleFooterFails`, `Done` |
| `done` | client | `Return` |

`Crash` ends every request where it is; rows, S3, memcached, Django and the temporary
directories stay. The order in which Go iterates over a map is any order. A footer is
the record of what it was built from. `doomed` is a history variable: the names whose
content is being deleted, until their row is deleted or rewritten.

### Pull, Submit, Healthcheck

Each is a state machine of its own, with a client and goroutine per element of `Pullers`,
`Submitters` and `Monitors`, and a variable that says where the handler is.

| `pullAt` | Code | Actions |
|---|---|---|
| `idle` | `Pull` up to `newPullArchive` | `newPullArchive`, `PullRefused`, `PullNoTempDir` |
| `check` | `assertNotEmpty` | `assertNotEmpty` |
| `assets` | `getAssetFiles`, `writeAssetsListing` | `getAssetFiles` |
| `write`, `asset` | `writeAssets` | `writeAssets`, `AssetWritten` |
| `write`, `footer`, `oldfooter` | `writeBundleFooter`, `writeZip` | `writeBundleFooter`, `OldBundleFooter`, `writeZip` |
| any of these | "Internal error." | `PullMissing`, `PullFails` |
| `done` | client | `PullReturn` |

| `subAt` | Code | Actions |
|---|---|---|
| `idle` | `Submit` | `SubmitRequest`, `SubmitRefused` |
| `exists`, `app` | the two checks, and that of the handshake | `CheckSubmission`, `CheckApp` |
| `start`, `copy`, `copyget`, `copyset` | `copyFiles` | `copyFiles`, `CopyGet`, `CopySet`, `Copied` |
| `copy`, `meta` | `loadMetaData` | `loadMetaData`, `MetaDataLoaded` |
| `build`, `fetch`, `fetching` | `MakeBundleFootersTmp`, `FilesToTemp` | `makeBundleFooter`, `FetchFile`, `FileFetched`, `FetchFileFails`, `BuildFails` |
| `fetch`, `store` | the rest of `makeBundleFooter` | `NoSnapshotFooter`, `StoreFooter`, `StoreFails`, `FooterStored` |
| `snapshot`, `rows` | `MakeSnapshot` | `MakeSnapshot`, `AddRow`, `AddRowFails`, `SubmitDone` |
| any of these | "Internal error." | `SubmitFails` |
| `done` | client | `SubmitReturn` |

Both handlers take the platform as the client sent it. `AnyPlatform` is `ios`, `android` and
`other`, which stands for every other string: a pull asks the cache for a footer of that
name, a submission builds the footers and then finds none for it (`NoSnapshotFooter`).
`CleanupFooters` finds the packager's directory through the path of a footer, so it removes
nothing when the packager has named none.

`list` and `todo` are the rows the loop in progress works on: each of `copyFiles`,
`makeBundleFooter` and `MakeSnapshot` reads them anew. `submitted` is a history variable:
the submissions that were answered with success and have rows.

A health check looks for rows (`CheckHashes`), gets a file from S3 (`CheckS3`,
`CheckS3Fails`), and writes it to and reads it from the cache (`CheckCache`,
`HealthPassed`, `CheckCacheFails`). The key it uses is prefixed twice, as in the code.
The model's app is the one the check is about.

### Bundler

`Bundler` runs the four routes over the same rows, S3 and memcached. Roles are disjoint
sets of goroutines, and `call[x]` is the cache call of any of them. `MaxActive` bounds how
many requests are under way at once (1: clients that wait for each other), and
`MaxRequests` how many there are in a behaviour (0: no bound). `Restart` cuts all requests
off. `settled` is a history variable: the rows of the app when no push was last under way.

### AppStore

The abstract specification has the app as one listing, changed as a whole: `Push` makes it
a project, `FailedPush` leaves each file as it was or as it was pushed, `Submit` freezes
it, `Pull` shows a client one version of the app or of a submission. `Bundler` instantiates
it with `settled` for the app, the rows of the submissions that succeeded for `frozen`, the
answer of the last push for `reply`, and what each pull delivered for `seen`.
`ImplementsAppStore` says that every behaviour of requests one after another, faults and
restarts included, is one of `AppStore`; `StoreProofs` proves it. For overlapping requests it does not hold; see
`submit_race`.

### Faults

Every call to a service has a failing variant guarded by `Fault(kind)`. A run names the
kinds that may happen (`FaultKinds`) and how many of them (`MaxFaults`). The kinds are
`s3`, `memcached`, `evict`, `dbread`, `dbwrite`, `disk`, `packager`, `django`, `rabbitmq`
and `crash`. An archive that cannot be unzipped or read needs no fault, since clients may send
one. The theorems hold for every bound, and for every set of kinds that their
hypotheses allow.

## Runs

### Properties that hold

| Run | Checks | Instance |
|---|---|---|
| `cache_faults` | `CacheTypeOK`, `OwnValues`, `RetriesMaskFaults`, `CallsReturn` | 2 goroutines, a file key and a footer key with 2 values, 3 attempts, 3 faults or evictions; 224k states |
| `push_serial` | `PushTypeOK`, `RowsHaveBlobs`, `SuccessStoresListing`, `DoneMeansCurrent` | pushes one after another, 3 names, 5 projects, 1 fault of any kind but `dbread` and `disk`; 1.1m states |
| `push_faults` | `RowsHaveBlobs`, `CacheCoherent` | pushes one after another of 3 projects whose files all differ, 1 fault: a truncated read, a failed statement, the disk, the packager, Django or an eviction; 130k states |
| `bundler_serial` | `BundlerTypeOK`, `SubmissionWhole`, `SubmissionFrozen`, `ProductionPullWhole`, `HealthcheckTruthful`, `ImplementsAppStore` | any sequence of pushes, pulls, submissions and checks, 2 projects, submissions for iOS and Android, pulls for any platform, 2 attempts, 1 fault of any kind but `dbread` and `disk`; 632k states |
| `bundler_faults` | `NoTempLeak`, `TempDirsRemoved`, `RequestsAnswered` | 3 requests of any route, 3 projects, platforms `ios` and `other`, 1 fault of any kind but `django` and `rabbitmq`; 127k states |
| `bundler_overlap` | `PullDelivers`, `OwnValues`, `StoredSiphonfileValid`, `SubmissionFrozen` | 3 requests, 2 at a time, pushes of 4 projects included; 627k states, up to symmetry |

What they show, in words:

- `OwnValues`: whatever interleaves and fails, a Get under a hash returns the content
  with that hash or an error, never another content and never nil.
- `RetriesMaskFaults`: a Set or Delete fails only when S3 failed three times or
  memcached once.
- `CacheCoherent`: for one caller and without failing calls, memcached agrees with S3.
- `RowsHaveBlobs`: every row has its content in S3, except while its file is being removed. In
  `push_faults` this holds although reads of the rows may be cut short, because no two
  files have the same content there.
- `SuccessStoresListing`, `DoneMeansCurrent`: what a successful answer promises about
  rows, footers, memcached and Django, for pushes that do not overlap.
- `NoTempLeak`, `TempDirsRemoved`: no temporary directory outlives an answered request.
- `StoredSiphonfileValid`: a Siphonfile that `ParseMetadata` rejects is never stored.
- `SubmissionWhole`: files, rows and footer of a submission are one version of the app.
- `SubmissionFrozen`: no step changes a row or an S3 object of a submission that succeeded.
- `ProductionPullWhole`: a pull of a submission delivers that submission.
- `PullDelivers`: a pull that succeeds leaves the client with every asset it was told of, at
  the hash it was told, whatever is pushed meanwhile.
- `HealthcheckTruthful`: a check passes only when rows and file are there, and without a
  fault fails only when one is missing.
- `ImplementsAppStore`: to clients that do not overlap the bundler is an atomic store.
- `CallsReturn`, `RequestsAnswered`: every call and every request is answered.

### Where the code and its documentation disagree

Each of these runs checks one statement of a comment or a test and TLC violates it. The
`findings` of `PROJECT.json` quote the statement.

| Run | What happens |
|---|---|
| `cache_race` | A fill or a Set that overlaps another write leaves memcached with a value S3 no longer holds. |
| `push_race` | One push deletes from S3 the content that another push has just stored for a new row. |
| `push_stale_footer` | After the packager failed, the next push of the same project says "No changes detected." and the footers stay old. |
| `submit_race` | A push between two of a submission's four reads makes its files, footer and rows differ, and the submission succeeds. |
| `submit_twice` | Two submissions with one ID both see that it does not exist. After the first has succeeded the second copies a newer file, and then a footer, into it. |
| `pull_platform` | An iOS pull of a submission made for Android gets the Android footer, which is stored under the key that pulls fall back to. |

These are also the conditions under which the properties hold: `push_race` is why
`RowsHaveBlobs` is checked for one pusher, `submit_twice` why `SubmissionFrozen` is otherwise
checked for one submitter, and `submit_race` why `SubmissionWhole` is checked for requests
that do not overlap.

Other consequences of what the code does have no run of their own. They can be seen by
adding a fault kind or a client to a run:

- `dbread` in `push_serial` violates `RowsHaveBlobs`: a read of the rows that is cut short
  hides the other file with the same hash from `protectHash`, and its content is deleted
  (`push.go:108`). It also violates `SuccessStoresListing`: `handle` discards the error of the
  `GetFiles` before `Compare` (`push.go:307`), and a file the archive does not list is not
  removed. These reads are the condition under which the properties are true, and the
  hypothesis `ReadsComplete` of the theorems.
- `dbread` or `disk` in `push_serial` violates `DoneMeansCurrent`: footers are built from some
  of the files, or none (`push.go:354`, `utils.go:64`).
- `django` in `bundler_faults` violates `NoTempLeak`. The return after a failed `putMetadata`
  (`push.go:398`) does not clean up the footers.
- Two faults, `dbwrite` and `memcached`, in `bundler_serial` violate `ProductionPullWhole`: a
  submission for Android fails after it has stored its footer under the old-style name, one
  for iOS with the same ID succeeds, and an iOS pull whose Get of the footer fails falls
  back to the Android footer (`pull.go:112`). `pull_platform` shows the same fallback without
  a fault.
- A packager that succeeds and names no footer at all (`{}` in `PackagerOutputs`) violates
  `NoTempLeak` and `TempDirsRemoved`: `CleanupFooters` has no path to find the directory by
  (`packager.go:26`).
- A Get fails on an error of memcached although S3 holds the key (`cache.go:76`), and a restart
  between the deletion of a content and of its row leaves a row that later pushes of the
  same file do not repair (`push.go:116`).

Two smaller ones are outside the model. `ParseMetadata` ignores unknown keys, which its
comment says are an error (`metadata.go:28`), and its limits are of bytes where its messages
say characters.

A restart leaves the directories of the requests it cuts off behind. `NoTempLeak` speaks
only of requests that are answered, and the `dirs` of a new request start afresh.

### Bounds

- Names and contents: a Siphonfile (two valid contents and an invalid one), a source file
  and an icon (one PNG, one not). The projects cover adding, changing, removing and
  renaming a file, two files with the same content, a missing Siphonfile, an invalid one
  and an invalid icon. Pushes repeat without end, so every order of projects occurs.
- In the bundler runs the app has a Siphonfile and an asset. The asset changes, is removed
  and comes back; the Siphonfile changes (`bundler_serial`, `submit_race`) or is refused
  (`bundler_overlap`). There is one submission ID, so that a second submission meets the first.
- `PullPlatforms` are all of `AnyPlatform` in `bundler_serial`, where the choice of the footer's
  key matters, and `SubmitPlatforms` the two that can succeed. `bundler_faults` has iOS and a
  platform there is no footer for (Android's directories are those of iOS). `bundler_overlap`
  has iOS only, because neither the assets of a pull nor the frozen submission depends on
  the platform.
- Two goroutines or pushers: every race found needs two, and no step of one handler
  depends on how many others there are.
- `MaxActive` is 1 where a property is about clients that wait for each other and 2 where it
  is about overlap. `MaxRequests` is 0 (no bound) where the state space allows it. In
  `bundler_faults` 3 requests are enough for a push, a submission and a request that meets
  both; in `bundler_overlap` they are enough for a push, and two requests that overlap it or
  each other: pushes that add the same name, a pull during a push, or a submission followed
  by another one or by a push.
- `MaxAttempts` is the code's 3 in the cache runs and 2 in `bundler_serial`. It is 1
  elsewhere, because a fault that a retry masks is invisible to the handler; the cache runs
  cover the retries.
- One fault per behaviour in the push and bundler runs. It may come at any step, and
  behaviours go on after it, so that later requests meet what it left behind. The theorems
  have no such bound.
- `SYMMETRY` over the two pushers in `bundler_overlap`: safety only, and no definition tells
  them apart.

Deadlock is checked in every run but `bundler_faults` and `bundler_overlap`, where it is the
end of the last request: a handler that gets stuck would be one.

### Fairness

`FairCacheSpec` and `FairBundlerSpec` assume weak fairness of the steps of each goroutine,
including those of a cache call. The Go scheduler runs every runnable goroutine, and every
client library call returns an answer or an error in the end. Nothing is assumed of
clients (who may never send another request), of faults, evictions or restarts.

## Theorems

All are proved for every set of goroutines, names, contents, keys, projects, submission IDs
and handshakes, every set of fault kinds and every bound on faults and requests, from the
named assumptions on the constants (`FaultAssumption`, `CacheAssumption`, `FilesAssumption`,
`ListingsAssumption`, `MetadataAssumption`, `StoreAssumption`, `AuthAssumption`,
`PushAssumption`, `HealthAssumption`, `BundlerAssumption`), which TLC evaluates in the runs.
Where a theorem needs more, its hypotheses say so:

- `OnePusher`: one pusher, whose requests follow one another. `OneAtATime`: a service of any
  number of clients whose requests do not overlap, because the router takes a request only
  when none is under way. It is what `MaxActive = 1` means for finitely many clients, and
  `MCBundler` has TLC evaluate that.
- `ReadsComplete`, `WritesComplete`, `CacheAnswers`: no `dbread` fault; no `disk` fault; no
  `s3` or `memcached` fault. Each is there because the statement is false without it; see
  the consequences listed above.
- `{} \notin PackagerOutputs`: a packager that succeeds names at least one footer.

| Theorem | States | Hypotheses |
|---|---|---|
| `PushProofs!CacheTypes` | `CacheSpec => []CacheTypeOK` | |
| `PushProofs!CacheOwnValues` | `CacheSpec => []OwnValues` | |
| `PushProofs!CacheRetries` | `CacheSpec => []RetriesMaskFaults` | |
| `PushProofs!SerialCoherence` | `CacheSpec => []CacheCoherent` | one goroutine, no `s3` or `memcached` fault |
| `PushProofs!PushTypes` | `PushSpec => []PushTypeOK` | |
| `PushProofs!PushSiphonfileValid` | `PushSpec => []StoredSiphonfileValid` | |
| `PushProofs!PushOwnValues` | `PushSpec => []OwnValues` | |
| `CurrentProofs!SerialRowsHaveBlobs` | `PushSpec => []RowsHaveBlobs` | `OnePusher`, `ReadsComplete` |
| `CurrentProofs!SerialStoresListing` | `PushSpec => []SuccessStoresListing` | `OnePusher`, `ReadsComplete` |
| `CurrentProofs!SerialDoneMeansCurrent` | `PushSpec => []DoneMeansCurrent` | `OnePusher`, `ReadsComplete`, `WritesComplete` |
| `BundlerProofs!BundlerTypes` | `BundlerSpec => []BundlerTypeOK` | |
| `BundlerProofs!BundlerOwnValues` | `BundlerSpec => []OwnValues` | |
| `BundlerProofs!PullsDeliver` | `BundlerSpec => []PullDelivers` | |
| `FrozenProofs!SubmissionsStayFrozen` | `BundlerSpec => SubmissionFrozen` | at most one submitter |
| `FrozenProofs!PullsAndSubmissionsCleanUp` | `BundlerSpec => []TempDirsRemoved` | `{} \notin PackagerOutputs` |
| `FrozenProofs!PushesCleanUp` | `BundlerSpec => []NoTempLeak` | the same, and no `django` fault |
| `SerialProofs!SerialHealthcheckTruthful` | `BundlerSpec => []HealthcheckTruthful` | `OneAtATime` |
| `SubmissionProofs!SerialSubmissionWhole` | `BundlerSpec => []SubmissionWhole` | `OneAtATime`, `ReadsComplete`, `WritesComplete` |
| `PullProofs!SerialProductionPullWhole` | `BundlerSpec => []ProductionPullWhole` | the same, and `CacheAnswers` |
| `StoreProofs!ServiceStoresListing` | `BundlerSpec => []SuccessStoresListing` | `OneAtATime`, `ReadsComplete` |
| `StoreProofs!ServiceDoneMeansCurrent` | `BundlerSpec => []DoneMeansCurrent` | `OneAtATime`, `ReadsComplete`, `WritesComplete` |
| `StoreProofs!SerialImplementsAppStore` | `BundlerSpec => ImplementsAppStore` | `OneAtATime`, `ReadsComplete` |

**Cache.** `OwnValues` is not inductive: it says nothing of a value that a call still
carries. `CacheInv` adds `CallOK`: the operation, key and value of a call at each of its
steps, and that failed attempts of a Set or Delete were faults. Lemmas show that each
way to begin, advance and end a call preserves it. They do not mention the caller, so the
proofs about the routes use them again. `SerialInv` locates the only moment at which memcached may
differ from S3: between the two messages of the one call under way.

**Push.** That a stored Siphonfile is valid rests on a chain through several steps:
`loadMetaData` parses the Siphonfile if it is in `diffs/`; `Compare` lets through only
additions and changes that are in `diffs/`; rows are written only from those. `HandlerOK`
states the links, by program counter. The proof has a case for each action. Actions that
end a request, start a cache call or take its answer share a lemma.

**Rows and contents.** `BlobInv` adds to `RowsHaveBlobs` what a handler knows while it
waits: a Set that is past S3 has stored the content of the row to come, and a Delete is of
a content that no other row has. The second is stable only because no other push runs,
and true only because the rows were read completely: exactly where `push_race` and a
truncated read break it.

**What "Done." means.** `CurrentOK` follows one push from `Compare` to its answer.
`StoreOK`: each row is that of the listing, or its name is left to write and the row is as
`Compare` found it. `MetaOK`: the Siphonfile that was parsed is that of the archive or of the
row. `TempOK`: the copy of the project has every file that is not left to fetch. `FootersOK`:
S3 has the footers stored so far and memcached no others, which needs that no fill is about
to store an old item (`NoItems`). Each failing step leads to an answer that promises
nothing.

**Submissions.** That a submission stays as it is follows from who writes where. `FrozenInv`
says that the S3 object a call is about to write has the prefix of its request (the app's
for pushes, pulls and checks, the submission's for a submission), and that a submitter past
its check works on an ID that has not succeeded (`Fresh`). A call may be under way for
many steps, so the invariant speaks of the calls and not of the handlers. A submission
that succeeds has rows, so the next check of its ID refuses it: this is where the
restriction to one submitter is needed. Every step of every route is then one of two
kinds, a step under the app's prefix (`DevStep`) or under that of an ID that is not frozen
(`SubStep`).

**Temporary directories.** `PushHeld`, `SubmitHeld` and `PullHeld` say which directories exist
at each step of a handler. They are local to a request, so overlap, faults and restarts do
not matter; what matters is that each of the error returns cleans up what its step holds, and
that a footer was built (`BuiltSome`), through which `CleanupFooters` finds the directory.

**All routes.** `BundlerInv` puts the invariant of the pushes next to one for each other
route: the call it waits for and what it will do with the answer. For a pull, `PullOK` says
that each asset that is not left to send is delivered. That this is stable under pushes
rests on `OwnValues`: the Get of an asset is a Get of its hash, which can fail but cannot
return another content. A step of one route keeps the others' invariants because it leaves
their variables and calls alone (`PushFrame`, `PullFrame`, `SubmitFrame`, `HealthFrame`).

**Requests that do not overlap.** `SoloInv` says that at most one request is under way
(`Alone`), that the others are in no cache call, and that no call is about to put an old item
into memcached. A step is then one of a single request (`Solo`), an eviction or a restart,
and what a handler has seen stays true until its next step. On top of it:

- `TruthInv`, for health checks: the rows and the file it has found are still there, and its
  Set and Get of the probe fail by faults only.
- `SubWhole`, for submissions: its four reads of the rows agree (`SubRows`), the files that
  are not left to copy are copied (`SubFiles`), and its footer is built from the same rows
  (`SubFooter`). When it succeeds `SubmissionsStayFrozen` takes over.
- `PullFooter`, for pulls of a submission: the key it asks for. An iOS pull finds the footer
  at once; an Android pull finds none under the new name, because no submission stores one
  there (`NoAndroid`), and falls back to the key the submission did store at. A failing Get
  would send an iOS pull there too, hence `CacheAnswers`.
- `PushesCurrent`: the invariant of the pushes, now with the other routes between them.

**The refinement.** The mapping is the one TLC checks in `bundler_serial`. `StoreInv` adds to
the invariants above `SettledOK`: while a push is under way each row is that of the app
before it or that of the pushed project, and otherwise the rows are the app. The last step
of a push that succeeds is `Push`, because `StoreOK` then makes the rows the listing; its
last step otherwise, or the restart that cuts it off, is `FailedPush`, because every single
write of a row makes it that of the listing (`HandlerRows`). The last step of a submission
is `Submit`: its ID is fresh and its rows are the app's. The last step of a pull is `Pull`,
because its assets are those of the rows it read (`PullSame`). Reading an answer is
`Forget`, and every other step of every route leaves the abstract state as it is.

Only model-checked: the liveness properties `CallsReturn` and `RequestsAnswered`. Liveness
under fairness, and ENABLED, are beyond the proof system's provers, and so are induction over
data and recursive operators; the modules use no recursion. Two instances go beyond the
theorem of the same name: `RowsHaveBlobs` with truncated reads, and `CacheCoherent` when the
caller is a push (both `push_faults`).

## Not modelled

- The third-party packages under `src/src/github.com`, `golang.org` and `gopkg.in` (router,
  postgres, S3, memcached and AMQP clients): nearly all lines of Go in the repository, and not
  the bundler's. What the bundler relies on is modelled at its calls to them.
- The inside of S3, postgres, memcached, RabbitMQ, Django and the packager.
- HTTP details. In particular a push that fails has status 200, because a progress line is
  written before the error; `result` records how a push ended.
- `Unzip` entry by entry, and how `GetIcons` takes names apart: both are decisions about one
  request's own directory. Here a payload can be unzipped or not, and a constant says
  which names are icons.
- The encoding and signature of handshakes (`decryptToken`, `verifyToken`): library calls, here
  a flag.
- Several apps: apps share no row and no key, and every statement names the app, except
  that `SubmissionExists` counts the rows of an ID in all apps. IDs are taken to belong to
  one app.
- A failure to create the temporary directory of `FilesToTemp` (`utils.go:46` ignores it),
  and a packager that succeeds with output that is not JSON.
- `SIPHON_ENV=testing` branches (dummy footers, no PUT), bucket names, start-up, images and
  scripts.
