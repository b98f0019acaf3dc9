# PodLock, specified

PodLock confines the binaries of Kubernetes containers with Landlock.  This
directory holds TLA+ specifications of it, TLC runs on small instances, and
TLAPS proofs for instances of every size.  All paths below are relative to
`src/` unless they name a module.

## The system

A user writes a `LandlockProfile`: for each container name the binaries to
confine, for each binary the paths it may read, write or execute.  A pod opts in
with the label `podlock.kubewarden.io/profile`.

| Component | State it keeps | Operations |
|---|---|---|
| Controller, `internal/controller` | informer caches, work queue, timers | `Reconcile`, `handleDeletion`, `findProfilesForPod` |
| Admission, `internal/webhook`, two chart templates | none | `Default`, `ValidateCreate/Update/Delete`; a policy that makes the pod label immutable |
| NRI plugin, `internal/nri`, `cmd/nri` | profile cache; files under `/var/run/podlock/<pod>/<container>` | `CreateContainer`, `RemoveContainer`, `OnClose`; at start `copyBinaries`, in init mode the node label |
| OCI hook, `cmd/swap-oci-hook` | mounts of one container | `performOverMounts`, once per listed binary |
| `seal`, `cmd/seal`, `internal/seal` | Landlock domain of one process | `parseFlags`, `buildProfile`, rules, `RestrictPaths`, `Exec` |

How they interact.  The API server is the only link between the controller, the
webhooks and the plugins.  The webhook puts a finalizer on every profile, the
controller takes it off when a deleted profile is unused.  On each node the
container runtime calls the plugin when a container is created; the plugin
writes files and answers with mounts and hooks; later the runtime performs the
mounts, the hooks put `seal` over the listed binaries, and at every execution of
one `seal` reads the mounted profile, restricts itself and executes the backup.

What is hard about it:

- **Stale reads.**  The controller decides on cached profiles and a cached pod
  list and writes with a merge patch that has no precondition.  The plugin reads
  a cached profile.
- **Lost work.**  A pending release lives only in events, a queue and timers of
  one process that can crash; the webhooks are down together with it.
- **Shared files.**  The plugin's files are made in one call, used by the runtime
  later, and deleted by the removal of any container of the same pod.
- **Order.**  The hooks run in the random order of a Go map, on paths that may be
  links to each other.
- **Nesting.**  A sealed process may execute another listed binary, or `seal`
  itself: rules stack up, with a limit, they hide files from the inner `seal`,
  and what the environment told the outer one must not reach it.
- **Shared objects.**  The plugin rewrites helpers on the host that running
  containers execute, and a node object that other controllers write.

Each of these is an entry of `hazards` in `PROJECT.json`, at its source line, with
the properties that would notice it going wrong.

What makes each component correct: the controller never lets go of a profile
that pods it knew of still use, always lets go of unused ones, and disturbs
nobody else's finalizers; admission leaves no live profile without the
finalizer, admits what the readers of a profile can work with and never refuses
the release of what it admitted; the plugin registers only with intact helpers
and a true node label, its files are present, right and unshared while a
container uses them and gone with the pod; the hooks intercept every listed
binary and keep the original; `seal` never runs a binary unconfined, finds the
right profile and binary in both its modes, lets the binary start, and ends.

## Modules

| Module | Models |
|---|---|
| `ProfileLifecycle` | API server, admission, controller, users, pods |
| `ProfileLifecycleProofs` | theorems about it |
| `ProfileProtection` | what the controller promises, without its machinery |
| `ProfileRefinement`, `ProfileRefinementProofs` | `ProfileLifecycle` implements it: mapping and proof |
| `Paths` | Go's `path/filepath` on paths as lists of parts, and where the kernel gets by them over symbolic links |
| `Admission` | the validator of profiles, and what their readers rely on |
| `SealConfig` | how `seal` is configured; extends `Admission`, whose stored profile it reads |
| `SealConfigProofs` | theorems about `Paths`, `Admission` and `SealConfig` |
| `LinkedLibraries`, `LinkedLibrariesProofs` | the discovery of shared libraries in `internal/seal/ldd.go`, and theorems |
| `NodeRuntime` | NRI plugin of a node, its files, kubelet and runtime |
| `NodeRuntimeProofs` | theorems about it |
| `BinaryInstall`, `BinaryInstallProofs` | `copyBinaries` at the start of the plugin, and theorems |
| `NodeLabel`, `NodeLabelProofs` | the init container, and theorems |
| `ContainerExec`, `ContainerExecProofs` | hooks and `seal` in one container, and theorems |
| `MC...` | instances of these for TLC |

In each module operators ending in `_Something` are wrong variants of the
definition before the underscore.  They are used by nothing; putting one in the
place of the right definition makes the property it belongs to fail, which shows
that the property depends on that code.

### ProfileLifecycle

`profiles` and `podRef` are what the API server stores; `cProfiles`, `cPods` are the
informer caches, fed in order through `profileWatch` and `podWatch`.  `queue`,
`requeued` and `backoff` are the three places where a key can wait: queued, on the
90 seconds timer, on the rate limiter's timer.  `pc`, `cur`, `snap` are the
position of the single worker (`MaxConcurrentReconciles` is not set, so there is
one), its key and its deep copy of the profile.

`Reconcile` is split at the points where other actors intervene: `ReconcileGet`
(read of the profile, both early returns), `ReconcileList` (pod list: requeue or
go on), `ReconcilePatch` (the patch and its outcome).  `ReconcileError` is the
failure of any of the calls; if it was the patch, the request may become an
*orphan* that still reaches the server later (`OrphanArrives`).  `ControllerCrash`
loses everything in memory and may leave an orphan too; `ControllerRestart` fills
the caches from the server and queues all there is.  Admission is part of every
write: `Updated` applies `Default` to the new finalizer list, and writes need
`up` because both webhooks have `failurePolicy: Fail` and run in the controller
process.  `DeleteProfile` needs no webhook: the rules do not list `DELETE`.

A merge patch sends the complete finalizer list, so it replaces whatever list
it meets; the model keeps that.  The uid recorded with a request is not sent; it
says which incarnation was read, for the properties.  `witnessed` is a history
variable: the pods known when a deletion was requested (those in the cache, or
with the controller down those on the server, which are in the cache before a
worker of the next process starts).

Not in the model: the spec of a profile (the validator accepts every release, see
`ReleaseAccepted` below), status, a user who strips PodLock's finalizer from a
profile being deleted by hand.

### ProfileProtection and ProfileRefinement

`ProfileProtection` has no caches, queues, finalizer lists or requests.  A profile
is live, closing (deletion requested), released (only other owners still hold it)
or absent; a release takes a *permit*.  A permit for the profile at hand is given
only when every pod known at the deletion request has gone.  A permit names the
incarnation it was given for, but a release does not look at that, as the code's
patch does not.  `ProfileRefinement` maps the detailed state: the phase is read off
the finalizers, and the permits are the patches that can still reach the server,
from the worker or as orphans.  Giving up a request, crashing or retrying is then
a permit lapsing, and reads, lists and watch events are stuttering steps.

### NodeRuntime

`files`, `reserved` and `content` are the host's directory; profile files have an
identity (`Inodes`) because a mount holds the inode found when the container
started, and `O_TRUNC` rewrites it in place.  `h` is the `CreateContainer` call in
progress, split at each file.  The runtime sends one request or event at a time,
so `RemoveContainer`, one step, happens only when no call is in progress.
Between the return of `CreateContainer` and `StartContainer` or `StartFails`
nothing of the plugin runs, and removals happen.  The profile informer is started
by the first `Get` (`Unsynced`, `SyncCache`).  A failed file operation fails the
creation and cleans up nothing; a crash of the plugin, or the runtime closing
its connection (`OnClose` exits), lets the runtime go on without it.  `os.RemoveAll`
may fail with part of the files gone; the runtime only logs the error the plugin
answers with, and does not call again, so such a removal counts as `missed` like
one with no plugin to hear of it.  The kubelet is as permissive as it is known to
be: containers of a pod are created one at a time, dead ones are removed at any
later moment, also after their successor runs.
`ctr` gets the profile version its adjustment was made from.  External actors are
modelled only as far as they call or are called by the plugin.

### BinaryInstall

One file per helper on the host, as content and number of blocks written, so
that a checksum is equality.  `Compare`, `OpenForWriting` (which truncates),
`CopyBlock` and `Advance` are `CopyFileIfDifferent` for one helper after the other;
`OpenRefused` is the kernel's "text file busy" when somebody executes the file, on
which the process exits.  `Fault` ends it anywhere, `Upgrade` replaces its image.

### NodeLabel

The API server's versions of the node are a sequence; `cached` is the one the
client's cache is at.  `Get` reads the cache (the first read fills it), `Update` sends
the whole object with the version read, `Conflict` counts down the attempts of
`RetryOnConflict`, and when none is left the process exits.  Other controllers
write the node, and the node may come back with another kernel.  A request that
fails, or whose client crashes, may have been handled, be handled later (`orphans`,
`OrphanArrives`, under the version it was sent with), or never; those that are left
when the node reboots are given up, as the API server bounds the time of a request.

### Admission and SealConfig

`Admission` has the validator as operators over paths with `""`, `.` and `..` among
their parts, and the requests that create, change, refuse and release one profile.
Its properties are about the readers: the Landlock rules built from a profile,
where a rule for a directory holds for everything below it, the backup path of a
binary, and the controller's patch.

`SealConfig` continues when a container starts with the stored profile.  A program
calls `seal` under any name, with any arguments and `SEAL_` variables; `Seal` or
`SealFails` follows, and after `Seal` the sealed program may call again, under
what `sealedProcessEnv` left of the environment.  `layers` remembers the calls and
configurations in effect.  `Links` has the symbolic links of the container, each with
the place it leads to in the end.  `Reached` walks a path part by part; with links it is
the kernel's lookup, without any it is `Clean`, and `Place` compares the two.  Listed
paths exist and are not looked up over links when rules are made
(`ContainerExec` has that).  Only whether a profile is found is modelled of its
file; what happens under its rules is `ContainerExec`.

### LinkedLibraries

Initial states are images (which loaders, libraries and other files there are), all
rules of an outer `seal` (which directories can be listed, which files used), what
`LD_PRELOAD` names, whether the profile grants the loader's cache, and binaries of each
kind.  The steps are those of `DiscoverLinkedLibraries`, the parser works on lines of
words, and at the end the kernel starts the binary under the old and new rules
together, or kills it.  What loaders write is taken from the forms `parseLoaderOutput`
and its tests know: lines with and without an arrow, libraries that are not found, the
kernel's object, an empty line; and the loader inherits the environment of `seal`, so
objects of `LD_PRELOAD` have lines too, with the error glibc's loader writes for one it
cannot open.  A path with white space is what `strings.Fields` leaves of it
(`FirstWord`).  Libraries in `Cached` are found through `/etc/ld.so.cache` (or musl's
path file) only, by the loader that lists as well as by the one that starts the binary,
under different rules (`Found`).

### ContainerExec

A path is its *lookup*: the directory entries visited, over links, to a file.
A program that executes a path is free in what it passes: `argv[0]` is that path, a bare
name, another listed path, or `seal`, and `SEAL_PROFILE_PATH` may name a file of its own
(`OwnFiles`).  A bare name may stand for any binary in the working directory; `seal` and
`SealPath` select native mode, whose command line names any binary and any rules.
Any call of a hook may fail, with one of its two mounts done (`HookFails`).
`performOverMounts` opens the target over whatever is mounted (`Content`), puts
it over the backup, and covers the entry the target names, a link included, with
`seal`.  A process executes paths, itself allowed to by the rules it is under; if
it reaches `seal`, four steps follow: `ParseFlags`, `BuildProfile`, `Restrict`,
`ExecBackup`, each with its failure.  `layers` and `depth` are the stacked rulesets.
Rules are tied to files, as in the kernel, not to names.  What rules grant is
"use"; the access modes (read, write, execute) are in `Admission`, shared
libraries in `LinkedLibraries`.

The documentation calls the mounted file `/.podlock/profiles.json` and the backup
`.../usr/bin/curl/curl`; the code uses `/.podlock/profile.json`
(`internal/nri/constants.go:30`) and `.../usr/bin/curl`
(`internal/nri/filesystem.go:91`).  The model follows the code.

## Runs

| Run | Instance | Shows |
|---|---|---|
| `lifecycle` | 1 name with 2 incarnations, 2 pods, 1 foreign finalizer, 1 crash, 1 orphan, 2 undelivered events per object before users pause | the invariants of `ProfileLifecycle`, `DeletionIsTwoPhase`, `ImplementsProtection` |
| `lifecycle_liveness` | 1 name, 1 pod that may change its label (no label policy), the same faults, with fairness | `EventuallyReleased` |
| `lifecycle_reused_name` | 1 name with 2 incarnations, 1 pod, no faults, 3 undelivered events | `DeletedOnlyAfterWitnesses` fails |
| `node` | 1 pod, 2 containers, 2 profile versions, 1 fault (a failing removal among them), 1 exit and 1 dead container per slot, with fairness | `SealedAsRead`, `FilesGoneWithPod`, `EventuallyCreated` |
| `node_cleanup` | the same, no faults, 2 dead containers per slot | `PreparedFilesPresent` fails |
| `exec` | 2 paths and that of `seal` over 3 entries, links of length up to two, any `argv[0]`, a profile file of the user, 3 layers, with fairness | `SwapComplete`, `RunsUnderItsProfile`, `ListedBinaryStarts`, `SealEnds` |
| `exec_aliases` | 3 paths, `argv[0]` is the path | `BackupHoldsOriginal` fails |
| `exec_by_name` | 3 paths, `argv[0]` is the path or the bare name | `SealKnowsItsBinary` fails |
| `install` | 2 helpers of 3 blocks, an upgrade that changes one of them, 4 faults, with fairness | `InstalledWhenRegistered`, `IntactFilesKept`, `EventuallyRegistered` |
| `label` | 2 kernel versions, 3 attempts, 7 versions of the node, 2 faults, late updates, with fairness | `OtherLabelsKept`, `LabelTrueWhenStarted`, `EventuallyLabelled` |
| `profile_use` | every profile with 1 or 2 binaries named by paths of up to 2 parts, every pair of access levels with shared and nested paths; 2 links, one on the way to the working directory; 32 calls of `seal`, nested twice | the seven properties of `Admission` and `SealConfig` |
| `libraries` | up to 2 of 4 loaders in 3 directories, 3 libraries (one with white space, one only the cache tells of), an object in `LD_PRELOAD`, every outer rule set, 15 binaries | `StartsAsUnsealed`, `OnlyLibrariesGranted` |

Each module's `TypeOK`, where it has one, is checked by its first run.

The properties say:

- `LiveProfilesProtected`: a profile not being deleted has the finalizer, even
  after a patch meant for an earlier profile of its name met it.
- `WitnessedPodsBlockRelease`: a release in flight was decided after every pod
  known at the deletion request had gone.  It needs the pod label policy.
- `PatchKeepsForeignFinalizers`: the list in a patch, computed from a cached copy,
  still has every foreign finalizer that the profile has.
- `PendingProfilesTracked`: something will make the controller look at a
  profile that waits for it.
- `UnusedProfilesPrompt`: if it is unused, something other than the 90 seconds
  timer will (`concepts.adoc`: profiles that are not referenced are deleted
  "immediately").
- `DeletionIsTwoPhase`: no step makes a live profile vanish.
- `ImplementsProtection`: every step of the detailed system is one that
  `ProfileProtection` allows.
- `EventuallyReleased`: a deleted profile no pod uses any more is released.
- `SealedAsRead`: a running sealed container sees exactly the profile version
  its hooks were made from.
- `FilesGoneWithPod`: a pod that is gone leaves no files, unless the plugin was
  absent from the last removal, or failed in it, or nothing was removed after a failed
  creation.  These exceptions are real: nothing reconciles the directory at start.
- `EventuallyCreated`: a container of a pod that stays gets to run, again and again.
- `SwapComplete`: in any hook order every listed path leads to `seal`, and its
  backup is the binary if no other listed path leads through the same entries.
- `RunsUnderItsProfile`: whatever `argv[0]` and `SEAL_PROFILE_PATH` say, executing a
  path that `seal` covers ends in a backup, under the rules that the file consulted has
  for that very binary and under those of the process that executed it.  That the binary
  is the one of the path, and the file the container's, holds when `argv[0]` is the path
  and the environment names no file; a caller that says otherwise chooses among the
  listed binaries and may choose their rules, never to get out of its own.
- `ListedBinaryStarts`: rules that grant nothing do not stop the binary itself, unless it
  is called `seal`, which selects native mode.
- `SealEnds`: `seal` becomes the program or gives up, even if a backup is `seal`.

- `InstalledWhenRegistered`: the plugin registers only when both helpers are complete
  and of its image, whatever an earlier start left unfinished.
- `IntactFilesKept`: a helper that is right is never opened for writing.
- `EventuallyRegistered`: unless helpers are executed whenever one has to be
  replaced, the plugin gets to register.
- `OtherLabelsKept`: no update from an outdated copy loses what others wrote.
- `LabelTrueWhenStarted`: the plugin runs only under a label that states the running
  kernel's version; running out of attempts is not success.
- `EventuallyLabelled`: although all attempts of one run may meet the same
  outdated copy, some run succeeds.
- `ReleaseAccepted`: `ValidateUpdate`, which also judges the patch that takes the
  finalizer off, accepts all that was ever stored.
- `GrantedAsListed`: the rules grant a path what the one list that names it says, and
  what the lists grant that name a directory above it: with `/a` in `readWriteExec` and
  `/a/b` in `readOnly`, `/a/b` can be written and executed, which the validator admits.
- `BackupsApart`: the backups lie in their directory as the binaries lie in the root; two
  are one file, or one is on the way to the other, only where the binaries are.  So keys
  `/a` and `/a/b`, which the validator admits, need an image that no file system can
  have, as does the key `/`.
- `WellFormedAdmitted`: nothing is refused that has straight paths and one level
  for each.
- `ConfiguredAfresh`: a nested `seal` is configured by its own call alone.
- `FlagsAreTheProfile`: path flags before the separator are the whole profile, and
  without any a file that the caller named; a stray word before the separator hides the
  flags behind it without an error, but never adds one.
- `RunsWhatWasNamed`: making the binary's name canonical names no other file, unless a
  `..` in it leaves a directory that was entered by a link.
- `StartsAsUnsealed`: sealed with its libraries, a dynamically linked binary starts
  whenever it would unsealed.  The exceptions are real, each has a state that needs it:
  a second loader in the directories searched, white space in a path, and libraries in
  directories only the loader's cache tells of while the profile does not grant the cache.
- `OnlyLibrariesGranted`: the listing adds the loader, needed libraries and objects of
  `LD_PRELOAD`, or the first words of their paths, and nothing else.

Four runs show where documentation and code differ (`findings`):

1. `lifecycle_reused_name`.  The finalizer is said to "remain in place until all Pods
   referencing the profile have been deleted".  A patch decided from a stale cache
   for a deleted profile names only key and finalizers; when the name has been used
   again and that profile is being deleted too, it releases the new one, although
   a pod the controller knows of uses it.  No crash or lost request is needed.
   (The sentence is also too strong for pods that the cache has not heard of, which
   do not hold their profile; `WitnessedPodsBlockRelease` is what does hold.)
2. `node_cleanup`.  The plugin is said to clean up "when a pod is deleted".  It does so
   when any container is removed, also between the preparation of a sibling and
   its start.  That start fails and is retried: `EventuallyCreated` holds.
3. `exec_aliases`.  The backup is said to contain the original binary.  If two listed
   paths lead through one directory entry (as in two paths over a link to a directory),
   the later of their two hooks, in either order, backs up `seal` instead.
   Then `seal` executes itself until the kernel refuses another ruleset
   (`SealEnds`), and the program does not start.
4. `exec_by_name`.  `seal` is said to look at "the path it was invoked from".  It looks
   at `argv[0]`, and a name found through `PATH` is resolved against the working
   directory; the profile lookup then fails, and the program does not start.

Smaller things met while modelling: `resolveBinaryPath`, whose comment promises an
absolute path, leaves one that starts with `..` relative; paths are cleaned by name, so
`..` behind a link names another file than for the kernel; flags behind a stray word are
dropped without a message; a list for a directory cannot be narrowed by another for a
path below it; the loader is chosen by directory, so a binary for another libc may get
the libraries of the wrong one; the loader's cache is not granted, paths with white space
are cut, objects of `LD_PRELOAD` are granted; and scripts and programs that have an
interpreter but import no library get nothing granted.

### Bounds

`MaxLag` pauses users, never the controller: with undelivered events the caches are
stale in every way one or two events can make them.  Two incarnations are
what a stale patch needs to meet a wrong profile, two pods what a list needs to be
partly stale, one crash and one orphan what puts a request outside of a
process; the proofs do without all of these bounds.  `Inodes` is two: one
for the file of each container, as the container whose slot is reused has ended
and let its inode go; a third makes no difference (`node_cleanup` has it).  Two
profile versions let a rewrite differ from what is mounted; two containers are a
container and the sibling whose removal disturbs it.  One dead container per slot is
enough because every removal deletes the files of the whole pod: the sibling's
dead container outlives the creation, the run and the exit of the other.  Four
faults let both helpers be cut short in one upgrade and the next start again; two
blocks of three are a partial file.  Three attempts stand for the five of
`retry.DefaultRetry`, seven node versions are more than one run's attempts can
meet.  Two path parts have every odd part in every place, and two nested seals are
what a leaking variable needs.  Three
paths are an alias pair and a bystander that may be missing, in the runs about
aliases and names; two paths and every `argv[0]` are enough for one binary to be
called as another; `MaxLayers = 3`
stands for the kernel's 16, enough for nested binaries and to see the alias loop
end.  Images are taken up to renaming of the entries.

### Fairness

`ProfileLifecycle`: watches deliver and timers fire (weak), the Deployment
restarts the process (weak), the worker takes every key that keeps being queued,
and its three calls, which may fail any number of times, at some point succeed
for each key (strong, per key: an error for one profile says nothing about
another).  Crashes are bounded, errors are not.  Users and pods owe nothing, so
`EventuallyReleased` assumes that pods stop using the profile.
`NodeRuntime`: the plugin makes progress and is restarted by its DaemonSet (weak);
the kubelet's requests and the starts may be disturbed by other activity but not
always (strong), faults are bounded.  `ContainerExec`: only that `seal` is scheduled.
`BinaryInstall` and `NodeLabel`: the kubelet restarts the process and it makes
progress (weak); the watch delivers (weak).  `EventuallyRegistered` assumes that at
some point nobody executes the helpers any more, since the code itself retries only by
exiting.

Deadlock checking is off except in `install`: the counters that bound the instances let them stop.

## Proofs

`ProfileLifecycleProofs` proves for every set of names, pods and foreign
finalizers, every bound and both values of `VapEnabled`, from the assumptions in
`ProfileLifecycle` alone:

- `TypeCorrect`;
- `LiveProtected` and `TwoPhase`: `EveryWrite` describes once what any step can do
  to a stored profile; both follow with type correctness.
- `ForeignFinalizersKept`.  A patch is computed from a snapshot, itself from the
  cache, itself from events.  The invariant `ReadInv` says that all of these are
  *older states of the same profile*: `Precedes` orders states of one
  name (smaller uid, or same uid and, once terminating, shrinking finalizers).
  `ServerMovesOn` shows that every write moves forward in that order and so keeps
  everything read before behind it.  What is still of the same incarnation and was
  terminating when read can have lost finalizers but gained none.
- `NoReleaseForgotten`.  `CacheCatchesUp` says that the last undelivered event, or
  the cache if there is none, is the server's state.  So a pending profile is
  pending in the cache or announced; and no path through `Reconcile` drops it.
- `WitnessedPodsProtect`, for `VapEnabled`.  `PodLabelsFixed` (a label in the cache or
  in an event is the label the pod has had all its life) and `WitnessesSeen` (a
  witnessed pod that still exists is in the cache of a running controller) make
  the cached list contain it; a patch made before the deletion was requested
  does not exist for this incarnation, by `ReadInv`.

- `UnusedReleasedPromptly`, with and without the label policy: the pod event that
  makes a profile unused in the cache queues it, and after a successful patch either
  an event is on its way or, by `CacheCatchesUp`, the cache knows of the release.

`ProfileRefinementProofs` proves `LifecycleImplementsProtection`, for `VapEnabled`.
Each action maps to one abstract step or to stuttering.  Requests disappear by
`Lapse`.  `ReconcileList`, where the patch begins to exist, is `GivePermit`, whose
condition is `WitnessedPodsBlockRelease` in the next state together with `ReadInv`;
writes of the server need `LiveProfilesProtected`, so that a live profile never
counts as released.

`NodeRuntimeProofs` proves `NodeTypeOK`, `SealedSeeWhatWasRead` and
`NothingLeftOfPods`, for any pods, container names, versions and bounds.  Neither
property is inductive.  For the first the invariant says who owns an inode: no two
paths share one (`FilesApart`), one that a sealed container has mounted is reachable
under that container's path only (`MountsOwned`), the file of a container waiting to
start holds its version (`AdjustedAsRead`), and the call in progress belongs to a
container in creation (`CallInv`), so the file it truncates is mounted nowhere.  For
the second it says who will clean up: while a pod has files, a container of it is
still to be removed, or the pod is in `missed` (`FilesOwed`), and of a pod that is
gone nothing is still to be removed (`GoneIsEmpty`).

`BinaryInstallProofs` proves `InstallTypeOK`, `RegistersInstalled` and
`KeepsIntactFiles` for any number of helpers, blocks and images.  The invariant: what
comes before the helper at hand is in place (`InPlaceBefore`), what is about to be
opened differs from the image's (`OpensWhatDiffers`), and a copy in progress has the
right content and is not complete yet (`Unfinished`).

`NodeLabelProofs` proves `LabelTypeOK`, `KeepsOtherLabels` and `LabelStatesVersion` for
any number of attempts, writers and faults, from the fact that the server takes only
updates of its latest version, so that what is written back has what others wrote, by
an update in progress or by one that arrives after its client gave up.

`ContainerExecProofs` proves `TypeCorrect`, `SwapIsComplete`, `RunsSealed` and
`ListedStarts` for any paths, images with links of any length, lists, rules and number
of stacked rulesets.  `HookInv` describes the mounts after any subset of the hooks, in
any order: an entry is covered only by `seal` and only because a hooked path names it, so
a lookup that meets a covered entry ends in `seal`, and the backup of a binary that no
other listed path shares an entry with was taken from the image.  `StageInv` and
`StartInv` carry the path a process was reached by through the four steps of `seal`;
`LayerInv` says how its rulesets relate to those of the process that executed it.
`RunsUnderItsProfile` and `ListedBinaryStarts` speak of a program that runs; with these
parts they become inductive.

`SealConfigProofs` proves, for paths of any length and any links, all seven properties of
`Admission` and `SealConfig`: `AlwaysReleasable`, `GrantsAreListed`, `BackupsDistinct`,
`NothingRefusedWrongly`, `NestedAfresh`, `FlagsWin`, `RunsTheNamed`.  Most of it is about `Clean`.  The provers cannot use an induction rule
with an operator as parameter, so the induction is over sets: `UpTo` and `SeqInduct`
derive from the well-foundedness of `<` that a set of sequences that contains the empty
one and every extension of its members contains all.  From it follow what `Kept`
computes part by part, that an absolute path is its own `Clean` exactly if it is straight
(what the validator checks is what the readers need), that cleaning twice or in two
pieces gives the same, that joining a straight key to the backup directory concatenates
(so backups are apart), and that the kernel reaches the same place before and after
`Clean` unless the path leaves a directory it entered by a link (`CleanReaches`: the
places reached have no link on the way, `RealPlace`, so `..` undoes exactly the part
before it).  The invariant: what is stored
passed the validator and what was refused did not (`AdmissionInv`); a program's
environment has none of the variables of `seal`, so a call finds only what its caller set
for it (`CallInv`); every layer was configured as its own call asked (`LayersInv`).

`LinkedLibrariesProofs` proves `OnlyLibraries` and `SealedStarts` for any loaders,
libraries, binaries, preloaded objects and outer rules.  `ListingRead` goes through the
forms of lines a loader writes and concludes that the code reads from a listing exactly
the first words of the paths of the loader and of the needed libraries and preloaded
objects that the loader could open.  The invariant says that a linked binary gets beyond
discovery only with a listing of the loader found (`OutputInv`), that this loader is one
of the image, in a directory that is searched (`LoaderInv`), and that the rules are what
was read (`GrantedInv`).

Assumptions are the named `ASSUME`s of the modules; TLC evaluates them for each run.
Most only type the constants or keep apart names of different things.  The others:
`BackupAssumption`, the backups are in a directory the plugin mounts and no file of the
image; `LayersAssumption`, the kernel takes at least one ruleset;
`DirsAssumption`, the backup directory is a constant of the code without odd parts and a
working directory is absolute; `CallsAssumption`, `exec.LookPath` returns a clean absolute
path or an error; `NamesAssumption`, no library's name holds the arrow at which
`parseLoaderOutput` cuts a line (with one that does, the library would not be granted);
`LinksAssumption`, a link is given with the place it leads to in the end, which has no
link on the way.
Every part of the inductive invariants was checked by TLC before it was proved.

Every invariant and every action property of the runs is proved.  Only model-checked are
the liveness properties, `EventuallyReleased`, `EventuallyCreated`, `SealEnds`,
`EventuallyRegistered` and `EventuallyLabelled`: fairness and `ENABLED` are beyond the
proof system.

## Not modelled

- Flags, logging (`internal/cmdutil`), TLS, metrics, probes and the scheme: no behaviour
  that the properties are about.  `zz_generated.deepcopy.go` is generated.
- The Helm chart, but for the label policy and the webhooks' failure policy.
- Leader election: the chart runs one replica.  With more, the election of
  controller-runtime gives one active reconciler, which a crash and restart of the
  model stands for.
- The file system of a container changing while `seal` starts: `processPaths` stats a
  path that Landlock opens later (`internal/seal/rules.go:78`), and a path that
  vanishes in between makes `seal` give up.  `ContainerExec` has a constant image.
- What a preloaded object needs itself, and other variables of the loader
  (`LD_LIBRARY_PATH` and the like act on listing and start alike).
- Failures of `seal` that no property needs: a kernel without the Landlock version,
  a mistyped `SEAL_` variable.
- Reading the profile file: its JSON is what the plugin wrote (`NodeRuntime`), or is
  found or not found (`SealConfig`).

## Plan

Done: all components above, and proofs of all their safety properties.  Left:

1. What `ContainerExec` promises as a specification without mounts and stages of `seal`,
   and a proof that it is implemented.
2. Profile life and nodes together: what a container gets that is created while its
   profile is being deleted.
