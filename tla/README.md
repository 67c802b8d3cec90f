# A TLA+ model of tebako

tebako packages an application and its runtime into one file. At run time the
*driver* mounts the images of the package into a virtual file system
(`crates/tfs`), whose calls the preloaded library or the runtime's own hooks
redirect to; the *bootstrap*, the *shim* and the *command line* fetch runtimes
and payloads into caches on the host that all tebako programs of a user share.

This directory models what of that has state that several calls, callers or
processes change. Everything here is written from the code in
`src/crates/*/src`; the map from every definition to its lines is in
`PROJECT.json` (`map`), the hazards that the properties are for in `hazards`.

## The system

| Component | State | Operations | What is hard | What makes it correct |
|---|---|---|---|---|
| Copy-on-write backend (`tfs/backends_cow.rs`, over `backends_hostdir.rs` and any read-only backend) | an overlay directory, a set of whiteouts behind a lock, the journal file | `pwrite`, `truncate`, `mkdir`, `remove`; `stat`, `pread`, `read_dir`; `stack` | two layers and one view; verbs of many host calls, run side by side, cut short by crashes and refusals; a journal that must agree with memory | the merged view is one mutable tree; deleted content stays deleted; acknowledged writes and deletions survive; a failure is invisible; the write gate confines |
| Mount context (`tfs/context.rs`, `mount.rs`) | mount table, descriptor table, directory handles, counters | `mount_checked`, `mount_union`, `unmount_handle`, `unmount`, `open`, `read`, `lseek`, `close`, `opendir`, `readdir`, `seekdir`, `closedir`, path writes | mounts change under open handles; nested mount points; numbers that are given out again | a handle lives no longer than its mount and never comes to name another open; dispatch is unique; a write lands where reads are served |
| Extraction (`tfs/context.rs` from 1501, 1605) | extraction cache, host files, what is known of homes | `dlmap2file`, `exec_materialize` | caches keyed by path or handle over a changing table; cyclic libraries; partial failures | an answer is a whole copy of what the mounts serve, with its libraries |
| Preload library (`libtfs-preload`) | per thread: inside the engine or not; the context lock; a cache of the jail; the fork child's mark; descriptors, streams, mappings | every interposed libc call | the engine's own calls come back through the interposed functions, under its lock; a fork leaves locks and streams behind; a call that was answered "host" is made on the real libc | every call returns; the host is reached only as the jail allows; mappings are returned |
| Host policy (`tpkg/jail.rs`, `tfs/policy.rs`) | the jail, exported from surface to surface; the policy it is bound to | compose, export, import, bind, check | composed by several programs in a row through an environment variable; longest grants | the composition allows exactly what both sides allow, and again after it was exported |
| Runtime store (`tebako-bootstrap/lib.rs`, `tebako-shim/runtime.rs`, `tebako-cli/resolve.rs`) | entries under `runtimes/`, temporary directories, lock files | resolve, download, verify, publish, add image, prune | three installers with two lock files and two ways to publish, in one directory; crashes, lock time-outs | what was answered to be installed is there; an executable is published once; every call returns; an entry that is being installed is invisible |
| Payload cache (`tebako-resolve/cache.rs`, `store.rs`) | artifacts, checksum markers, lock files, temporary files, the stamp of the layout | resolve, download, publish, remove | removal without a lock takes the lock files away; a temporary name by process id; two renames; a stamp that is truncated before it is written | a marker never vouches for other bytes; everybody is told the same checksum; every call returns |
| Registries (`tebako-shim/regcache.rs`, `config.rs`) | the list of registries; a copy of each and its fetch time | dispatch, `add-registry`, `update-registries` | no lock anywhere; two files per copy; clocks set back; malformed bytes | what dispatch reads is not older than its term; it never goes back; registrations are kept |
| Home (`tebako-cli/install.rs`, `tebako-shim/manage.rs`, `resolve.rs`) | cached images, mirrors of manifests, trees of native programs, shims | install with closure, uninstall, dispatch | partial failure of the closure; dependencies that need each other; shims without owners; removal without a lock | what is installed has its dependencies and its commands; no shim outlives its payload; every install ends |
| Roots of trust (`tebako-bootstrap/lib.rs` 1254, 1517; `tebako-signer`) | trusted keyring, the marker of a verified package | follow a chain of successor statements, verify | order, gaps | not modelled |
| Driver, package format, image readers, tools | none, or computed once at start | | parsing, layout, routing | see `components` in `PROJECT.json` |

How they interact: the driver mounts images through the mount context, which
owns a backend for each mount; a writable mount's backend is the copy-on-write
one, stacked over the image's reader; two images at one point become a union.
Extraction reads through the same mount table and writes to the host. The
preload library stands between the program's libc calls and the context, whose
policy is composed by `tebako run`, the shim and the bootstrap, one after the
other. The installers meet in the file system only, through lock files and
renames; the shim's dispatch reads what they left.

## The modules

`Tree` has paths, entries and contents, and what the host's file calls do to
them. A path is an element of a constant set with its parent and ancestors; a
content is a sequence of blocks.

`TreeFs` is the abstract specification of a writable mount: one mutable tree and
the four verbs of `WritableBackend`, with no layers. Its constant `MayBury`
says whether a write two or more levels below a file may replace the file.

`Cow` is `CowBackend`, one action per verb: `base`, `overlay`, `whiteouts` and
the answer. `StatMerged`, `ReadDir`, `EnsureOverlayParent` and `CopyUp` have the
names of the methods. It implements `TreeFs` under `view <- View`, the merged
view (`RefinesTree`; `ShallowRefinesStrictTree` for `MayBury = FALSE`).

`CowSteps` takes the same verbs apart into host operations: each thread has a
program counter, a step is one host call with the lookup that decides on it, or
one section under the whiteout lock. Between any two steps another caller may
step (`Thread`), the process may die (`Crash`: memory is lost, the overlay and
the journal stay, the whiteouts are read back), or the host may refuse the
operation (`HostRefuses`). History variables record what callers were told:
`promised` writes, `deleted` base paths, and `settled`, the state when a verb
last returned, through which it implements `Cow` (`RefinesCow`).

`Vfs` is the mount table with its descriptors and directory handles. A mount
has a point, a mode and an image (a tree, and whether its manifest says it is a
home). `clients` are the numbers that callers hold. What is done by path through
a writable mount is `TreeFs`'s, cut down to three writes; the layers below are
`Cow`'s business.

`Materialize` extends `Vfs` with extraction: the cache and the host files of
`dlmap2file`, the closure walk over `Needs`, the homes of `exec_materialize`.
It composes the two: every mount, unmount and write of `Vfs` is a step here.

`Jail` is the algebra of host jails, without variables: what a jail allows at a
path, `Intersect`, the environment it travels through, the policy it is bound to
and the check (`Check` follows `host_check` grant by grant).

`Preload` extends `Jail` with the preloaded library. First the surfaces that
compose the jail, in the order in which they hand it on (`Command`, `Package`,
`Initialize`: `stage`, `request`, `user`, `env`, `policy`); then the calls of the
program's threads. A thread has a stack of calls, since the engine's own libc
calls (`HostIO`) come back through the interposed functions; `guard` is the
thread-local `IN_ENGINE`, `lock` how the context is held, `cache` the lock of the
directory-entry cache, `child` the mark of a fork child, `opened` the descriptors and
streams with the side they belong to, `anon` the anonymous mappings being filled.
Each way of answering has its step: the gate, the second look at the policy, the
engine, the real libc.

`RuntimeCache` is one entry of the store of runtimes and the programs that
install into it or prune it. A process is of a kind (bootstrap, shim, press,
prune) and has a program counter; a step is one look at the entry, one lock, one
download (which also fails) or one change of the entry, so that the others step
between any two of them, and any process may die (`Crash`). Bootstrap and shim
lock a file beside the entries (`held = "store"`), press one inside the entry
(`held = "entry"`, on the inode `file`, since prune may take the file away and
another be made). The entry is the directory, who put the executable there, the
image and its marker. What the programs answered is kept in `told`.

`PayloadCache` is the directory of one payload with its versions, and the stamp
of the store. An installer reads the stamp and writes it if it is missing, looks
for the artifact, fetches, takes the version's lock, looks again, writes the
temporary file, makes it read-only, renames it, writes the marker; a removal
takes the files away one by one, lock files included, without a lock. `sealed`
is a temporary file that a process with the same process id left behind
read-only. `answered` keeps the checksums callers were told, `torn` that a
removal ran beside another call, or that it or the writing of the stamp was cut
short.

`Registries` is the list of registries and the copies of the remote ones.
Dispatch, update and add are calls of several steps; `Tick` moves the clock,
`Publish` puts the next revision at a source. `seen` is the last revision a
dispatch has answered from or refused, `raced` the registries of which two copies were under
way at once, `overlapped` that two calls rewrote the list at once.

`Home` is what an installer puts beside the image, one after the other: mirror,
tree, shims; then the same for every dependency, one level deeper, on an explicit
stack (`finish_install` calls itself). `Uninstall` takes all of it away.
`Providers` is how a dispatch finds who provides a command. `ok` keeps the
entries an install has answered for, `lost` the commands whose shim was being
replaced when its installer died.

`MC*` modules give the constants small values. `CowProofs`, `CowStepsProofs`,
`VfsProofs` (of `Vfs` and `Materialize`), `RuntimeCacheProofs`,
`PayloadCacheProofs`, `RegistriesProofs`, `HomeProofs` and `PreloadProofs` (of
`Jail` and `Preload`) hold the theorems.

How they compose: `Cow` implements `TreeFs`, `CowSteps` implements `Cow`, `Vfs`
uses `TreeFs`'s verbs, `Materialize` is `Vfs` with extraction, `Preload` is `Jail`
with threads around a context that answers from a fixed table, `Home` takes the
outcome of `PayloadCache` as one step.

### Abstractions

* Deleted and refused names: the root and the journal's own name are refused by
  every verb before anything is read, and are left out.
* A format backend answers ENOENT below one of its files, a host directory
  ENOTDIR; both are kept, since the answers decide what verbs do.
* Attributes, times and symbolic link targets are left out; a symbolic link is
  an entry that is neither file nor directory.
* Only process death is modelled: what was written to the host's file system
  stays (the code does not call fsync, and promises nothing about power loss).
* A checksum that does not match is a download that fails. The temporary file's
  name has the process's number in it: in `RuntimeCache` it is not modelled, in
  `PayloadCache` it is, with numbers that come again (`sealed`). The ruby DLL of
  a Windows runtime, and releases without an image, are left out.
* In `PayloadCache` what a source serves is one of a few contents, named by
  their checksums; the marker of the origin, which nobody relies on, is the step
  that writes it and may fail.
* In `Registries` the content of a registry is the number of a revision, of which
  its source publishes one after the other; a revision parses or does not. A
  registry that is a file is read in place, so all there is to it is that it is
  registered.
* In `Home` a payload's image is there or it is not (`PayloadCache` has the
  rest); a constraint of a dependency is the set of the entries that satisfy it.
  Exactly the entries in `Offered` are listed by one registry; an entry that
  several list, or none, is one that cannot be resolved.
* In `Jail` a path stands for what it canonicalizes to, and a jail names a host
  at most once. `files` (what the user named on the command line) and the floor
  are sets of paths.
* In `Preload` calls are grouped by what the code does with them: `stat` stands
  for every call that asks about a path, `load` for `dlopen` and `fopen` to read,
  `change` for `mkdir`, `unlink` and `rename`, `read` for every call on a
  descriptor that keeps it open, `seekdir` for every call on a stream that does.
  `fopen` for writing is handed to the real call unasked (see the findings) and
  is not an operation. The mount table is set up before the program starts and
  does not change. After a fork the model follows one of the two processes.

### Fairness

The properties of the mount context and its backends are safety and action
properties, and no fairness is assumed for them: that code waits for nothing but
one mutex, held over two host calls. Nor is any assumed in `Registries`, which
waits for nothing.

`RuntimeCache`, `PayloadCache` and `Home` assume weak fairness of `Step(p)`: a
program that is in the middle of an installation goes on with it. Each step is
a system call or a download with a time limit, and each lock is polled until a
deadline (`flock_acquire`, `acquire_install_lock`), after which the call fails;
so a step is enabled wherever a program is. Nothing is assumed of calls being
made, of crashes, of prune or of removals.

`Preload` assumes weak fairness of `Step(t)`: a thread goes on with its call. A
thread that waits for the context's `RwLock` or the cache's `Mutex` has no enabled
step, and the standard library promises no order among waiters; a program that
calls for ever in one thread could keep another waiting. `MaxCalls` makes the
program finite, so what `EveryCallReturns` shows is that nobody waits for himself,
for somebody who waits for him, or for somebody who is gone.

## The runs

| Run | Instance | What it shows |
|---|---|---|
| `cow` | every image over f, f/x, f/x/y, f/z (absent, directory, file, link), and a file g outside the write area; one block to write at offset 1; truncation to 0 | the verbs are those of one tree; deleted content stays deleted; a failure is invisible; over images with nothing two levels below a file or link the whiteouts are the complete record of deletions |
| `steps_alone` | one caller; d, d/x, d/y and a file e outside the write area; image files of two blocks, written at offset 1, truncated to 0 and to 2; refusals | the host calls of a verb add up to the action of `Cow`; the gate confines; writes stay |
| `steps_race` | two callers on different paths; crashes | neither caller undoes what the other was told, nor does the crash |
| `steps_lost_whiteout` | one caller, refusals | a deletion acknowledged and not stored (finding) |
| `vfs` | mounts at / and /a, two images, a union, copy-on-write; two descriptors, one directory handle; `unmount` once | handles die with their mount and, until `unmount`, keep their meaning; unmounting one mount is local; writes land where reads are served |
| `mat` | a program, a library beside it and one below, needing each other, in an application's image and in a home; mounts at / and /d; a directory handle; refusals; `unmount` once | answers are whole copies, closures and homes are complete as long as nothing was refused |
| `store` | one bootstrap, one shim, one press, one prune; crashes and failures anywhere, any number of calls; one pruning | what was answered to be installed is there; an executable is published once; every call returns |
| `payloads` | two processes, one version, two contents, callers that expect one of them or nothing; failures, crashes and removals anywhere, any number of calls | a marker vouches for its artifact; everybody is told the same; the stamp is unreadable only while it is written; every call returns |
| `home` | two processes; "a" needs any "b", the newer "b" needs "a" and provides a command named like it, the older "b" needs something nobody lists; one uninstall | what was answered to be installed has its dependencies and its commands; nothing is missing that nobody is installing; no shim outlives its payload; dependencies that need each other end |
| `registry` | two processes; a remote and a local registry; two revisions, of which the second does not parse; a clock of five values, set back by up to two before the first call | dispatch is at most `Behind` behind; what it says does not go back; registrations are kept |
| `preload` | two threads, a package with or without a request, two users' jails, an image mounted or not; calls on a host file, a mount and a file of it; a fork; three calls | the host is reached only as both jails allow; mappings are returned; every call returns |
| `preload_child` | the same | a fork child hands a stream of the engine's to the real libc (finding) |

The bounds, and why they suffice. `Cow`: a chain of three is the shortest with
an entry two levels below a file, and a sibling is needed for directories that
are not empty; every image over these paths is an initial state. Writing at
offset 1 into files of one block shows overwriting (a second write), appending
and gaps. `CowSteps`: files of two blocks make a copy-up that can be interrupted
between blocks, and a write at offset 1 or a truncation to 2 has to keep a block
that was copied up; two callers on three paths meet in the parent, the child and the
sibling. `Vfs` and `Materialize`: `MaxMount` bounds the mounts ever made,
`MaxFd` and `MaxDir` the handles ever opened; two mounts nest, unite and replace
each other. A walk of `Materialize` meets at most one file the host refuses, and
a home's extraction that fails loses one entry with what is below it; a second
loss only leaves less of the same tree. `RuntimeCache`: one program of each kind,
and each may be called again and again, so that every pair of protocols meets; two
presses are the proofs' business (`PressesAreSerialized`, any number). Two lock
files are enough for one pruning, which may take one away while it is locked.

`PayloadCache`: the versions of a payload share nothing but the directory and the
stamp, so one is enough; two processes make every pair of installers and of an
installer and a removal, and the proofs are for any number. Two lock files let a
removal take one away while somebody has it open. `Home`: three entries are the
fewest with a cycle, a choice between versions, and a command two payloads
provide; `MaxRemovals` bounds the uninstalls, since after one every history
variable says so. `Registries`: `MaxTime` lets a copy expire and be fetched again,
with calls of one unit (`Slow`); `MaxRev = 2` with a malformed revision gives a step
back, a repair having to wait for the term. `Preload`: two threads are what a
deadlock needs; three calls open, use and close; the paths are one inside the
package's grant and the user's, one inside the mount, and the mount itself, while
the engine's own calls are on a path that nothing allows.

`CHECK_DEADLOCK FALSE` stands in the runs of `Vfs`, `Materialize` and `Preload`:
when the bounds are used up and everything is closed there is nothing left to do.

Each property of a passing run has a mutant (in `mutants`): the operator named
`as`, defined just above the one it replaces, is a plausible mistake in that
code, and breaks the property under the run's own configuration.

### What holds only under a condition

The passing runs fix constants that name conditions, and some properties except
what a history variable has noted. With the other value TLC finds the property
violated, and the trace is a behaviour of the code:

* `Exclusive = FALSE` in `steps_race`: two callers write one file; the second
  finds the overlay file while the first is still copying it up
  (`backends_cow.rs:355-358`), writes, is acknowledged, and the first copies an
  image block over it: `AckedWritesKept` fails.
* `HostFails = TRUE` and `Crashes = TRUE` together: a whiteout whose store was
  refused is in memory only; `HiddenIsRecorded` fails after the crash. Theorems
  that need the record assume that one of the two is `FALSE` (`Dependable`).
* `Crashes = TRUE` under `RefinesCow`: a crash in the middle of a verb leaves an
  overlay that no verb of `Cow` leaves.
* A write area two or more levels below a file of the image: parents are looked up one
  level up (`ensure_overlay_parent`), so a write there makes a directory of the
  file, which lies outside the area: `GateConfines` fails, hence `AreasInReach` in
  `GateHolds`. For the same reason `StepTouchesOnlyItsPath` is proved for images in
  which nothing lies two levels below a file (`ShallowImages`); the instance of
  `CowSteps` has no such path.
* A copy-up cut short by a crash or a refusal leaves a short overlay file that
  the next copy-up takes for the whole (`backends_cow.rs:356`). No promise to a
  caller is broken by it (no write was acknowledged), which is why
  `AckedWritesKept` holds; the image's own content at that path is lost, which
  `CrashTouchesOnlyInFlight` excepts.
* `LateMounts = TRUE` in `mat`: a mount made, or united, after the first
  extraction: `DlAnswerIsImage` fails, since mounting does not empty the cache
  (`context.rs:330`, against `context.rs:463-465`), and `HomeAnswerIsImage` too
  (`context.rs:1683`). The driver mounts everything first.
* A write through a mount leaves the extraction cache as it is too, so what
  `dlmap2file` answers for a path that was written to since is the old content;
  the `mat` run writes nothing.
* Everything about the runtime store holds until somebody prunes: prune takes no
  lock, and removes an entry under whoever is installing into it or has just been
  told that it is there. Two presses can then hold the locks of two lock files.
* Bootstrap and press have different locks, and both may install the image at
  once; the model's image is the same whoever installs it, as a release's is. If
  the release were published anew between the two downloads, the image of one
  could lie beside the marker of the other.
* Once the host refused a library, its program is cached without it
  (`context.rs:1997`, `2013`), hence `~refused` in `ClosureIsThere`.
* `torn` in `PayloadCache` and `Home`: a removal takes no lock and removes file by
  file, the lock file of a version among them. Beside an install, or cut short,
  it leaves an artifact without its marker or a marker alone, and two installers
  with a lock each. A stamp whose writer failed or died stays empty, and every
  program refuses the store until it is removed by hand (`store.rs:93`).
* `raced` in `NoRollback`: of two programs that store the copy of one registry at
  once, the one that was served first may write last (`regcache.rs:255`).
* `overlapped` in `RegistrationsAreKept`: two `add-registry` at once, and one of the
  registrations is lost though both were told of success (`config.rs:93`).
* `lost` and `link` in `Home`: a shim is replaced by removing it and linking it anew
  (`manage.rs:545`); while that is under way, or after the program died there, an
  installed payload's command is not found. Only another install repairs it.
* `failed` in `MissingIsBeingInstalled`: when a dependency fails, what was installed
  before it stays, its image counts as installed, and a later install that needs
  it does not look at its dependencies again (`install.rs:1017`). `OkMeansInstalled`
  therefore promises the entry's own dependencies, not the closure. Uninstall
  does not ask who needs the payload.
* `record` in `HostOnlyAsAllowed`: a recording user's jail denies nothing.
  `Courteous`: the arguments' files, the directories on the way to a grant and the
  floor may be read under a jail that denies by default, whatever the grants say.

### Findings

`findings` in `PROJECT.json` has for each the line of documentation or the comment
it contradicts. Two have a run. The other definitions are checked by putting them
into a passing run's configuration, where TLC finds them violated at once; they
stay in the modules for that purpose.

| Finding | How to see it |
|---|---|
| A deletion that was acknowledged and not stored is undone by the next mount | run `steps_lost_whiteout`, `AckedDeletesSurvive` |
| A fork child's stream of the engine's reaches the real libc | run `preload_child`, `StreamsStayInside` |
| A write two levels below a file buries it, and no whiteout records that | `DeletesAreRecorded` in `cow.cfg`, with `WriteAreas = {"/"}` |
| A descriptor from before `unmount` names another file | `HandleNamesItsOpen` in `vfs.cfg` |
| An incomplete home is answered for after a failure | `HomeAnswerIsImage` in `mat.cfg` |
| An entry that press is installing is refused as incomplete | `PartialInstallIsInvisible` in `store.cfg` |
| exec of a host path is asked for, where a comment says it is not (`libtfs-preload/src/sys/mod.rs:1414`) | by reading; `Preload` follows the code |
| uninstall journals the digests after the removal, where a comment says before (`install.rs:1515`) | by reading |
| `fopen` for writing is handed on without asking the policy, where a comment says it is asked (`route.rs:131`) | by reading |

## The proofs

The theorems hold for every value of the constants that satisfies the named
assumptions: any set of paths of any depth, any images, any gate, any number of
processes and threads, any jails. The assumptions are `PathAssumption`,
`BlockAssumption`, `CowAssumption` and `StepsAssumption` (paths form a tree, a
block of zeros is a block, images are trees), `VfsAssumption` (among prefixes of one
path there is a longest, and a directory has finitely many names),
`ImageAssumption`, `MaterializeAssumption`, `CacheAssumption`,
`PayloadAssumption`, `RegistryAssumption`, `HomeAssumption` (of listed versions there
is a newest), `JailAssumption` and `NoJailAssumption` (among hosts above a path
there is a longest; "no jail" is not a jail) and `PreloadAssumption`. Each says no
more than what the sets of names are. What a theorem needs beyond them stands in its
own `ASSUME`, is described above, and is true of the run that checks its property.

`CowProofs`. The inductive invariant is
`IInv == TypeOK /\ HiddenIsRecorded /\ ShadowedDirIsRecorded`. `HiddenIsRecorded`
(a base path below a deleted directory has a whiteout of its own) is not
inductive alone: a directory of the image that the overlay shadows with a file
must have been removed, so its children are recorded, and only then does
removing that file hide nothing unrecorded. `Invariance` proves it, with one
lemma for each verb; `TypeCorrect` and `HiddenRecorded` follow; `FailuresInvisible`
and `NothingResurrected` are action properties proved from it.

The same invariant carries the refinement `MountIsATree`. `ViewTree`: what is seen is
a tree. `LandingShape`: making the parents of a path changes the view at most by
directories where nothing was. So each verb that succeeds puts one entry into the
tree or takes one out, which is `TreeFs`'s action, and every other step stutters.
The record is needed where an overlay entry goes: without it a base entry could
show from below. `ListingComplete`: a directory lists the names that stat finds.
`DeletionsRecorded` (the whiteouts are the complete record, on images with nothing
two levels below a file) is inductive over `IInv`, since in such an image no file
can be buried under a directory; with that, `ShallowMountIsAStrictTree` is
`MountIsATree` again, for a tree in which parents must be there.

`CowStepsProofs`. Each property has an invariant that says, for every point inside a
verb, what the verb may rely on when its next host call is made. `TypeCorrect`
(`TInv`): the overlay is a tree at every host call, and the whiteout lock is held exactly
by who stores the journal. `RInv`: the journal is never ahead of the whiteouts, and
behind them by no more than the path of who holds the lock, if the host does not
refuse; it gives `DeletesSurvive` and `CrashLosesOnlyInFlight`. `HInv` is `Cow`'s
invariant over the record that a crash leaves, with what a verb under way has
found to be recorded below its path; it gives `HiddenRecorded`. `WInv`: an
acknowledged write is in the overlay, or will be left alone by whoever is at work
on its path; it gives `WritesKept`, and needs that callers keep off each other's
paths. `GInv`: outside the areas the overlay has nothing but directories where there
is room for one; it gives `GateHolds`, for any interleaving, refusal and crash.
`SInv`: where a directory replaces a file the record says so; it gives
`TouchesOnlyItsPath`. `VerbsAreAtomic` is the refinement of `Cow` by one caller: `AInv`
relates every point inside a verb to the state in which it began, by what the verb
has learnt of that state (`Learnt`) and what it has made of its overlay (`Made`).
The steps inside a verb stutter, the last one is `Cow`'s action, and the refusals that
only an interleaving explains are shown to be impossible.

`VfsProofs`. `TypeCorrect` needs an invariant of its own (`TInv`): a descriptor's
position passes neither the size that open took nor a directory handle's the
entries that were found. `WritesServed`: a write changes what the mount found for its
path serves there, makes directories above it, and no other mount's tree. `OwnedInv`
(every handle's owner is mounted) gives `HandlesDie`. `HandlesNameTheirOpen` needs
`NamedInv`, which adds that no client holds a number that is still to be given
out. `PointsDiffer`: no two mounts have one point, so that the longest point
above a path is one mount's. `UnmountingIsLocal`: handles of other mounts stay, and
a path that the mount did not cover has the same mounts above it as before, hence
the same longest one (`FoundCovers`, where the assumption on prefixes is needed).

`ExtractionIsExtra`: `Materialize` implements `Vfs`, so all of that holds with
extraction too. On the condition `Settled` (everything is mounted before the first
extraction, and nothing is written) what is in the cache is what the mounts serve,
which gives `ExtractsTheImage`; a tree of a home belongs to a handle that is never
given out again, which gives `HomesAreWhole`. `LibrariesComeAlong` is about the walk
over the libraries a program needs: one step, repeated as many times as there are
paths (hence `IsFiniteSet(Path)` in that theorem). As long as a step adds anything
the set grows, so the last one adds nothing, and what the walk returns is closed
under `Needs`. The induction over the number of steps is had from the strict subsets
of a finite set being well founded (`Induct`), since the induction theorems of the
library cannot be instantiated.

`RuntimeCacheProofs`. The invariant says for every point of a call which lock its
program holds and what is in the entry. The argument: the lock file of the entry
exists from the moment a press has opened it, so that a bootstrap or a shim, whose
rename replaces an empty directory only, publishes nothing from then on; and a
press looks for the executable after it has locked that file, so what it puts
there lies over nothing. For that every press must have opened the same file
(`OneLockFile`), which holds until somebody prunes. `Invariance` proves it with one
lemma for each action; `OkMeansInstalled` is one of its conjuncts, and
`ExecutableIsPublishedOnce` follows from it action by action.

`PayloadCacheProofs`. While no removal runs beside an install there is one lock
file for each version, so installers of one version that are past the lock exclude
each other (`ExclusionCorrect`); whoever is between the rename and the marker
is then alone with the artifact, its bytes are what he was served, and the marker
he writes is theirs (`MarkerCorrect`). What callers were told is what is there,
since nobody replaces an artifact that counts as a hit (`AnswersCorrect`).

`RegistriesProofs`. Nothing is locked, so two of the properties except the races that
no lock excludes. Outside them, who is rewriting the list has it as it is; who is
storing a copy is alone, and has one no older than the one that is there, which
is no older than what was answered: `RegistrationsKept` and `NeverBack`.
`DispatchesAreFresh` holds with the races too. What a call fetches was current when
the call began, and what it is about to use may have been replaced by a copy one
call older (`Mine`); the mark beside a copy is later than the time the copy was
current by at most two calls, or ahead of the clock by what that was set back
(`Marked`). A copy is used for `Ttl` after its mark, which adds up to `Behind`.

`HomeProofs`. What installers rely on grows: images, mirrors, trees, and the commands
that are `Held` (have a shim, have lost it, or are getting it); only an uninstall takes
any of it away, and from then on nothing is claimed of the installers it runs
`beside`. Of all others the invariant says, for each entry of the stack below the one
at work, that it is built, and that each dependency it has looked at is satisfied or is
the one the next entry is installed for (`BuiltBelow`): so when an entry is popped
its dependencies are there, cycles included, since a dependency is looked at once.
`InstalledIsThere`, `ClosureIsInstalled` and `ShimsOwned` are its conclusions; for the
last, an uninstall that is alone (`Owned`) has on its list every shim that no other
payload provides.

`PreloadProofs`. Of `Jail`: what the intersection of two jails allows at a path is the
tighter of what each allows there, for any grants at any depth
(`CompositionIsExact`). The proof goes by the longest covering grant: it comes from one of the sides, was capped by the
other's allowance at that host, and the other has no longer grant in between, or
that would be the longest. `ComposingAgain` and `ExportedTwiceAllows`: a jail that one
surface composes and the next composes again with the same request allows the same,
and through the environment, twice, it allows no more than either side.
`CheckIsFaithful`: the engine's check of a bound policy lets through nothing but what
the jail allows and what is read out of courtesy.

Of `Preload`: a thread's guard is set exactly while it has a call in the engine, a
call at the real libc was checked under the policy the engine has, and that policy
was bound from the composition (`PreloadInvariance`). With the algebra it follows
that the host is reached only as request and user allow (`HostAsAllowed`). A
mapping belongs to the call at the bottom of its thread's stack
(`MappingsReturned`); descriptors of the engine's do not reach the real call, in a
fork child either (`DescriptorsInside`; of streams the same is refuted).

Only model-checked: the liveness properties (`EveryCallReturns` of `RuntimeCache`,
`PayloadCache` and `Preload`, `EveryInstallReturns` of `Home`), since liveness under
fairness and ENABLED are out of the prover's reach, and the two findings, which are
counterexamples. Every other property of a run is stated by a theorem.

## The plan

Next modules: the algebra of nested unions; `CowShared` (two processes over one
retained store, the journal's temporary file, another base under a retained
store); in `Vfs` the content a read returns and `fstat` under a changing table; the
mounting of a package by the preload library, in front of `Preload`; the driver's
exec cache; the wire codec and Merkle tree as pure algorithms against a reference
definition.

Next proofs: `CowSteps` against `TreeFs`, through both refinements; `VerbsAreAtomic` for
several callers on paths of which none lies above another; a `Cow` whose verbs can
stop half way, which `CowSteps` would implement with crashes; for the liveness
properties the safety half, a measure that every step of a call decreases.

## Not modelled

Image readers and their decoders, cryptography and the chain of trusted roots
(a pure walk over signed statements), HTTP, archive and executable formats,
printing, shell integration and the external tools the command line drives: no
state between calls, or not this repository's. They are the larger part of the
sources. `PROJECT.json` lists every component with its reason.
