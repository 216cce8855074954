# TLA+ models of MIO-KITCHEN

MIO-KITCHEN is a desktop tool for unpacking, editing and repacking Android firmware. It is a Tkinter program: one UI
thread with an event loop, worker threads for everything slow, plugins installed from a store, a self-update that hands
over between three processes, and a project folder that long workflows read and write one after another. This directory
models the parts in which an order of steps that nobody tried can do harm: the parts that run at the same time, and the
parts that leave files behind for the next run, or the next start, to find.

Paths are relative to the repository. `app/`, `core/`, `logic/`, `ui/` and `platform/` stand for the packages in
`src/app`, `src/core`, `src/logic`, `src/ui` and `src/platform`.

## 1. The system

### 1.1 Components

| Component | State it keeps | Operations | Talks to |
|---|---|---|---|
| **Task runtime** (`app/operation_gate.py`, `ui_tasks.py`, `animated_tasks.py`, `background_jobs.py`) | the gate (a lock without an owner), `_tasks`, pending 50 ms polls, the loading animation | `UiTaskRunner.run`, calls wrapped by `AnimatedTaskRunner`, workers' ends, finalizers | posts to the UI scheduler, called by every tab |
| **UI scheduler** (`app/ui_scheduler.py`) | the queue of callbacks, `_pump_id`, Tk timers | `post`, `start`, `_drain`, `_schedule_next` | Tk event loop, every worker |
| **Plugin events** (`logic/plugins/events.py`, `app/ui_events.py`, `app/plugins/ui_event_binding.py`) | subscribers, one stream per window, the coalescing flag | `publish`, `push`, `notify`, `_flush_on_ui`, binding and closing | installs and removals publish, windows consume on the UI thread |
| **Self-update** (`app/update_orchestrator.py`, `update_controller.py`, `logic/update/install_service.py`, `ui/update/presenter.py`) | installed files, `temp/updates`, the launch binary, `bin/tool`, `updater.exe`, seven options of `settings.ini` | download, extract, record, launch, apply, relaunch, clean up, recover | three processes that share files only |
| **Plugin installation and removal** (`logic/plugins/install`, `store_install`, `uninstall`, `metadata`, `app/plugins/store`) | `plugins/installed`, the store's running tasks and its buttons | install from the store with dependencies, install a file, remove with dependents | publishes plugin events, runs on workers |
| **Plugin catalog and store fetch** (`app/plugins/store/fetch_flow.py`, `repository.py`, `logic/plugins/store_service.py`) | the address in the settings, a session per window, the in-flight flag, one cache file, the cards | open, close, refresh, change of repository, fetch | settings, worker threads, store installs |
| **Payload extraction** (`core/payload_extract.py`) | a thread pool, per image a bounded queue, a writer thread and a file | read, submit, decode, write, join, shut down | called by the unpack workflow and by import |
| **Project import, unpack, packing** (`logic/projects/import_flow`, `unpack`, `pack`, `common`) | `input`, `unpack`, `output` and `config/parts_info` of a project | import an archive, unpack and pack selected partitions | one at a time under the task runtime's gate |
| **Packing metadata** (`logic/projects/pack/partition_contexts.py`, `core/fspatch.py`, `core/contextpatch.py`) | `fs_config`, `file_contexts` of each partition, `context_rules.json` for all projects | record at extraction, complete before packing, learn rules | unpack, packing |
| **Super images** (`logic/projects/pack/super`, `core/lpunpack.py`, `logic/projects/unpack/workflow/source_handlers.py`) | images in `input` and `output`, the size in the window, the listed partitions | check the size, pack, list, unpack, rename slots | packing, unpack, `lpmake` |
| **Format conversion** (`logic/projects/convert`) | files of `input` copied over those of `output` | conversions between raw, sparse, dat, br and xz | brotli, `simg2img`, `img2simg`, OTA images |
| **Block images, range sets** (`core/rangelib.py`, `sparse_img.py`, `blockimgdiff.py`, `ota_dat.py`) | none beyond a call | set operations on ranges, planning a transfer list, writing and reading it | conversion, packing |
| **Sparse parts** (`core/android_sparse.py`, `merge_sparse.py`, `logic/tools/split_super`, `merge_super`) | part files of one directory | split, merge | tools tab |
| **Plugin execution** (`platform/plugin_gateway.py`, `platform/plugins/execution.py`, `logic/plugins/runtime/registry.py`, `execution_plan.py`) | the registry of entries, the modules Python holds | one background load, runs, registration by either | installs and removals change the directories it reads |
| **Settings, JSON stores, loading animation, process lifecycle** | `settings.ini`, JSON files, frame timers | `set_value`, write | parts of the models above rest on them, section 6 |
| **Bootstrap, localization, themes, windows, editor, help, logging, other formats, build tooling** | configuration and layout | — | — |

`PROJECT.json` lists all of them with their files and status. Its "hazards" list what is hard to test, each at its
line and with the property that covers it.

### 1.2 How the parts interact

* A handler on the **UI thread** runs to its end before another one does, *unless* it waits for a dialog. Then a nested
  event loop turns inside it, and timers, handlers and drains run there.
* A **worker thread** reaches the UI only through `AppUiScheduler.post`. It shares the gate, the event streams and the
  files with other workers.
* **Plugin operations** run on workers. They publish on the event bus and post their result. The store refreshes a
  plugin's card on both. A store **fetch** is a worker too, and replaces the catalog an install looks things up in.
* The **updater** and the tool know of each other only what `settings.ini` says. Each decides at its start, from
  two of the options and its own name, whether it applies, cleans up, recovers or just runs.
* The **project workflows** exclude each other through the gate and so never interleave. They meet in the folders: each
  finds what the ones before it, failed or dead ones included, have left there.

### 1.3 Where it is hard, and what makes each part correct

| Component | Hard behaviour | Correct if |
|---|---|---|
| Task runtime | two runners release one ownerless lock from several paths; threads that do not start; views that close under their run | heavy workers exclude each other, the gate is held exactly while somebody holds it, every run is reported once and whole |
| UI scheduler | drains nest; a callback may wait for ever; `_pump_id` is cleared and set again in the middle | nothing posted is lost or swapped with another of its worker |
| Plugin events | test-and-set of a flag under a lock, posting outside it, a drain that clears it | an event never sits in a stream with nobody coming for it |
| Self-update | a crash between or inside any two steps, files held open by a process on its way out, the settings file itself replaced by the extraction | something always starts, no installed file is lost, an applied update is complete |
| Plugin installs | every step may fail and leave a directory behind; cyclic or incomplete catalogs; the store closed meanwhile | what counts as installed is whole, dependencies are kept, the store shows what is on disk |
| Store fetch | a change of repository while a fetch is in flight, a cache file without the name of its repository, fetches of closed windows | cards and downloads are of the configured repository once a change has come through, every fetch gives its flag back |
| Payload extraction | a pool, bounded queues and writers, with exceptions swallowed by `__exit__` | no write after closing, undisturbed images are whole, nothing is at work once the result is out, no deadlock but one |
| Unpack and packing | leftovers of failed runs and of imports, a list kept in memory until the end and then truncated, tools that do not overwrite | what is extracted is the present source, what was extracted stays listed, what is packed is what the directory held, no directory goes without a copy |
| Packing metadata | files completed anew at each packing, patterns learned in one project and searched for in another | what the image gave its files is what they are packed with |
| Super images | slot names added, stripped and renamed; two folders; success judged by names | what is unpacked is what was packed, success is of the image at hand, only packed images are removed |
| Conversion | an output folder that holds the files of every earlier conversion, tools that do or do not overwrite | a conversion that reports success made the chosen file |
| Block images | three range sets computed apart make one list; data without an index | the list writes each block once, and reading back gives the image |
| Sparse parts | a split that fails removes what it wrote, except the part it was writing | a merge never mixes two builds or moves a block |

## 2. The modules

| Module | Models | Abstract specification | Theorems |
|---|---|---|---|
| `TaskRuntime` | gate, both runners, workers, finalizers, animation, end of the process | `OneAtATime` | `TaskRuntimeProofs` |
| `UiScheduler` | queue, pump, nested drains, dialogs | — | `UiSchedulerProofs` |
| `PluginEvents` | bus, streams, coalesced drain, bindings | — | `PluginEventsProofs` |
| `Update` | the self-update, crashes included | — | `UpdateProofs` |
| `PluginStore` | installs, removals, buttons | — | `PluginStoreProofs` |
| `PluginRuntime` | background load, runs, the registry, over changing directories | — | `PluginStoreProofs` |
| `StoreFetch` | repository setting, sessions, fetches, cache file, cards | — | `PluginEventsProofs` |
| `PayloadExtract` | calling thread, pool, queues, writers | — | `PayloadExtractProofs` |
| `Workspace`, `Unpack`, `Pack`, `Project` | the folders of a project; the two workflows on them; both with imports, edits and crashes | — | `ProjectProofs` |
| `Metadata` | owners, labels and rules, from extraction to packing | — | `PayloadExtractProofs` |
| `SuperImage` | packing and unpacking of super images | — | `PayloadExtractProofs` |
| `Convert` | conversions over one output folder | — | `ImageProofs` |
| `RangeSets`, `BlockImage` | range sets; OTA block images written, read back and flashed | set operations on the blocks | `ImageProofs` |
| `SparseParts` | split and merge | — | `ImageProofs` |

The `MC...` modules hold the sets TLC uses, and there is one `.cfg` per run. `MCProject` checks the four workspace
modules. `MCImages` checks `BlockImage` with `RangeSets`, `SparseParts` and `Convert`; `MCPackInputs` checks
`SuperImage` and `Metadata`; `MCPluginStore` checks `PluginStore` and `PluginRuntime`, which has installs and removals of
its own. In these three the parts share no file, so interleaving them would only multiply states: each behaviour chooses one part and lets it work alone. Operators marked *Mutant* stand before the definition they
alter. They are plausible mistakes in the same code, and each makes a property fail in its run. `PROJECT.json` pairs
them.

### 2.1 TaskRuntime

An action of the UI thread is a whole handler. A worker takes one step for each access to shared state.

| TLA+ | Code |
|---|---|
| `gate`, `Release` | `OperationGate._lock`; `release` only tests the lock |
| `pc[o]` | how far the run or job `o` is, in the order of `UiTaskRunner.run` or of the animated wrapper |
| `queue`, `Post`, `Finalize` | finalizers posted to the UI thread, drained in order |
| `tasks`, `polls`, `FinishWhenDone`, `Complete` | `_tasks` and the 50 ms poll `finish_when_done` |
| `log` | callbacks the run's caller received: `success`, `error`, `busy`, `finally` |
| `Refuse`, `FailToStart`, `Start` | the three outcomes of `run` |
| `PostError` → `ReleaseGate`; `ReleaseGate` → `PostSuccess` | the worker's `except` and `finally`, and the post after it |
| `Leave` | `exit_tool`, `restart` |

Runs are of three kinds. *Plain* ones are not exclusive. *Bracket* ones are started by the unpack tab and by super
packing, which show and hide the shared animation themselves. The *other* ones are all the rest. Jobs go through
`AnimatedTaskRunner`. The sets `StartMayFail` and `AfterMayFail` say whose `Thread.start` and whose `master.after` may
raise.

`OneAtATime` is what the rest of the program counts on: at most one operation occupies the machine, one is refused only
while another occupies it, and an operation whose work is over leaves. `Promise` maps each run and job to its status
there.

### 2.2 UiScheduler

`stack` is the drains the UI thread is in, innermost last. An element is `loop`, or the kind of the callback that waits
inside that drain. A callback returns at once, opens a window (which calls `start()` through
`resolve_app_ui_scheduler`), waits for a dialog, or opens a panel that may stay open for ever. `armed` counts Tk timers
and `pump` is `_pump_id is not None`. A callback that raises is caught by the drain, and to the queue it is the same as
one that returns. `DestroyHost` is the end of the main window.

### 2.3 PluginEvents

Workers and the UI thread interleave at each access to shared state. `publish` copies the subscribers, then pushes to
one stream after another. Each push appends, reads `on_push` and enters `notify`, which sets the flag under its lock
and posts the flush outside it (`Publish`, `Push`, `Notify`, `Dispatch`). The UI thread takes a flush, clears the flag,
drains, consumes, looks at the flag again and loops (`TakeFlush`, `Drain`, `Consume`, `FlushAgain`, `FlushTop`). A
binding is two steps (`Subscribe`, `SetOnPush`) and so is its end (`Close`, `Unsubscribe`). `EarlyHook` says that the
windows are bound before anybody publishes. The code does not ensure this, see section 5.

### 2.4 Update

A file is known by the release it comes from: 0 is absent, `MaxVersion + 1` is half written. `Held` are files the
running tool keeps open (replaceable once it ended), `Stubborn` those nobody may replace.

| Phase of `proc` | Code |
|---|---|
| `idle`, `download`, `extract`, `prepared` | the running tool: `request_install`, the download worker, `prepare_update_payload` |
| `write` | a sequence of `set_value` calls, one option a step; `plan`, `writes` and `next` say what is set and what follows |
| `apply`, `moving` | the updater: `wait_pids`, `apply_staged_update` |
| `cleanup`, `cleanTool` | the new tool: `cleanup_completed_update` |
| `hidden` | the tool behind a withdrawn main window: its updater window was closed, or the updater did not start |
| `off` | no process in charge |

`Boot` is the decision every process takes from the settings. `Recover` is `recover_pending_failure`. `SetValue` models
`set_value` as it reads the file over the options held in memory: extraction may meanwhile have replaced the file by
the release's own. `Crash` ends the process at any phase, between steps or inside one (`Damage`): a member, the updater
or the launch binary half written, or an installed file removed and its replacement not yet renamed into place.

Assumptions about the environment: one process is in charge at a time; the user starts `updater.exe` only when the tool
no longer starts; one `set_value` is one step.

### 2.5 PluginStore

`disk[p]` is the set of parts in a plugin's directory: the directory itself, two members of its resource archive (so
that an extraction has a middle), and `info.json`. An operation is a record. `stack` is the recursion of
`install_from_repo`, one frame per plugin with the index its loop is at. `todo` is the list a removal works off.
`stage` is the point reached in `PluginInstallService.install` or `uninstall_plugin`. `halfway` and `harmed` are
history: an operation has changed what is installed and is not done with it, and one failed in that state.
`button`, `tasks`, `changed` and `results` are what the UI thread knows and what is on its way to it.

Each step may fail in the ways its code does: a failed download, an unreadable package, a locked directory, a missing
resource, a bad archive (whose extraction stays on disk) or another error (after which the directory is removed). A
package's `depend` is taken to be the catalog's `dependencies`.

### 2.6 StoreFetch

A window is opened and closed once, and has a `session` (`repo`, `store_service`, `_catalog_items`) and at most one
fetch. The fetch of a closed window runs on beside that of the next window. A catalog is known by its repository; the
cache holds a catalog, nothing, or something torn.

| TLA+ | Code |
|---|---|
| `Change` | `modify_repo.accept`: the address is stored whatever it is, `set_repo` may refuse it, a fetch in flight swallows the refresh |
| `Configure` → `AssignRepo` → `CreateService` → `KeepService` | `init_from_settings` on the worker, one step per access to the session |
| `TakeService` → `ReadCache` or `FetchRemote` → `Truncate` → `Dump` | `fetch` of the store service; `JsonEdit.write` truncates before it writes |
| `Apply` | `apply_result` on the UI thread, which a closed window survives with its flag given back |
| `mixed` | two workers have written the cache file at once |

`unsettled` is history. It is set by a change of the address and taken back when the fetch that the change asked for,
undisturbed by another, has come through. `alone` marks that fetch: no other worker was under way when it started, and
a later change of the address takes the mark from it (`Outdated`), also one that the session refuses.

### 2.7 PayloadExtract

`main.at` follows `extract_partitions_from_payload` from the header to the shutdown of the pool. An operation is known by
its place in the manifest and writes one or more pieces, which `Put` puts into the queue of its image while there is
room. Each image has a writer thread (`Get`, `Write`, `WriterEnds`). An operation may be undecodable (`bad`, chosen at
the start), and opening, reading and writing may raise. `__exit__` of the writer returns `True`, so `Submit` and
`Await` go on to `close` on an exception, and the run goes on with the next image; only a failure to open leaves the
loop (`raised`).

### 2.8 Workspace, Unpack, Pack, Project

A file or directory is the set of contents it has pieces of, whole or in part. That is enough to tell the present source
from an earlier one, a torn file from a whole one, and a mixture of two from either.

| TLA+ | Code |
|---|---|
| `DropOldImage` … `SourceMissing` | `unpack()` for one partition: the discarded leftover, the handler of the source's form, `resolve_image_source` |
| `BeginExtract`, `EndExtract` | the handlers of a filesystem, a dtbo and a boot image |
| `TruncateRecord`, `WriteRecord` | `JsonEdit.write` of `config/parts_info` |
| `Abort` | an exception that leaves `unpack()` |
| `BeginBuild` … `SourceNotRemoved` | `pack_selected_partitions` and the conversion of the built image |
| `PackDtbo`, `PackBoot`, `BootNotPacked` | the two handlers whose result the run does not look at |
| `Import` | an archive extracted into `unpack`, followed by an unpack run or not |
| `PutSource`, `EditTree` | the user |
| `Crash` | the program dies between two steps or within the writing of an image or a dat |

`cut` and `old` are history: partitions of a run that was cut short, and partitions whose leftovers the run could not
remove.

### 2.9 Metadata

Files, owners and labels are known by the number of the image they come from, 0 for what the program made up. `PatchOwners`
is `fs_patch`, `PatchLabels` is `context_patch`, `LearnRules` merges the labels of the partition into
`context_rules.json` in the order `new | old` gives, and `LabelByRule` takes the last pattern that is found anywhere in
the path. The rules are labels by pattern and the relation of which pattern comes before which, since the order of a
Python dictionary is all that decides between two patterns. The user may add and delete files while a packing run prepares; `seen` is what each of its scans had in
view. `DieWhilePreparing` leaves the first lines of a list or an unreadable rule file.

### 2.10 SuperImage

A name is a base and a slot, a file its edition, size and form, a super image the files of its partitions. `Resolved` is
the search for an image by slot and folder, `PartList` the stripping of slots from selected names, `Partitions` what
`lpmake` is told to put in, `Removed` what is deleted afterwards. `Extract` is `lpunpack` with `normalize_super_outputs`
after it, and `ReportedDone` the verdict on it. `Suggested` is the loop that offers a size, as it stands.

### 2.11 Convert

One base name. `results` is the output folder, `job` the conversion with the chosen files it still has to do, one stage
per tool. `Halves` says what each stage leaves when it raises or the process dies. `held` is an image another program
has open. Selections include images the window lists under the base although they are not `<base>.img` (`bare`).

### 2.12 RangeSets, BlockImage, SparseParts

`RangeSets` translates `core/rangelib.py` operation by operation: sorted bounds and a sweep that counts them. Each loop
of the code is a fold over a step (`Pair`, `Cross`, `Lay`, `TakeRange`); `sorted` and `heapq.merge` put each item at its
rank (`Ordered`). `Blocks` and `OfBlocks` give and take the set of blocks, and `SetAlgebra` says that each operation is
the set operation it is named for.

`BlockImage` reads a sparse image chunk by chunk (`Load`: care map, offset map), sifts its blocks into zeros and groups
(`Sift`), plans transfers as `img2sdat` does without a source image, writes the list and the data (`Img2sdat`, over every
order the sinks may be popped in), reads them back with `Sdat2img`, a block at a time (`Write`), and runs the list on a
device whose flash holds garbage (`Flash` and `RunCommand`, external). Contents are distinct per block, except that fills
repeat and zeros are zero.

`SparseParts` keeps the part files of a directory through splits of several builds, each of which may fail or be killed
in the middle of a part, and merges them by `merge_sparse_overlays`, or by the fallback when a part has no magic. The
merge writes part after part, so a block is that of the highest part that holds it (`Overlay`).

### 2.13 PluginRuntime

Of a plugin's directory the model keeps whether it is there, whether it has its `info.json`, and which package was
unpacked into it last. `thread` is what the background load and every run are at. Both go through `LoadSource`,
`ReadEntries` and one `RegisterEntry` per entry, so either finds what the other has entered so far. `module` and
`registry` say which package each attribute and each entry comes from; both outlive the files. `RemoveDirectory`,
`UnpackFiles` and `WriteManifest` are what `PluginStore` does to a directory, at any time. `InspectEntries`, `PlanRun`
and `ExecutePython` or `RunShell` are the three looks a run takes at the disk.

`SoundIsCallable` speaks of plugins that nobody replaced and whose registration raises nothing; section 5 says what
becomes of the others.

## 3. The runs

| Run | Instance | Distinct states | Shows |
|---|---|---|---|
| `task_promise` | a plain and an exclusive run, two jobs; threads of runs may not start | 20 286 | `Exclusion`, `FinalizedOnce`; implements `OneAtATime` with its liveness |
| `task_faults` | a plain and a bracket run, two jobs; every start and every `after` may fail | 44 082 | `GateAccounted`, `EveryRunReported`, `GateFreed` |
| `scheduler` | two workers, three callbacks each: plain, window, dialog, panel | 18 465 | `InOrder`, `EveryPostCalled` |
| `events_bound` | two workers with three events each, one window that may close | 196 434 | `NoLostWakeUp`, `SeenInOrder`, `EventsArrive` |
| `update_crashes` | one file of each kind, three releases, one crash and one failure | 200 943 | `Startable`, `NothingLost`, `AppliedIsComplete`, `Settles` |
| `plugins` | a chain of three plugins, one of them not offered, and a cycle of two; three operations one after another; or two plugins to run, three kinds of package, one upgrade, the background load and a run | 315 737 | `InstalledIsWhole`, `DependenciesKept`, `ButtonsFollowDisk`, `InstallsEnd`, `SoundIsCallable` |
| `store_fetch` | two windows, three repositories of which one is empty, two changes, a crash | 708 204 | `CatalogOfRepository`, `ItemsAreShown`, `FetchEnds` |
| `payload` | images of three and of two operations, two pool threads, one failing call, any operation of one write undecodable | 325 825 | `UndisturbedIsWhole`, `QuietWhenReported`, `EndsUnlessJammed` |
| `project` | a filesystem in every form of source beside a dtbo or boot image; two contents, three workflows | 4 142 577 | `SuccessIsListed`, `ListedKept`, `FreshImage`, `PackedIsFresh`, `PackKeepsACopy` |
| `images` | sparse images of up to three chunks and five or six blocks; three builds of 5, 3 and 4 blocks in two or three parts; two contents and two conversions | 630 179 | `RangesAreSets`, `RoundTrip`, `DeviceGetsImage`, `MergedIsSource`, `ConvertedIsSource` |
| `pack_inputs` | two editions of images in both slots and folders, two super runs on up to two partitions; two projects with two file names, two extractions, two packings, two edits | 2 140 640 | `UnpackedIsPacked`, `SuccessIsFresh`, `RemovedIsPacked`, `MetadataKept` |
| `project_import` | the instance of `project` | — | `ImportedSurvive` is violated, section 5 |

**Why the bounds are enough.**
*Task runtime*: the gate has a holder and a contender. Two jobs and a run give a holder, one that is refused and one
that comes after, for either runner. More of them only repeat these roles, and the theorems hold for any number.
*Scheduler*: two drains inside one another arise with two panels; six callbacks of all kinds, on two workers in
opposite order, nest deeper.
*Events*: a wake-up can be lost between two notifications and the clearing of the flag. With two workers and six events
the flag goes round several times while both are inside `notify`. One window is enough, as windows share only the list
of subscribers.
*Update*: three releases let an abandoned update be followed by another that is interrupted as well, and leave a third
to be installed over both. One crash and one failure may fall in the same or in different updates.
*Store*: the chain gives dependencies of dependencies, one that the catalog lacks and one that a package file can bring.
Three operations are install, break and install again, or install, upgrade and remove.
*Plugin runtime*: the load and one run are the two threads that register; one package replaced by another gives an old
registration, an old module and files of either in between; a `boot` that raises leaves half an entry list beside a
plugin that is still to be loaded.
*Store fetch*: a closed window's fetch beside an open one's is all the concurrency there is; two changes let one be
swallowed and another follow; the empty catalog is the one the cache does not answer with.
*Payload*: the operations of the first image make more writes than its queue has places, so a pool thread does block;
the second image shows what the first left running.
*Project*: three workflows are import, unpack and pack, or an unpack that fails, another, and a packing. Two contents
give an old and a new source. The partitions only share the list, so one of each handler is enough.
*Images*: chunks of either type around a hole, adjacent and at the ends; the read-ahead of 1, groups of two blocks and zero
commands of two (512, 512 and 1024 in the code) are reached and passed by six blocks. Three builds of different sizes
leave parts of other numbers behind. Two conversions are one that leaves files and one that finds them.
*Pack inputs*: an edition of an image and a newer one; a packing and an unpacking. Two extractions and packings in two
projects let the rules of one reach the other.

`CHECK_DEADLOCK FALSE` stands in every run but `update_crashes`, because the system, or what the bounds allow of it,
really stops: the process has been left, the host is gone, the events are all published and the window closed, the
extraction has ended, the operations and contents are used up.

**Fairness.** Every model assumes of its threads only that they are scheduled.

* `TaskRuntime`: a worker whose function has ended posts and releases; the poll of an ended job comes; the UI thread
  takes finalizers. Nothing makes a worker function return, so a run that never ends is a behaviour of the model.
* `UiScheduler`: Tk calls armed timers, a drain goes on, dialogs are answered. A panel may stay open for ever:
  `EveryPostCalled` holds because nested drains go on under it.
* `PluginEvents`: a publication that has begun goes on, and the UI thread serves what it has. Nobody has to publish or
  to close.
* `Update`: `ProcessStep`, what a process does on its own once an update is recorded. Not the user, not the download,
  not the exit of the launching process.
* `PluginStore`: a started worker goes on and the UI thread consumes what was posted.
* `StoreFetch`: a fetch worker goes on (its requests have time-outs) and the UI thread calls what it posted, per window.
* `PayloadExtract`: the calling thread, each pool thread and each writer go on when they can. A pool thread at a full
  queue without a writer cannot (`Stuck`), which is why `EndsUnlessJammed` names that case, for disturbed images only.

`Project`, `SuperImage`, `Metadata`, `PluginRuntime`, `Convert`, `BlockImage` and `SparseParts` have no liveness property: their steps are
those of one thread that goes on or dies.

## 4. What is proved

The theorems hold for every value of the constants, under the named assumptions of each module and what the table adds.
Their proofs are in the `...Proofs` modules and are checked by TLAPS.

| Theorem | States | Assumes |
|---|---|---|
| `GateIsAccounted` | `[]GateAccounted` | nothing more: threads and timers may fail |
| `HeavyWorkersExclude` | `[]Exclusion` | `after()` does not raise |
| `RunsFinalizedOnce` | `[]FinalizedOnce` | nothing more |
| `RuntimeKeepsPromise` | the safety part of `OneAtATime` | `after()` does not raise, jobs' threads start |
| `RunsAreAccounted`, `TasksArePolled` | a run that is over has its report or a queued finalizer; a task whose thread runs or has ended is polled (of no run: the safety parts of `EveryRunReported` and `GateFreed`) | nothing more |
| `PumpStaysAlive`, `PumpIsKnownWhenIdle` | `[]PumpAlive`, `[]IdlePumped` (of no run) | nothing more: any callbacks, any nesting |
| `OneDrainTakes` | every drain but the innermost is held by a dialog or a panel (of no run) | nothing more |
| `WakeUpsAreKept` | `[]NoLostWakeUp` | `EarlyHook` |
| `NoEventIsLost` | an event published to an open window was given to it, is in its stream or batch or is about to be pushed (of no run: the safety part of `EventsArrive`) | `EarlyHook` |
| `FlagsHaveFlushes` | `[]FlagHasFlush` (of no run) | nothing more |
| `UpdateTyped`, `RuntimeTyped`, `SchedulerTyped`, `EventsTyped`, `StoreTyped`, `ProjectTyped` | `[]TypeOK` of their modules (of no run) | nothing more |
| `SomethingStarts` | `[]Startable` | nothing more: any number of crashes and failures |
| `NothingIsLost` | `[]NothingLost` | nothing more |
| `AppliedUpdateIsComplete` | `[]AppliedIsComplete` | nothing more |
| `CallbacksKeepTheirOrder` | `[]InOrder` | nothing more: any callbacks, any nesting |
| `EventsComeInOrder` | `[]SeenInOrder` | nothing more |
| `InstalledPluginsAreWhole` | `[]InstalledIsWhole` | one operation at a time |
| `DependenciesAreKept`, `ButtonsShowDisk` | `[]DependenciesKept`, `[]ButtonsFollowDisk` | one operation at a time |
| `RecursionEnds`, `TasksAreAccounted` | an install's recursion has no plugin twice; each store task has an operation or a posted result (of no run: the safety part of `InstallsEnd`) | nothing more: any number of operations, cycles and faults |
| `SoundPluginsAreCallable` | `[]SoundIsCallable` | nothing more: any run beside the load, any changes of directories |
| `ItemsAreThoseShown`, `CardsAreOfRepository` | `[]ItemsAreShown`, `[]CatalogOfRepository` | nothing more |
| `WritersHaveFiles`, `ValuesKeptTo` | `[]WriterHasFile`, `[]TypeOK` (of no run) | nothing more: any images, threads and failures |
| `ReportsAreQuiet`, `UndisturbedImagesAreWhole` | `[]QuietWhenReported`, `[]UndisturbedIsWhole` | nothing more |
| `JamsTakeFaults` | a thread is `Stuck` only at an image that is `Disturbed` (of no run: the safety part of `EndsUnlessJammed`) | nothing more |
| `PackingKeepsACopy` | `PackKeepsACopy`, an action property | nothing more: any partitions, sources and workflows |
| `UnpackSuccessIsListed`, `ExtractedStaysListed`, `ImagesAreFresh`, `PackSuccessIsFresh` | `[]SuccessIsListed`, `[]ListedKept`, `[]FreshImage`, `[]PackedIsFresh` | nothing more |
| `ConversionsAreFaithful` | `[]ConvertedIsSource` | nothing more: any number of contents and conversions |
| `UnpackedWasPacked`, `ReportedIsFresh`, `RemovedWasPacked` | `[]UnpackedIsPacked`, `[]SuccessIsFresh`, `[]RemovedIsPacked` | nothing more |
| `EntriesOfImageAreKept` | `[]MetadataKept` | nothing more |
| `MergedIsOfOneBuild` | `[]MergedIsSource` | nothing more |
| `RangeSetAlgebra` | union, intersection, difference, overlap, `map_within`, size and `first` of two canonical range sets are those of their sets of blocks (`SetAlgebra`) | nothing more: any numbers of ranges, any bounds |
| `RangesComputeSets` | `[]RangesAreSets` | nothing more: any sparse image |
| `ImageComesBack` | `[]RoundTrip` | nothing more: any chunks, groups, limits and versions |
| `DeviceHoldsImage` | `[]DeviceGetsImage` | nothing more |

The modules' own assumptions are types of the constants, and in three places more: the plugins are finitely many
(`StoreAssumption`), an image of a super partition is of no slot or of one of two (`SuperConstants`), and the rules the
program ships are of paths (`MetadataConstants`).

**The inductive invariants.**

* `GateInv` adds to `GateAccounted` where a job may be and that a polled job is a registered one. Without this a poll
  could complete a task that is not registered and release a gate somebody else holds. `Exclusion` follows, since a heavy
  worker is a holder.
* `FinalizedInv` adds that a queued run has ended or is past its `except` clause and has an empty log, and that a run
  which has not posted yet is not in the queue.
* `Accounted`: a run that is past its last step has its report or is in the queue of finalizers. It is inductive with
  `FinalizedInv`, by which a report is never empty and the finalizer at the head of the queue is of a run without one.
* `Polled`: a registered task whose thread runs or has ended is polled. It is inductive with `GateInv`, by which a task is
  registered once and a poll that ends takes the task with it.
* `RuntimeKeepsPromise` takes `GateInv` and the fact that no registered task failed to start. Each action is then a step
  of `OneAtATime` for one operation, or none for any.
* `PumpInv`: a known pump has a timer armed, and between drains the pump is known. `PumpAlive` alone says nothing of
  `_pump_id`, on which `start()` decides.
* `WakeInv` = types, `FlagHasFlush`, `UnboundIsQuiet` and `NoLostWakeUp`. A suppressed notification relies on the flush
  that the flag stands for, hence `FlagHasFlush`: a set flag has a queued flush, or a worker about to queue one, behind
  it.
* `NothingLost` of `PluginEventsProofs` places each event of an open window: given, in the batch in hand, in the stream,
  or with the worker that publishes it. It needs `BoundInTime`: with an early hook no publication reads the bindings
  before the window has its own.
* `StartInv` = types, `RunsWhole` (what the process in charge runs from is whole), `Roles` (which process is in which
  phase) and `Startable`. The updater overwrites the launch binary only while it runs from a whole `updater.exe`, and
  the other way round.
* `LossInv` rests on `PendingKnown` (the process knows whether an update is pending, so a new one is prepared only when
  none is), `StagedWhole` (nothing broken is staged while an update is committed), `Restaged` (a file broken in the
  staging directory is one that the next extraction stages again) and `Extraction`.
* `CompleteInv` = `StartInv`, `LossInv` and `Completion`, which follows a release through the processes: what
  extraction has brought so far (`Extracting`), what the settings record by the time the updater starts (`Recording`),
  that an updater interrupted anywhere can start from the beginning and still bring the release about (`Resumable`,
  `Applying`, `Restartable`), and that nothing recorded later touches the version (`Applied`). The second is why the
  updater may crash: applying is idempotent because a file is either in place or still staged.
* `OuterDrainsWait`: a drain is entered from a callback of another only through a dialog or a panel, which returns no
  sooner than the inner one, so that the stack of drains is one of waiting ones.
* `OrderInv` is `InOrder` and types. What a worker has posted is numbered, and a nested drain takes from the same queue.
* `LineInv`: for each window, what it saw, what it is being given and what is in its stream follow one another, and a
  worker that has yet to push to a window is about to push its newest event (`Told`). `SeenInOrder` looks only at the end
  of this line.
* `WholeInv` of `PluginStoreProofs` adds to `InstalledIsWhole` how much is in the directory of the plugin being installed
  at each stage (`Halfway`). With two workers on one directory it is not inductive, and the property fails there.
* `StoreInv`: no dependency is missing except that of the directory being written or of a plugin the removal has still to
  take (`DependenciesSoFar`), and a button differs from the disk only where an event or a result is on its way or an
  operation has yet to send it (`ButtonsSoFar`). That a removal takes all dependents rests on `Dependents` being closed,
  however long the chain: a set of numbers that holds 0 and with n also n + 1 holds them all (`NumbersOneByOne`), and a
  finite set of plugins cannot grow for ever.
* `TaskInv`: the stack of each operation holds no plugin twice (`Recursing`), since a dependency is entered only if it is
  not active, and its bottom stays the plugin the task is for, so that what ends the operation reports that task. It
  looks at no directory, and so holds with any number of operations at a time.
* `RuntimeInv`: a plugin that was never whole has been met by nobody (`Untouched`). For a sound one, its module is empty or
  filled, each thread that registers it has in hand every entry that is not in the registry yet (`OnTrack`), and it is
  complete wherever somebody relies on it (`Consistent`).
* `ItemsInv`: what a fetch has posted is what its session keeps. `CatalogInv`: the fetch that a change asked for, alone, is
  of the address in the settings at each of its stages (`AloneWindow`); when nothing is unsettled, so is everything that
  an open window has, that a fetch under way is about to have, and the cache (`SettledInv`). The proof failed first on a
  fetch marked alone over which the address changed again; the mark had to go (`Outdated`).
* `IInv` of `PayloadExtractProofs`: a running writer has an open file, at most the file of the image the calling thread is
  at is open, and before the first and after the last image the pool is at rest. The two properties alone do not say
  which file is open while the thread goes from one image to the next.
* `WholeInv` of `PayloadExtractProofs`, as long as nothing has failed: each write of what a pool thread has made, and of
  each operation that is done, is in the queue, with the writer or in the file (`MadeIsKept`, `DoneIsKept`); a writer is
  told to stop only after all of its image is done (`StoppedAfterAll`), and ends only with an empty queue (`EndedIsWhole`).
  For `JamsTakeFaults` there is `JobsOnce` besides, faults or not: an operation waits, is with one thread or is done, and
  that only once, so that no thread puts for an image all of whose operations are done.
* `IInv` of `ProjectProofs`: at each stage after building, `output` holds under the name of that stage what the
  directory holds (`Built`). A directory is removed several steps after it was built, so the fact has to be carried
  there; the action property follows step by step (`Keeps`).
* `Typed` of `ProjectProofs`: a source that is there has a content that was brought, and what is extracted is of an image
  or a source that is there (`HandTypes`), so that nothing but brought contents comes into a directory, whole or in part,
  crashes included. It uses `IInv` and `RunInv` for which partition is in hand.
* `RunInv` of `ProjectProofs`: the image in hand is on its way to be the present source's (`FreshSoFar`); what an unpack run
  is through with is extracted and in its list in memory (`Extracted`); that list has the directories the one on disk had
  (`Listed`), so that writing it back forgets none; and what a packing run is through with is in `output` as asked for
  (`PackedSoFar`). It needs `Selection`, each chosen partition once.
* `Inv` of `ImageProofs`: what `output` holds of the chosen source at each stage (`Ready`), for the conversions the
  property speaks of. The excepted cases are those in which the first stage already takes a file of an earlier
  conversion for the source's.
* `PartsInv`: while a split runs its parts are a row that covers the blocks before its place; after one that ended, a row
  that covers a build; after one that failed, one part at most (`PartsSound`).
* `SuperInv`: the parts of a super image have plain names or names of slots and never `<name>` beside `<name>_a`
  (`FolderOk`), without which the renaming after extraction would put one over the other; and what is listed is in the
  super image at hand unless it was replaced since (`ListedOfImage`).
* `MetadataInv`: outside torn lists the files of the image at hand have its entries (`EntriesOfImage`), what a run saw is in
  the lists it is through with (`RunOk`), and in the rules the root and the directory of the partition come before every
  path (`RulesOrdered`). The last is inductive because they come first in each file that is learned, and what is learned
  goes before what was there.
* The range sets take loop invariants instead, one for each fold: `FoldTable` and `OneByOne` give what a fold has after each
  part of its sequence, for any length. `BlocksAreOdd` is the idea: a block is in a set exactly if an odd number of the
  bounds is at most that block. So a sweep is right if after each event, for all blocks up to any one, the parity of what
  it has put out says on which side of the threshold the net count of the events is (`Swept`); sorting keeps such counts,
  and the cancelling of equal bounds keeps their parity. `first`, `size` and `map_within` lay ranges end to end
  (`TakenTo`, `BlocksTo`, `LaidTo`). `OfBlocksOf` ends each proof: a canonical sequence is that of its blocks, so two with the same
  blocks are equal, as `==` in the code takes for granted. `LoadRuns` makes the care map of any image a range set of
  this kind.
* `SdatOk`: the files of a packed image are a plan of it (`PlanOk`). Two facts about the image carry it. The maps describe
  its chunks (`MapsOf`): a block is in the care map exactly if a chunk other than a skipped one holds it, so that a range
  read from the middle of one chunk through the next ones is the blocks of that range, one by one (`ReadTo`). And care map,
  read-ahead zone and the rest share out the device (`Zones`), which uses of `extend` only that its result is a range set:
  the zone is whatever it covers beyond the care map. The plan is then built
  command by command (`Builds`): what a list writes so far is a set of blocks, each of them once, with its count, and the
  blocks of its `new` commands stand beside the new data, item by item, each with what the image holds there. Lists of this
  kind concatenate, so any order of the transfers gives one. The file of `Sdat2img` holds after each write the blocks
  written so far and zeros elsewhere (`Mirror`), and the device after each command what it is to hold in the end in all
  blocks of the commands that were run, with the data of the others still to come (`Flashed`).

**Only model-checked.** Liveness under fairness (`EveryRunReported`, `GateFreed`, `EveryPostCalled`, `EventsArrive`,
`Settles`, `InstallsEnd`, `FetchEnds`, `EndsUnlessJammed` and the liveness of `OneAtATime`) is out of the prover's reach, as
is `ENABLED`. Every invariant and every other action property of the runs is proved, except the one that is violated
(`ImportedSurvive`).

The type invariants are properties of no run. `TaskRuntime`'s, `UiScheduler`'s, `PluginEvents`', `Update`'s,
`PluginStore`'s, `PayloadExtract`'s and `Project`'s are theorems and `Convert`'s is part of `Inv`; the other inductive
invariants have the types they need.

## 5. What the models found

`project_import` shows that the program does not do what its architecture notes say
(`docs/en/architecture/architecture_map_english.md`, ZIP and PAC imports and `auto_unpack`). An import puts images into
`unpack`; the unpack workflow it starts first removes `unpack/<partition>.img` as a leftover of an earlier run
(`logic/projects/unpack/workflow/service.py:105`) and then looks for a source in `input`, where there is none. The
imported images are gone, nothing is unpacked, and the import reports success.

Further facts about the code that came up while modelling. Where a property would be false without it, the fact is a
named exception in the property or an assumption of the run; the rest is outside the properties. None of them has a run
of its own, since no document of the repository states the contrary.

*Task runtime.*

* A run of the unpack tab that is only refused hides the animation of the job that is running
  (`app/projects/unpack/view_controller.py:155`).
* `restart` looks at animated tasks only and kills an exclusive `UiTaskRunner` run without a question
  (`app/process_lifecycle.py:29`).
* `master.after` raising after the thread has started releases the gate under a live worker; `thread.start` raising
  leaves an entry in `_tasks`, after which the animated runner refuses every call.
* An error is posted before the gate is released, so an `on_error` that starts the next operation could be refused.

*Plugins.*

* A stream is subscribed before `set_on_push`; an event published in between waits for the next one
  (`app/plugins/ui_event_binding.py:20`). Hence `EarlyHook`.
* The coalescing flag can let a second flush be queued beside the first; it finds an empty stream
  (`app/ui_events.py:78`).
* `install` accepts any directory as an installed dependency, also one that a bad archive left behind
  (`logic/plugins/install/service.py:82`).
* Two store workers on the same dependency can leave a plugin that counts as installed and is torn. A failed upgrade
  has already removed the old version, and no event says so.
* The registry of plugins is never emptied (`logic/plugins/runtime/registry.py:118`). After an upgrade the old version goes
  on running until the program is restarted, as only what is not registered is loaded
  (`platform/plugins/execution.py:77`), and the hooks of a removed plugin are still called. A second load, by the
  background load after a run, executes `main.py` into the module of the first one, whose `entrances` stay when the new
  file has none.
* A registration that raises half-way (a `boot` entry, mostly) leaves what it entered: the plugin counts as registered,
  has no `main`, and is not loaded again. A run that comes while the background load is entering the plugin fails the
  same way, once; and the background load registers again what a run has registered, so that `boot` runs twice.
* The cache of the store does not say whose catalog it holds. A swallowed refresh, a fetch of a closed window or a late
  `init_from_settings` leaves a window with the cards of one repository and the downloads of another (`unsettled`).

*Self-update and settings.*

* `update_done` may survive its update; a later, interrupted one is then cleaned up without having been applied
  (`app/update_orchestrator.py:149`). `version_old` is never reset (`app/update_controller.py:123`).
* Closing the updater window during extraction drops the payload: free files are of the new release, the launch binary
  is not, and nothing is pending (`ui/update/presenter.py:119`). An extraction that fails half-way leaves files of two
  releases (`logic/update/install_service.py:94`).
* `set_value` truncates `settings.ini` before it writes it (`platform/settings_repository.py:82`).
* A second instance started by hand while the updater works recovers the pending update under it
  (`app/update_controller.py:110`).
* `LoadingAnimation.start` while it runs begins a second chain of frames (`ui/common/loading_animation.py:47`).

*Payload.* After a swallowed exception the pool still decodes the rest of the image. If the writer is gone by then, its
queue fills up and the pool, and with it the whole extraction, waits for ever (`Jammed`). An image in which an operation
was swallowed has its full size and is reported like the others.

*Unpack and packing.*

* The second packing of a partition to `br` fails as long as the first one's result lies in `output`: brotli does not
  overwrite. Chunks of a split dat are appended to a dat that a dead run left.
* The result of `dtc` is not looked at (`logic/projects/dtbo/service.py:111`), and the
  directory goes all the same: the exception of `PackKeepsACopy`.
* `parts_info` is kept in memory during a run and truncated before it is written; an exception loses the entries of the
  partitions done before it (`cut`). The super container's handler overwrites entries
  (`logic/projects/unpack/workflow/image_handlers/containers.py:29`).

*Metadata.*

* `fs_config` and `file_contexts` are truncated and written anew. If the program dies then, the first lines remain, and
  the next packing fills up owners and labels with defaults (`core/contextpatch.py:96`, `core/fspatch.py:165`; `torn`).
* An image without labels passes the check with the `file_contexts` of an earlier image.
* The pattern of the root, once learned, is found in every path, so the default label is never used again. An unreadable
  `context_rules.json` counts as empty, and all rules are gone.
* Names with blanks, `#`, `&` or `~` are escaped differently by the extractor and by the context patcher, which loses
  their labels (`core/contextpatch.py:53`). Patterns of `file_contexts` that are regular expressions are dropped.
* A file added between the scans and the making of the image has no entry.

*Super images.*

* `normalize_super_outputs` renames in the whole folder: an older `<name>_a.img` replaces a fresh `<name>.img`
  (`Overridden`). Selected A/B names are always reported as failed, because they are looked for after the renaming.
* `.replace('_a', '')` takes every occurrence out of a name. The size check counts selected names only, not the `_b`
  images that are packed with them. Images left by a failed extraction stay selectable.
* A sparse `super.img` in `output` counts as an image that may be packed, and removed.

*Conversion.*

* An image that is not `<base>.img` is converted through whatever `<base>.img` lies in `output`.
* `Unxz` takes a dat that is there for its own; data without a list of its own is joined by an old list; an output image
  that cannot be opened is reported as made; a `.br` in `output` makes every later compression fail.

## 6. What is not modelled

* *Task runtime*: what callers do in their callbacks, except that two of them switch the animation.
* *UI scheduler*: `attach` never replaces a living host and `stop` has no caller, so neither is an action. `post` from
  the UI thread runs its argument at once.
* *Plugin events*: publications from the UI thread; a dispatcher that raises in `notify`.
* *Update*: the source (git pull) update, the release lookup and the text of the update window; two instances of the
  tool at once; a settings write that is torn.
* *Plugin store*: virtual plugins, several files per plugin, the download cache, reopening the store, the plugin
  manager's own dialog. Two operations at a time is a state of the model (`Workers`), but no run asks for it.
* *Store fetch*: validation of single catalog fields, search and card layout.
* *Payload*: the command line, and reading the same file over the network. An operation that needs the old image counts as undecodable.
* *Project*: the decoders themselves, the payload, super and update.app forms of a source, the splash and logo handlers,
  the vbmeta patch. A tool either does its work, fails, or leaves a part.
* *Metadata*: which owner and mode a new file is given, symbolic links, the names listed in section 5, the shrinking of
  a filesystem.
* *Super images*: the bytes of the metadata, the dynamic partition list, the start values of the window.
* *Block images*: diffs against a source image and stashes, which no caller of the program asks for.
* *Plugin execution*: what a plugin does, its lifecycle hooks (`run_entry` ends at the first that raises), virtual plugins,
  which nothing in the program registers, and a `main.py` that is loaded while it is being written.
* *Settings, JSON stores, loading animation, process lifecycle*: what the parts above rely on is in their models: `set_value`
  in `Update`, truncating JSON writes in `Unpack`, `Metadata` and `StoreFetch`, the visible animation and the end of the
  process in `TaskRuntime` and `UiScheduler`. On their own they are one write or one timer.
* *Tools, other image formats*: one pass over a file by offsets, with no state that outlives it; most readers are
  third-party code.
* Layout, themes, localization, the editor, logging and build tooling have no protocol.

## 7. Plan

Done: task runtime with its promise, scheduler, plugin events, update, plugin store; then store fetch, payload
extraction, plugin runs, the project workspace, super images, metadata, conversion, block images and sparse parts.

What is left, the most important first:

1. `Update` with settings writes that are torn, and with a second instance.
2. `TaskRuntime`'s and `PluginEvents`' queues as an abstraction of `UiScheduler`: a refinement that justifies their FIFO
   queue, nested drains included.
3. `PluginStore` with two workers: what still holds there, and an abstract specification of the installed set.
4. The remaining forms of a source (payload, super, update.app) in `Unpack`, by the specifications of `PayloadExtract` and
   `SuperImage`.
