# TLA+ models of Yaoshi

Yaoshi builds an installer medium for a fixed Debian-based system and, on the
machine it boots, writes that system to a disk. This directory holds formal
models of the code under `crates/`, the TLC runs that check them and the TLAPS
proofs about them. Every definition is translated from the Rust source;
`docs/design.md` is used for what the program is *supposed* to do.

## 1. The system

| Component | Source | State it keeps | Operations | Who it talks to |
|---|---|---|---|---|
| Installer runtime | `yaoshi-installer/src/runtime` | phase, source, candidate list, selection and focus, the open target, progress | boot, load modules, discover, inspect, select, confirm, verify, scrub, copy, finalize, exit | kernel (`/sys/block`, block devices), operator (tty1), ttyS0 |
| Terminal input | `runtime/screen.rs` 1-62 | `RESIZE_PENDING`, bytes half read | `read_input`, `read_escape_input`, `input_ready`, the SIGWINCH handler | the wait loops of the runtime |
| Serial console | `runtime/serial.rs`, `yaoshi-dashboard/src/main.rs` | the port or nothing | `mark`, `mark_display`, `emit_screen_frame` | every phase; a reader of the log |
| Installer state machine library | `yaoshi-installer/src/lib.rs` | phase, focus, candidates | `input`, `disk_inventory_ready`, `write_started`, ... | tests only |
| Build pipeline | `yaoshi-build/src/pipeline` | work root, candidate image, published image, stamp | `run_build`, currency checks, `publish` | cache, Debian tools |
| Build cache | `pipeline/cache.rs`, `yaoshi-common/src/cas.rs` | content-addressed objects, cache entries | restore, store, validate | pipeline |
| Payload container | `yaoshi-payload` | extent table, blob area, extent cache | encode, validate, write to a target | pipeline, installer |
| Disk images | `yaoshi-image` | none between calls | write and parse GPT, MBR, FAT32 | pipeline, installer |
| Dashboard | `yaoshi-dashboard` | four baselines, alert ring, static cache, when it last drew in full | sample, draw, emit frames | `/proc`, `/sys`, netlink, `/dev/kmsg`, tty1, ttyS0 |
| Screen | `yaoshi-screen/src/render` | the negotiated display, the frame drawn last | negotiate, refresh, render a frame or its difference | the console driver |
| First boot and PREPARE | `yaoshi-build/templates` | files on the ESP and the root | prepare, first-boot launch | systemd |
| Initramfs, Debian, CLI, test harness | `yaoshi-initramfs`, `yaoshi-debian`, `yaoshi`, `yaoshi-test` | none | pure functions, adapters | all |

What is hard in it:

* **Disks move.** The runtime names disks by kernel name and reads them at six
  moments (discovery, the scan for installed targets, each record's status,
  the re-read, the rival scan, the open) with anything in between.
* **Probes time out.** A probe thread is given two seconds; no answer counts as
  an answer ("not the source", "not installed", "cannot be classified").
* **Writes stop half way.** A target that fails, a source that disappears, a
  render error, a power cut: what is on the disk, and what the operator is told?
* **Nobody is there.** Every blocking stop must power the machine off.
* **Builds read the sources several times** (configuration, fingerprints, the key
  of each phase, its producer, the stamp) with a developer editing in between, and
  publication is several renames that an interruption can separate.
* **Two builds may share** a work root and an object store, without a lock.
* **A medium travels.** It is made by one release, from a cache other releases have
  filled, read on another machine, checked before the write and read again during it.
* **Nobody tells the dashboard.** Devices leave between two reads of one round,
  counters restart, the kernel's ring overruns, the console is resized, cleared and
  printed on between two frames.
* **Lines are cut.** The serial port does not block; a line ends where its deadline
  found it and the next one goes on from there.

What makes each component correct:

* installer runtime: writes only to the disk that was confirmed; never to the
  medium; no destructive action by accident; the scenes tell the truth about
  writes; Done means durable; every wait without an operator ends;
* terminal input: a key or a resize is acted on in bounded time, deadlines hold;
* serial console: a stuck port never stops the installer, a dead one stays off;
* build pipeline and cache: a current image is what a fresh build would make; an
  object never has bytes that do not match its digest; a crash loses time only;
* payload: the extent table covers the image exactly once, what is written is
  what was encoded, whatever the order of the encoding workers;
* disk images: partitions inside the image, disjoint and aligned; primary and
  backup GPT agree;
* dashboard: no rate and no share taken over all processors shows more than really
  happened, whatever was reset or missing, and no single processor's while the same
  ones are up; the alerts are the last ones; a failure costs a moment, not the truth;
* screen: differences are taken from what is shown, for the grid that is there, and
  frames keep coming.

## 2. Modules

| Module | What it is |
|---|---|
| `Installer` | The runtime: one action per step of the main thread, the operator's keys, faults, hotplug, power cuts |
| `WriteVerdict` | Its abstract promise: each operation writes to at most one disk, a refusal follows no write, nothing is written after a verdict |
| `BuildPipeline` | The image build: entry points, phases with their keys, work root, publication, stamp; edits and interruptions |
| `ArtifactStore` | The cache on disk: objects and index entries through temporary names, kills, power cuts, rival builders |
| `ArtifactCache` | Its abstract promise: a miss or what was stored, and no forgetting of what was stored to the end |
| `DiskImages` | Layouts, GPT and MBR as written and as read, the installed disk as a file and as a graph of blocks (operators only) |
| `Payload` | The payload container from the builder to the target, on top of `DiskImages` |
| `Sampler` | The dashboard's rounds of readings over a machine that moves, and what they show |
| `Dashboard` | Negotiation of font and grid, layout of the sections, the drawing loop, on a console others use |
| `SerialFrames` | Markers and screen frames on the serial port and the reader of the log |
| `MCInstaller`, `MCBuildPipeline`, `MCArtifactStore`, `MCPayload`, `MCSampler`, `MCDashboard`, `MCSerialFrames` | Instances for TLC |
| `InstallerProofs` | `TypeOK`, the write invariant, `ConfirmedDiskOnly`, `StoppedNeverHidesWrites`; the disks: `DoneMeansDurable`, `RivalsOnlyIfMissed`, `LooksInstalledOnlyWhenWhole`; `EnterAloneIsHarmless`, `SourceSpared`, `PromiseKept` (the refinement of `WriteVerdict`) |
| `ArtifactStoreProofs` | `TypeOK`, `RivalsLeaveWholeFiles`, `ImplementsCache` (the refinement of `ArtifactCache`) |
| `BuildPipelineProofs` | `TypeOK`, `EntriesHonest`, `EndsHonest`, `RebuildsOnlyWhatChanged` |
| `SamplerProofs` | `TypeOK`, `RatesNeverOverstate`, `RetainedAreTheLatest`, `StaticIsRecent` |
| `DashboardProofs` | `TypeOK`, `DrawsForTheRealGrid`, `DifferencesAreFromWhatIsShown`, `NoSectionIsCut` |
| `SerialFramesProofs` | `TypeOK`, `MarkersHaveNoGaps`, `FramesAreNeverMixed`, `WholeFramesAreSeen` |
| `DiskImagesProofs` | Lemmas about the operators of `DiskImages`: rounding, covering, the flat image and the graph, the GPT read back, extents |
| `PayloadProofs` | `TypeOK`, `TheGraphIsTheImage`, `AcceptedCoversTheTarget`, `WrittenIsTheImage` |

The modules meet where the components do. `Installer` copies a payload in three steps
and takes its validity for granted: `Payload` opens them up. `BuildPipeline` takes an
index entry and its object as one: `ArtifactStore` has their protocol. `Dashboard`
draws frames of any content: `Sampler` says what is in them, `SerialFrames` what
becomes of them on the serial line.

### Installer: state and actions

`pc` is the point the main thread has reached; its values follow the functions:
`startup` and `modules` (`bootstrap.rs` `run`, `load_modules`), `discover` and
`probe` (`discover_source`), `inspect`, `attached`, `classify` (`inspect_disks`:
the listing, the scan behind `installed_target_attached`, the status of each
record), `select` and `confirm` (`select_loop`, `confirm_loop`), `reread`,
`conflict`, `revalidate`, `validate`, `open` (`prepare_write_target`,
`prepare_erase_target`), `begin` to `close` (`write_target`, `erase_target`),
`done` (`wait_complete_exit`), `stopped` and `unsupported` (`wait_failure_exit`,
`wait_unsupported_display_exit`), `fatal` (`fatal_startup_poweroff`), `exiting`,
`off`, `halted` (`controlled_exit`).

* A **slot** is a kernel name with its sysfs path and device numbers, which is
  what `same_kernel_disk` compares; `attached` says which physical disk is behind
  it. A listing (`cand`, `reread`) is a copy of `attached` taken at a moment, and
  everything the code reads later from a device *path* goes through `attached`
  again. Size, sector size and identity are properties of the disk.
* A **disk** is four regions: the first 16 MiB (primary GPT), the image's body,
  the last 16 MiB of the image span (the backup GPT of a fresh installation) and,
  on a disk larger than the image, the last 16 MiB of the disk (the backup of a
  grown or a foreign GPT). `IsInstalled` is what `is_yaoshi_installed_target`
  finds there: primary and backup must agree. `disk` is what a read returns,
  `durable` what a power cut leaves; every unsynced region may survive, be lost
  or be torn. A region is written in one step, and a failed write leaves the old
  or a torn one.
* **Probes.** A probe of a disk in `Unreliable` may answer or be given up. The
  answers of a given-up probe are the code's: `false`, `Err(())`, `None`.
* **Operator.** Arrows, Tab and Enter, one action per scene and focus.
* **Faults** (`Faults`): a startup error, an unsupported display, a module that
  does not load, `/sys/block` unreadable, a render that fails, a reboot that
  returns. Renders fail where the code propagates their error: into the
  preparation's Stopped scene (`PrepareRenderFails`), out of `run`
  (`RenderFails`), or into `target-write-failed` (`WriteRenderFails`). Renders
  whose error the code drops (`.ok()`, `let _ =`) are not steps.
* **History variables** (`sourceDisk`, `moved`, `touched`, `missed`,
  `onlyEnter`) record what properties relate; no action reads them. `touched` is
  emptied where a transaction is over, by a `Reread`, a `DoneChooseTarget` or a
  boot.

Left out of the actions: the extent count and byte totals of the copy (checked
before and after in `write_target`, equal by the validation of the extent table,
which belongs to the payload module), the rates and progress on screen, and the
wording of markers. An abandoned probe thread only reads, and its answer is
dropped with the channel. A medium that is unplugged in mid-copy and plugged in
again lets the copy go on here; the kernel would fail the read, which is allowed
too. `syncfs` on the target's descriptor reaches the file system that holds the
device node, and is not given a failure of its own after `sync_all`.

### BuildPipeline: state and actions

`pc` follows one call of `ensure_current_installer_image_with_status`,
`require_...` or `run_build` (`api.rs`): `load` (`load_config`), `fingerprint`
(`current_image_fingerprints`), `check` or `resolve` (the currency check of the
callers, the fast path of `run_build`), then for each phase of `Order` `lookup`,
on the first miss `environment` and `work` (`check_environment`,
`prepare_work_root`), `produce` and `store`, and at the end `publish` (the image's
rename) and `stamp`.

* An **input** is one of seven things a developer changes, each with a version:
  three that `load_config` keeps in memory (the package list, the build-system
  script, hostname and keys), three that are read from the repository at each use
  (`.yaoshi/vendor`, the installer's and the dashboard's crates), and the mirror.
* An **output** is the set of (input, version) pairs its bytes depend on, and its
  digest is that set. A **key** is what the phase's intent holds: inputs of its own
  as they are read at that moment, and the outputs it builds on. `Taken` and `Hashed`
  differ for one phase, the module closure, which reads the kernel modules and
  hashes only the release and two lists.
* `StagedFor`, `Opens` and `staged` follow the files that are written under
  `.yaoshi/work` before a lookup. The two FAT trees are staged there as well but are
  read into memory before the lookup.
* The key of a phase is fixed by its lookup, its body reads the sources again
  (`LookupMiss`, `RunProducer`), and the stamp is computed from the files as they are
  after publication (`WriteStamp`).
* `Interrupt` is any step that fails and any signal; nothing is undone. `Damage` is
  what may happen to `.yaoshi/out` between builds.
* `made`, `torn`, `raced` and `last` are observers.

Left out: the insides of the producers (`Payload` has those of the last two), the
objects of the store (an index entry and its object are one step here, see
`ArtifactStore`), `bootstrap_instance_files`, `resolve_build_intents` (a check for old
paths), an output path that is not a regular file. The work root is emptied and made
again in one step, and the probes of the repository root and of its `.yaoshi` parent,
which are the same directory, are one.

### ArtifactStore: state and actions

* A **name** is a key (an index entry) or a digest (an object); `tmp` and `final` say
  what is under its temporary and its final path. A file or tree is the set of its
  parts that are there. A composite manifest is a file.
* A **job** is one `store_*_cache` (`cache.rs`): `Create`, `Copy` of each part,
  `Sync`, `Rename`, `SyncDir`, for the object unless it is there, then for the entry.
  The calls write to different things: `fs::copy` through an open descriptor (`fd`),
  which a rival's rename carries along, `sync_all` and `rename` by name, a tree by
  name always. `LosesOut` is the error a rival causes.
* `Hit` is the restore functions' verdict: an entry in the right form and something
  under the object's name. They do not read the object.
* A **power cut** keeps what was synced, any parts of the rest; a name whose directory
  was not synced may go, or come back. This is weaker than a journal that writes all
  names in order.
* `Killed` is a signal or a call that fails. `rivals` becomes true when two builders
  are on one name. What a kill or a power cut among rivals leaves is not claimed, and
  the model ends there.

A store that finds its object there writes the entry alone, and does not sync the
object's directory: only the builder that brought the object in makes a promise
(`promised`, the field `own`). What another may lose is an object, hence a miss.
Left out: an output that changes between its hash and its copy, the memo of digests,
the payload's extent cache in this respect (it is in `Payload`, torn and all).

### Payload and DiskImages: state and actions

* A disk is a function from sectors to contents; a structure is a record in the sector
  it starts in, a file a sequence of sectors, a checksum or a digest the thing it is
  taken of. GUIDs and names, which are constants of the code, are left out.
* `gpt_required_extent_bytes`, `block_bytes_at` and `for_each_extent` are the graph
  (`gpt.rs`, `types.rs`) that is packed; `write_installed_gpt_image` is the flat image
  of the same inputs, which production does not write, and serves as the reference.
* `stage` goes from `sources` over `packed` (`Pack`: plan, encode through the cache,
  write, validate), `carried` (`Publish`: composite manifest, materialisation, the
  light check), `found` (`Find`: the installer's probe), `writing` (`Begin`: the check
  of the metadata) and `written`; `refused`, `none found` and `failed` are its errors.
* zstd is a deterministic function of release and bytes that is shorter where the
  extent repeats itself (`Compressed`); a decayed frame decodes to an error or to
  other blocks (`Decoded`).
* `Change` is a later build with other inputs, another release or a torn cache entry;
  `Decay` takes away or alters one thing of the medium at any moment. Alternatively a
  behaviour starts from a medium with an arbitrary table (`OtherMedium`), well formed
  otherwise. Its table may be empty: the loop over no extents succeeds at once, so
  `Begin` goes straight to `written`.
* A write copies one extent per step from the plan that was read when it began. The
  parallel encoders share nothing and are one step; every I/O error is `PackFails`
  or `WriteFails`.

Left out: the contents of a FAT file system (label and files), the layout graph in
JSON, the shape checks of an installed system (its ext4 label, the ELF of its
binaries), the ISO9660 check, width of the offsets (checked arithmetic throughout).

### Sampler: state and actions

One action per reading, in the order of `Sampler::sample`, and the machine may move
between any two: devices, processes and processors leave and return with counters
that restart (`Leave`, `Arrive`), sources fail and recover (`Break`, `Mend`), the
kernel logs beyond its ring (`Log`), the host name changes, the first boot and sshd
make progress. Two observers: `real`, what each meter really moved since it was read
last, and `counted`, the processors that were up when `/proc/stat` was last read. An
interface may vanish inside one reading. A round takes a second.

Left out: formatting, memory, temperatures, mounts and the other readings that keep
nothing and feed nothing but their own row.

### Dashboard: state and actions

The console is outside: `screen`, `font` and what the driver does with a font
(`Drivers`: sets it, accepts it to no effect, refuses it); a cell stands for `Band`
rows. `EnterTty` to `Prepare` are `enter_tty` with its negotiation; `Unsupported` is
the page, the exit and systemd's restart. The loop is `Sample`, `AllocatePass` (one
turn of the loop in `allocate_dashboard_extra_rows`), `Compose`, `Draw`, `WriteCell`
for each cell, `Presented` or `RenderFails`, `RefreshDisplay`. Time is counted in
frames: `FullRedrawInterval` of them are the 30 s. Disturbances and failures are
bounded by `Budget`. `moved` and `disturbed` are observers. The installer uses the
same negotiation and drawing.

Left out: what is in the sections, styles, a tty that is hung up (never opened again
by the code).

### SerialFrames: state and actions

`BeginFrame` fixes the lines of a frame, `WriteLine` writes one, `WriteFails` cuts one
anywhere and gives the rest up, `Mark` writes a marker and gives the port up if it is
cut. The reader (`latest_screen_frame`) takes every line as it ends, with whatever
an earlier cut left in front of it (`pending`). The size of the screen does not
change. A kernel message on the same port is not modelled.

## 3. Runs

Deadlock is not checked where the system does stop: `MCInstaller` (`off` with no boot
left, `halted`), `MCPayload` (one medium, one write), `MCSerialFrames` (every frame and
marker emitted) and `MCArtifactStore` (everything stored).

| Run | Question | Bounds |
|---|---|---|
| `hotplug` (152k states) | What can moving disks do to a transaction? `TypeOK`, `ConfirmedDiskOnly`, `SourceSpared`, `StoppedNeverHidesWrites`, `EnterAloneIsHarmless`, `RivalsOnlyIfMissed` | 3 names, 3 disks, `other` unreliable and a grown installation; 2 hotplug events, 1 boot |
| `powercut` (181k) | What do aborted and interrupted writes leave? `DoneMeansDurable`, `LooksInstalledOnlyWhenWhole`, `PromiseKept` | 2 names, a target larger than the image with four histories (foreign, fresh, grown, erased), render faults, 1 hotplug event, 2 boots |
| `settles` (13k) | Does every wait end? `PreparationSettles`, `StopPowersOff`, `TransactionSettles` | every fault, a target that may be a second medium, 2 countdown steps, 1 hotplug event |
| `rebuild` (318k) | Is an image what its sources say, whatever happens around the build? `TypeOK`, `EndsHonest`, `EntriesHonest`, `RebuildsOnlyWhatChanged`, `Converges` | 4 of the 7 inputs edited, 2 of them also during a build, all entry points, 2 edits, 1 interruption or damage |
| `store` (356k) | Is the store a cache? `TypeOK`, `ImplementsCache`, `RivalsLeaveWholeFiles` | 2 builders, 3 keys, two of them with the same file and one with a tree, kills and power cuts without bound |
| `media` (106k) | Does the disk get the image that was built? `TypeOK`, `TheGraphIsTheImage`, `AcceptedCoversTheTarget`, `WrittenIsTheImage` | 5 roots (holes, repetitions, an unaligned end, one too large for the MBR), 2 ESPs, 2 releases, 1 change, 1 decay; every foreign table of up to 3 extents over 3 blocks, the empty one too |
| `sampling` (152k) | What may a round show while the machine moves? `TypeOK`, `RatesNeverOverstate`, `RetainedAreTheLatest`, `StaticIsRecent`, `SettlesOnTheTruth` | 2 processors, 2 processes, a disk, 2 interfaces; one part of the machine moves in a behaviour, up to 3 times |
| `screen` (288k) | What is on the console? `TypeOK`, `DrawsForTheRealGrid`, `DifferencesAreFromWhatIsShown`, `NoSectionIsCut`, `FramesKeepComing`, `Heals` | 3 sizes, 3 drivers, 2 machines, 2 disturbances |
| `serial_log` (497k) | What can be read from the log? `TypeOK`, `FramesAreNeverMixed`, `WholeFramesAreSeen`, `MarkersHaveNoGaps` | both writers, frames of 3 rows, 4 frames, 2 markers, 4 cuts |
| `wiped_work`, `stale_modules` | What two details of the pipeline lead to | 1 or 2 inputs, 1 or 2 edits, at most 1 interruption |
| `layout_hang` | What an odd row left over leads to: `FramesKeepComing` fails | 1 processor, 2 disks, 1 interface, a console of 30 rows, no disturbance |

Why the bounds are enough: `MaxHotplug = 2` is the unplug and the plug that put
another disk behind a name (or the same disk behind another), once in each window
between two reads; three disks are a medium, a target and a rival or a stranger.
`MaxBoots = 2` lets a second boot find what the first left. `Deadline = 1` gives
one pass that may time out and one that may not; the counter is compared with
zero only. `MaxHotplug` and `MaxBoots` are bounds of the model, not of the code;
the proofs hold for every value of them.

For the build, two edits are one between builds and one during a build, two of
different inputs, or one and its undoing; one fault interrupts at every step. The
four inputs enter the graph at its root (packages), in the middle (vendor), in a
binary (installer) and in memory near the end (identity). The script shares the row
of vendor, and the dashboard's is the binary's with the other branch: their rows of
`Rebuilt` are stated but not exercised. `raced` marks that a source was edited under a
running build: from then on `EndsHonest` and `EntriesHonest` speak of the configuration
only, because the code reads sources several times without a check. `torn` marks a
build that died between image and stamp.

For the store, two builders are enough to meet on any name, and a third would find one
of the states two can leave; three keys are two that share an object and one apart.
For the media, a block is two sectors and an extent at most four blocks, so that extents
fill up, change kind and end with the image; the roots were chosen so that the second
GPT run begins within a block, zstd pays off, does not, and the cache answers with
another release's frame. One decay meets every field and every moment. For the
sampler, a behaviour moves one of eight parts (a device class with its sources), since
the baselines do not share state; two or three events are a departure, a return and a
movement. `FramesKeepComing` holds in `screen` because its machines' extra rows all find
a place; `layout_hang` has a machine whose rows do not.

**Fairness of the dashboard.** Weak fairness of `Round` and of `Dashboard`: a process
with one thread that never waits for anything but a sleep takes its next step. The
machine and the console owe nothing. `SettlesOnTheTruth` assumes that at some time
every source is readable for good, `Heals` that the console stays large enough for what
is drawn on it.

**Fairness of the build.** Weak fairness of `Step`: the process, once started, takes
its next step, as a sequential program does. Nobody has to start, edit or interrupt.
`Converges` assumes that builds are run again and again, that none is interrupted and
that no source is edited under one; MaxEdits ends the edits.

**Fairness.** `FairSpec` is weak fairness of `Program`: the steps the main thread
takes without a key or a fault. The thread is never blocked in one of them: probes
and module loads are waited for with `recv_timeout`, a read or write of a disk
either returns or fails, and the key loops poll. Scenes that wait for a key
(`select`, `confirm`, `done`) promise nothing. Keys are whole here: an escape
sequence that stops after `ESC [` blocks `read_escape_input`, and so the
countdown; a console queues the bytes of a key together, so this is left to the
hazard list.

**Mutants.** Each property has an operator beside the definition it mutates
(`TargetUnchanged_ByNameOnly`, `SyncTarget_Deferred`, ...): the mistake in the code
the property would catch. None is used by the specification. One is what the
design document asks for: `TailRegion_DiskEnd` clears the end of the disk and not
that of the image, and a larger disk whose install is aborted before the copy
reaches its tail then reads as an installed one.

## 4. What the document says and the code does not

* 4.1 execution rule 3 (`wiped_work`): a miss does not always find what it needs in
  `.yaoshi/work`, because the root is emptied inside the lookup of the first phase that
  misses. After a build interrupted just before an initramfs was stored, every later
  build fails to read its newc archive until another, earlier phase misses; `mke2fs`
  is started with the path of a configuration that is gone.
* 3.3 (`stale_modules`): the module closure's key has no digest of the modules.
* 9.5 (`layout_hang`): the document's allocation ends when a pass gave nothing
  (design.md 5717), the code's does not: with one row left and only two-row units
  wanted it spins, and the dashboard freezes (`render/dashboard.rs` 170).

Seen while modelling and not given a run:

* *Installer.* 8.5 rule 3: a target without a stable id does reach the confirmation
  scene, because `inspect_disks` assigns `InstalledTarget` and
  `BlockedByInstalledTarget` first (`select.rs` 603-611). 6.7: an install clears the tail
  of the image span, not of the disk (`write.rs` 303; design.md 4217). 6.6 rule 10: the
  render before the marker fails as "target write started" with nothing written
  (`write.rs` 289). 6.5: when the first of two probes of a disk is given up and the
  second answers, a `Selectable` disk stands beside an `InstalledTarget`
  (`select.rs` 583); the transaction scans again (`RivalsOnlyIfMissed`). 6.7
  distinguishes reasons of a failed copy that `write.rs` 374-382 reports as one; 6.2's
  graph has no edge from Complete to InspectDisks, which an erase takes; a Stopped scene
  after an erase and a second, refused operation says that nothing was written, which is
  true of the second only. `copy_payload_to_target` counts progress callbacks as extents.
* *Build.* `publish` computes the fingerprints again after the image is installed
  (`artifacts.rs` 397; design.md 1111): an edit in between is stamped as built. 3.1
  rule 7 (a build of hits creates no staging tree) and rule 4 (all intents before any
  producer) are not kept, nor is 4.1 rule 10 (branches in parallel). A write probe left by
  a killed build makes every later one report `not writable`. `copy_dir_recursive` loses
  the modes of directories. Two builders of one tree can leave half of it under its
  digest for good: one renames the directory while the other fills it.
* *Payload.* A zstd error while the extent cache is read fails the build, though a bad
  entry is to be a miss; a cache filled by a release with another zstd changes the
  hashes of a payload, though its use must not; `validate_manifest` does not look at
  `partitions` (design.md 2355) and lets unknown nested keys pass;
  `materialize_composite_file` does not verify the logical digest;
  `MAX_INSTALLER_IMAGE_BYTES` is not checked for composites; a root image that ends
  within a block is a read error. `write_installed_gpt_image`,
  `write_mbr_installer_image`, `check_installer_image`, the checks of an installed
  system, `verify_target_matches_payload_region` and `payload_extent_summaries` are not
  called in production. The write compares no blob with its digest, as the document says
  (2392), which is why `WrittenIsTheImage` speaks of intact blobs.
* *Dashboard.* Health is `ok` although the network is in warning (`dashboard.rs`
  632-646; 9.6). Core rows are matched by position (`system.rs` 129-158), so when a
  processor goes offline each row behind it is compared with its neighbour's old ticks and can
  overstate: with two processors, of which the second has counted 11 busy ticks more
  than the first, the one row left after the first went offline shows 100 % although
  nothing ran. The document has per-core usage computed from consecutive
  samples (5587) and does not say what happens when a processor goes away.
  `RatesNeverOverstate` therefore claims nothing of single rows when `counted` has
  changed, and bounds them when it has not; the share of all processors comes from
  sums over every processor that was ever up and is bounded in both. A record of more than
  4096 bytes in `/dev/kmsg` makes every read fail. `NLM_F_DUMP_INTR` is ignored. The demand is `min(6, n) * 2`
  where 9.5 has `min(6, 2n)`. An unreadable prepare state is `pending` where the
  document says unknown; a failed route or address dump is not `unavailable`.
* *Screen and serial.* The fallback to the current console sees the last candidate's
  font; a display that became ineligible keeps its old grid for good; a hung-up tty is
  never opened again. A `BEGIN` line cut before its fields makes
  `latest_screen_frame` give up on the whole log; a frame without its `END`, or with one
  style, counts as complete (design.md 4473). The dashboard's serial frame is the region
  tree's rectangle, not the full grid, and if its height changes rows of two emissions
  could be taken for one frame; `SerialFrames` has one height.

## 5. Proofs

Every safety invariant and action property of the passing runs is a theorem, and so are
both refinements. The theorems hold for every value of the
constants: any number of disks, slots, boots and hotplug events; of builders, keys and
trees; of versions and edits; of files, gaps, block sizes, releases and foreign media; of
processors, devices, records and limits; of screens,
drivers and disturbances; of rows, frames, markers and cuts.

**Assumptions**, all of them checked by TLC in every run that extends their module:

* `Installer`: slots are positive numbers, `NoDisk` is not a disk, an identity names
  one disk, the bounds are natural numbers, initial layouts attach a disk once.
* `ArtifactStore`: an output has one digest, and digests are not keys. `BuildPipeline`:
  the first version is one, the edited inputs are inputs, the callers are the three
  entry points.
* `Sampler`: the sets of meters are finite, the limits positive, a machine has a
  processor (one that runs the code). `Dashboard`: a screen has pixels, a band a row;
  the marks for a cleared and a foreign band are no glyphs. `SerialFrames`: a frame has
  a row.
* `DiskImages`: the gaps and the ESP are whole blocks, and a gap holds a header, the
  entries and a block more (in the code 1 MiB for 34 sectors of 512 bytes, with blocks
  of 4096 bytes); an ESP and a boot image have sectors.
  `Payload`: files are not empty and the sectors before a write are told from theirs
  (`FilesHoldData`), the table of a foreign medium is a sequence of entries with natural
  numbers, as it is parsed (`TablesAreTables`).
* `None` is not one of the values it stands beside (`NoneIsNothing`, `NoneIsNoFrame`,
  `SomeCore`): the code has an `Option` there.
* `HalfAnImageIsNone` alone has a hypothesis of its own, `HonestContents`: before the
  first boot no disk has a matching pair of our tables around another body. Without it
  the property is false of a disk that came so; `MCInstaller` has it as an assumption.

### The arguments

None of the properties below is inductive as it stands, except where it says so. Each
strengthening was checked as an invariant of the component's run before it was proved.

* **Installer.** `OnlyTheConfirmedDisk` and `NoHiddenWrites` follow from `WriteInv`: where
  a transaction cannot have written, that there is one descriptor and everything written
  went through it, and that from the check in `revalidate` on, the re-read target and
  the confirmed candidate have the same identity, which nothing changes until the
  transaction is over. A disk with an identity is then the confirmed one by
  `StableIdAssumption`. `EnterAlone`: with no key but Enter the runtime is in no
  transaction phase, and a confirmation scene is still on Back (`EnterInv`).
  `SourceIsSpared`: until the medium moves, only a slot in `found` leads to it; after
  discovery `found` is `source` alone; no inspection gives that slot a status that a
  scene offers (`SourceInv`). `InstallerImplementsVerdict`: scenes map to verdicts,
  `touched` to `written`; a refusal is a step because of `WriteInv`, a completion because
  of `WrittenInv` (every phase after `scrubHead` has written).
* **Disks of the installer.** `CleanInv`: a disk that differs from what is durable is of
  the running transaction and in the machine, so `sync_all` and `sync` reach it.
  `ProgressInv`: per phase, which regions have been cleared or written; both give
  `DoneIsDurable`. `RivalsInv`: while the scan has found no installed target, every one
  it has passed it has missed, and a disk nobody writes to is what it was when it was
  scanned; that the scan ends with the first it finds (`todo = {}`) is what makes it
  inductive. `WholeInv`: the head is cleared first and written while the backup table is
  still zero, the backup follows the body, so no prefix of the writes reads as installed.
* **Store.** Two worlds. `Alone`: until two builders meet on a name, what is under a final
  name is whole and synced, each builder's temporary has what it has copied, an index entry
  is begun only over an object (synced, if it is the builder's own), and what was
  promised is linked: that is the refinement. `Met`: until somebody is cut off, a part that
  is missing from a file is one that a builder with the file open has still to write,
  under whichever name the file is by now (`Pending`): that is `RivalsLeaveFiles`.
* **Build.** `HInv`: the key at hand is the one that would be computed now (`KeyStands`),
  what was produced answers for the key, so do all entries, the phases resolved so far are
  made of the inputs that reach them (`Cone`, computed once for the graph), the image of
  them, the stamp says so. Everything is relative to `Sure`, the inputs of which something
  is promised. `RInv` adds what a second build needs: entries are unique, the entries of
  the last good build are still there, a phase no change reaches resolves to what it was
  then, and only stale phases miss.
* **Sampler.** `SInv`: for each sample, a meter that is there has counted no more than the
  sample and what it really moved since, also if it left and came back; the sample of the
  processors lies below the sums, and its lines are those of `counted`, each below what
  its processor has counted (`CoresOK`; that each place has a processor is `CoreAtIs`, by
  counting places); if the static sample has another name than the
  machine, the name changed after the sample was taken, and samples are young; the
  alerts are the last of what was read. The rates then follow from saturating differences, their
  sums and the rounding of quotients; that there is a busiest process at all is a lemma (`BusiestIs`).
* **Payload.** Four facts, in the modules' order, and an invariant (`Inv`) that ties them
  to the stages.
  *A table that is accepted tiles* (`Tiled`, `Apart`): each extent begins where the one
  before ends and each blob where the sum of those before it does, since the checks walk
  the table with the same sums; so every block has one extent and no two blobs meet.
  *The graph is the file*: sector by sector both are the last thing written there
  (`Installed`, a sector of the installed disk by where it lies); the graph's padded GPT
  runs stay inside the gaps, the extents put together are its blocks, and the GPT parsed
  from the result is the one encoded. *The cache does not matter*: a hit is an encoding
  that decodes to the extent, whatever release made it, a torn entry is a miss. *Decay
  only takes away* (`LeftOf`): the prelude and its two digests bind the table and the
  manifest, so a medium that is still accepted has the table it was made with, and each
  blob is whole or noise. The invariant adds how far a write has come: the sectors
  before the next extent are no longer old, those behind it are (`Touched`), and extents
  whose blob is still there are on the disk (`SoFar`), which a later decay only makes
  fewer. Media of others (`Foreign`) have the first fact alone.
* **Dashboard.** `DInv`: the negotiation has tried or will try every profile, a session
  draws for the grid of the profile applied last, below the cursor the console shows the
  new frame and above it the old one, and the extra rows given and left add up, in pairs
  where the code gives pairs.
* **Serial log.** `FInv`: what is left of a frame is its last lines, only a first line meets
  one that was cut, rows written are the last cells the reader took, styles come after
  all rows, and a frame begun at the start of a line is read as it is written. The
  markers have no gap because a port whose marker was cut is given up.

**Induction.** The sums of `Sampler` fold over a set and its alerts are a filter of the
log; both are recursive. The library's induction theorems take an operator and cannot be
instantiated, but least elements can: `Induction` states it over a *set* of numbers,
`SetInduction` over a set of subsets, and from them come that the recursive functions
exist, are unique and obey their equations (`AddsExists`, `CollectsExists`, ...), and the
laws used in the steps (`TotalBound`, `TotalBalance`, `AlertsJoin`, `LastOfJoin`). The
sums over a table and the extents of the graph are recursive functions treated in the same way
(`Total`, `for_each_extent`), with `Recursion` and `Induction` in `DiskImagesProofs`; a
sequence of sequences put together is its running sum of lengths (`Sums`).

**What the proofs corrected.** A write of an empty table, which a foreign medium may
have, ends at once in the code; the model had it waiting for a first extent, which no
run had met and for which `TypeOK` could not be proved. The run has that medium now.
`DiskImages` also has to say that gaps and ESP are whole blocks, as the code's constants
are: only then does the check that no file ends within a block make the image itself a
whole number of them.

### Model-checked only

* Liveness: `PreparationSettles`, `StopPowersOff`, `TransactionSettles`, `Converges`,
  `SettlesOnTheTruth`, `FramesKeepComing`, `Heals`. Fairness and ENABLED are out of the
  prover's reach.
* The divergences (`wiped_work`, `stale_modules`, `layout_hang`), which are violations.

## 6. Plan

Modelled, checked and proved as far as the prover reaches: the installer, the build, its
store, the media, the dashboard with its screen and the serial log. What could follow:

1. The two half-modelled readers: `read_escape_input` below whole keys, for the hazard
   that a half-sent key stops the countdown, and the layout graph in JSON.
2. A proof that `AllocatePass` ends where its rows find a place. It is a liveness
   property; the decreasing measure is provable, the conclusion is not.

### Not modelled

Terminal input below whole keys; the state machine library of the installer, which only
its own tests use; the initramfs archive, Debian resolution and the command line, which
keep no state between calls; the text of screens, a pure function; the first-boot and
PREPARE scripts, whose order and repetition are systemd's; the rest of the test
harness, which is read as a statement of intent.

## 7. Running

    tlc -config Hotplug.cfg MCInstaller
    tlc -config Rebuild.cfg MCBuildPipeline
    tlc -config Store.cfg MCArtifactStore
    tlc -config Media.cfg MCPayload
    tlapm InstallerProofs.tla
    tlapm ArtifactStoreProofs.tla
    tlapm BuildPipelineProofs.tla
    tlapm SamplerProofs.tla
    tlapm DashboardProofs.tla
    tlapm SerialFramesProofs.tla
    tlapm DiskImagesProofs.tla
    tlapm PayloadProofs.tla
