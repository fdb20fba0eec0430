--------------------------- MODULE BuildPipeline ---------------------------
(***************************************************************************)
(* The image build of yaoshi-build: `cargo run -p yaoshi` resolves a chain *)
(* of cacheable phases, publishes the installer image and stamps it, while *)
(* a developer edits the inputs and may interrupt the build at any step.   *)
(*                                                                         *)
(* A phase's output is the set of <<input, version>> pairs that went into  *)
(* its bytes; its digest stands for that set.  A cache key is what the     *)
(* phase hashes before it looks the cache up: the inputs of its own, read  *)
(* at that moment, and the outputs of the phases it builds on.  The files  *)
(* a phase leaves under .yaoshi/work for a later producer body are kept by *)
(* name in `staged'.                                                       *)
(***************************************************************************)
EXTENDS Naturals, Sequences, FiniteSets

CONSTANTS
  Versions,    \* what an input may contain
  First,       \* what each contains at the start
  Editable,    \* the inputs the developer changes
  MidBuild,    \* those of them an edit may change while a build runs
  Callers,     \* which entry points are called
  MaxEdits,    \* bound on edits
  MaxFaults    \* bound on interruptions and on damage to .yaoshi/out

\* Read once, by load_config, and kept in memory for the whole build.
Config == {"packages", "script", "identity"}
\* Read from the repository by every phase that needs them, each time.
Sources == {"vendor", "installer", "dashboard"}
\* What mmdebstrap downloads: part of no key.
Inputs == Config \cup Sources \cup {"mirror"}

ASSUME VersionsAssumption == First \in Versions
ASSUME EditableAssumption == MidBuild \subseteq Editable /\ Editable \subseteq Inputs
ASSUME CallersAssumption  == Callers \subseteq {"run_build", "ensure", "require"}
ASSUME BoundsAssumption   == MaxEdits \in Nat /\ MaxFaults \in Nat

----------------------------------------------------------------------------
(* The graph of phases, in the order run_build calls them. *)

Order ==
  << "resolve-debian-package-root",
     "resolve-customized-root",
     "resolve-root-bridge-overlay",
     "resolve-installed-root-source",
     "resolve-installed-root-ext4",
     "build-yaoshi-installer-musl",
     "build-yaoshi-dashboard-musl",
     "pack-installed-esp-fat32",
     "pack-installed-system-payload",
     "compute-installer-module-closure",
     "pack-installer-base-initramfs-zstd",
     "pack-installer-app-initramfs-zstd",
     "pack-installer-boot-fat32",
     "pack-final-installer-mbr-composite" >>

Phases == {Order[n] : n \in DOMAIN Order}
Last   == "pack-final-installer-mbr-composite"

\* The inputs a phase hashes itself.
Direct(p) ==
  CASE p = "resolve-debian-package-root" -> {"packages"}
    [] p = "resolve-customized-root"     -> {"script", "vendor"}
    [] p = "build-yaoshi-installer-musl" -> {"installer"}
    [] p = "build-yaoshi-dashboard-musl" -> {"dashboard"}
    [] p = "pack-installed-esp-fat32"    -> {"identity"}
    [] OTHER -> {}

\* The phases whose outputs it hashes.
Upstream(p) ==
  CASE p = "resolve-customized-root" -> {"resolve-debian-package-root"}
    [] p = "resolve-installed-root-source" ->
         {"resolve-customized-root", "resolve-root-bridge-overlay"}
    [] p = "resolve-installed-root-ext4" -> {"resolve-installed-root-source"}
    [] p = "pack-installed-esp-fat32" ->
         {"resolve-debian-package-root", "build-yaoshi-dashboard-musl"}
    [] p = "pack-installed-system-payload" ->
         {"pack-installed-esp-fat32", "resolve-installed-root-ext4"}
    [] p = "compute-installer-module-closure" -> {"resolve-debian-package-root"}
    [] p = "pack-installer-base-initramfs-zstd" ->
         {"compute-installer-module-closure"}
    [] p = "pack-installer-app-initramfs-zstd" -> {"build-yaoshi-installer-musl"}
    [] p = "pack-installer-boot-fat32" ->
         {"resolve-debian-package-root", "pack-installer-base-initramfs-zstd",
          "pack-installer-app-initramfs-zstd"}
    [] p = "pack-final-installer-mbr-composite" ->
         {"pack-installer-boot-fat32", "pack-installed-system-payload"}
    [] OTHER -> {}

\* Written under .yaoshi/work before the phase's lookup, hit or miss.
StagedFor(p) ==
  CASE p = "resolve-installed-root-ext4"        -> {"mke2fs.conf"}
    [] p = "pack-installed-esp-fat32"           -> {"installed-esp.tree"}
    [] p = "pack-installer-base-initramfs-zstd" -> {"base.newc", "app.newc"}
    [] p = "pack-installer-boot-fat32"          -> {"installer-boot.tree"}
    [] OTHER -> {}

\* Of those, what the producer body opens: the two FAT trees are read into
\* memory before the lookup.
Opens(p) ==
  CASE p = "resolve-installed-root-ext4"        -> {"mke2fs.conf"}
    [] p = "pack-installer-base-initramfs-zstd" -> {"base.newc"}
    [] p = "pack-installer-app-initramfs-zstd"  -> {"app.newc"}
    [] OTHER -> {}

WorkFiles == UNION {StagedFor(p) : p \in Phases}

----------------------------------------------------------------------------
VARIABLES
  disk,      \* the inputs as they are on disk
  index,     \* the cache index: [phase, key, out]
  staged,    \* what .yaoshi/work holds for a later producer body
  probe,     \* .yaoshi-write-check.tmp exists
  image,     \* .yaoshi/out/yaoshi.img
  stamp,     \* .yaoshi/out/yaoshi.img.current
  pc,        \* where the running build is
  caller,    \* which entry point runs
  conf,      \* EffectiveProductConfig
  fp,        \* the fingerprints computed at the start
  at,        \* index in Order of the phase at hand
  prepared,  \* work_prepared
  key,       \* the key of the phase at hand, once its lookup has missed
  product,   \* the output of the last producer body
  outs,      \* the output of each phase resolved so far
  verdict    \* how the last build ended

VARIABLES    \* observers: no action reads them to decide anything
  made,      \* phases whose producer body has run in this build
  torn,      \* an image was installed and its stamp was not
  raced,     \* a source was edited while a build ran
  last,      \* the inputs of the last build that published
  edits, faults

files    == <<index, staged, probe, image, stamp>>
local    == <<caller, conf, fp, at, prepared, key, product, outs>>
bounds   == <<edits, faults>>
history  == <<made, torn, raced, last>>
vars     == <<disk, files, pc, local, verdict, history, bounds>>

Pairs == (Inputs \X Versions) \cup {<<"mke2fs.conf", "rendered">>,
                                    <<"mke2fs.conf", "builtin">>}
Keyed == Config \cup Sources

\* What a hashing phase sees of an input now.
Now(i) == IF i \in Config THEN conf[i] ELSE disk[i]
\* What this build believes it is building.
Meant(i) == IF i \in Config THEN fp.loaded[i] ELSE fp.files[i]

\* The inputs whose files the fingerprints hash.
FileHashed == {"packages", "identity"} \cup Sources

\* Mutants: the identity left out; the configuration file and keys not read.
Fingerprints_NoIdentity ==
  [loaded |-> [conf EXCEPT !["identity"] = First],
   files  |-> [i \in FileHashed |-> IF i = "identity" THEN First ELSE disk[i]]]
Fingerprints_SourcesOnly ==
  [loaded |-> conf, files |-> [i \in Sources |-> disk[i]]]

\* current_image_fingerprints: the configuration in memory, and the bytes of
\* the configuration file, the key files, .yaoshi/vendor and the crates.
Fingerprints == [loaded |-> conf, files |-> [i \in FileHashed |-> disk[i]]]

Absent    == [state |-> "absent"]
Malformed == [state |-> "malformed"]
Damaged   == [state |-> "damaged"]
Whole(o)   == [state |-> "whole", of |-> o]
Written(f) == [state |-> "written", fps |-> f]

\* Mutant: any stamp that parses will do.
MissReason_AnyStamp ==
  CASE stamp = Absent    -> "missing-stamp"
    [] stamp = Malformed -> "malformed-stamp"
    [] stamp.state = "written" /\ image = Absent  -> "missing-image"
    [] stamp.state = "written" /\ image = Damaged -> "media-check-failed"
    [] OTHER -> "none"

\* current_image_miss_reason, and the same tests in resolve_current_image_summary.
MissReason ==
  CASE stamp = Absent        -> "missing-stamp"
    [] stamp = Malformed     -> "malformed-stamp"
    [] stamp.state = "written" /\ stamp.fps # fp -> "stale-stamp"
    [] stamp.state = "written" /\ stamp.fps = fp /\ image = Absent -> "missing-image"
    [] stamp.state = "written" /\ stamp.fps = fp /\ image = Damaged ->
         "media-check-failed"
    [] OTHER -> "none"

----------------------------------------------------------------------------
(* Keys and outputs. *)

\* What phase p takes from an upstream output: the module closure copies the
\* kernel modules of the Debian root and nothing else of it.
Taken(p, o) ==
  IF p = "compute-installer-module-closure"
  THEN {x \in o : x[1] = "mirror"} ELSE o

\* What it hashes of one: everything, but for the module closure, whose key
\* names the kernel release, modules.dep and modules.builtin.  The kernels of
\* the model are builds of one release with one list of modules.
Hashed(p, o) == IF p = "compute-installer-module-closure" THEN {} ELSE o

\* Mutants: upstream outputs left out; the identity hashed by every phase.
KeyOf_OwnOnly(p) ==
  [own |-> {<<i, Now(i)>> : i \in Direct(p)}, ups |-> [q \in Phases |-> {}]]
KeyOf_WholeConfig(p) ==
  [own |-> {<<i, Now(i)>> : i \in Direct(p) \cup {"identity"}},
   ups |-> [q \in Phases |->
              IF q \in Upstream(p) THEN Hashed(p, outs[q]) ELSE {}]]

\* The key a phase computes from what it reads and what it builds on.
KeyOf(p) ==
  [own |-> {<<i, Now(i)>> : i \in Direct(p)},
   ups |-> [q \in Phases |->
              IF q \in Upstream(p) THEN Hashed(p, outs[q]) ELSE {}]]

\* What the producer body itself reads, given whether it finds mke2fs.conf:
\* without it mke2fs falls back on the defaults built into it.
ReadBy(p, recipe) ==
  {<<i, Now(i)>> : i \in Direct(p)}
    \cup (IF p = "resolve-debian-package-root"
          THEN {<<"mirror", disk["mirror"]>>} ELSE {})
    \cup (IF p = "resolve-installed-root-ext4"
          THEN {<<"mke2fs.conf", recipe>>} ELSE {})

Produced(p, recipe) ==
  ReadBy(p, recipe) \cup UNION {Taken(p, outs[q]) : q \in Upstream(p)}

Hits(p) == {e \in index : e.phase = p /\ e.key = KeyOf(p)}

----------------------------------------------------------------------------
Init ==
  /\ disk = [i \in Inputs |-> First]
  /\ index = {} /\ staged = {} /\ probe = FALSE
  /\ image = Absent /\ stamp = Absent
  /\ pc = "idle" /\ caller = "run_build"
  /\ conf = [i \in Config |-> First]
  /\ fp = [loaded |-> [i \in Config |-> First], files |-> [i \in FileHashed |-> First]]
  /\ at = 1 /\ prepared = FALSE /\ product = {}
  /\ key = [own |-> {}, ups |-> [q \in Phases |-> {}]]
  /\ outs = [p \in Phases |-> {}]
  /\ verdict = "none"
  /\ made = {} /\ torn = FALSE /\ raced = FALSE /\ last = <<>>
  /\ edits = 0 /\ faults = 0

Ends(v) ==
  /\ pc' = "idle"
  /\ verdict' = v

Goes(label) ==
  /\ pc' = label
  /\ UNCHANGED verdict

(* The developer. *)

\* Change one input, or the mirror's kernel.
Edit(i, v) ==
  /\ pc = "idle" \/ i \in MidBuild
  /\ edits < MaxEdits
  /\ v # disk[i]
  /\ disk' = [disk EXCEPT ![i] = v]
  /\ edits' = edits + 1
  /\ raced' = (raced \/ (pc # "idle" /\ i \in Sources))
  /\ UNCHANGED <<files, pc, local, verdict, made, torn, last, faults>>

\* Remove or damage a file of .yaoshi/out between builds.
Damage ==
  /\ pc = "idle"
  /\ faults < MaxFaults
  /\ \/ image' \in {Absent, Damaged} /\ image.state = "whole" /\ UNCHANGED stamp
     \/ stamp' \in {Absent, Malformed} /\ stamp.state = "written" /\ UNCHANGED image
  /\ faults' = faults + 1
  /\ UNCHANGED <<disk, index, staged, probe, pc, local, verdict, history, edits>>

\* Run the product build, or one of the two resolvers.
Start(c) ==
  /\ pc = "idle"
  /\ caller' = c
  /\ pc' = "load"
  /\ verdict' = "none"
  /\ made' = {}
  /\ last' = IF verdict = "published" THEN [i \in Keyed |-> Meant(i)] ELSE last
  /\ UNCHANGED <<disk, files, conf, fp, at, prepared, key, product,
                 outs, torn, raced, bounds>>

(* The build. *)

\* bootstrap_instance_files; load_config.
LoadConfig ==
  /\ pc = "load"
  /\ conf' = [i \in Config |-> disk[i]]
  /\ Goes("fingerprint")
  /\ UNCHANGED <<disk, files, caller, fp, at, prepared, key, product, outs,
                 history, bounds>>

ComputeFingerprints ==
  /\ pc = "fingerprint"
  /\ fp' = Fingerprints
  /\ Goes(IF caller = "run_build" THEN "resolve" ELSE "check")
  /\ UNCHANGED <<disk, files, caller, conf, at, prepared, key, product, outs,
                 history, bounds>>

\* ensure_... and require_current_installer_image_with_status.
CheckCurrentImage ==
  /\ pc = "check"
  /\ \/ /\ MissReason = "none"
        /\ Ends("current")
        /\ UNCHANGED caller
     \/ /\ MissReason # "none"
        /\ caller = "require"
        /\ Ends(MissReason)
        /\ UNCHANGED caller
     \/ /\ MissReason # "none"
        /\ caller = "ensure"
        /\ caller' = "run_build"
        /\ Goes("load")
  /\ UNCHANGED <<disk, files, conf, fp, at, prepared, key, product, outs,
                 history, bounds>>

\* The fast path of run_build, and the start of its resolver.
ResolveCurrentImage ==
  /\ pc = "resolve"
  /\ \/ /\ MissReason = "none"
        /\ Ends("current")
        /\ UNCHANGED <<at, prepared, outs>>
     \/ /\ MissReason # "none"
        /\ at' = 1
        /\ prepared' = FALSE
        /\ outs' = [p \in Phases |-> {}]
        /\ Goes("lookup")
  /\ UNCHANGED <<disk, files, caller, conf, fp, key, product, history, bounds>>

\* The phase at hand is resolved to o.
Resolves(o) ==
  /\ outs' = [outs EXCEPT ![Order[at]] = o]
  /\ at' = at + 1
  /\ Goes(IF Order[at] = Last THEN "publish" ELSE "lookup")

\* Stage what the phase stages, compute its key and look it up.
LookupHit ==
  /\ pc = "lookup"
  /\ \E e \in Hits(Order[at]) : Resolves(e.out)
  /\ staged' = staged \cup StagedFor(Order[at])
  /\ UNCHANGED <<disk, index, probe, image, stamp, caller, conf, fp, prepared,
                 key, product, history, bounds>>

\* The body will be stored under the key computed here, before it runs.
LookupMiss ==
  /\ pc = "lookup"
  /\ Hits(Order[at]) = {}
  /\ staged' = staged \cup StagedFor(Order[at])
  /\ key' = KeyOf(Order[at])
  /\ Goes(IF prepared THEN "produce" ELSE "environment")
  /\ UNCHANGED <<disk, index, probe, image, stamp, caller, conf, fp, at,
                 prepared, product, outs, history, bounds>>

\* check_environment: the probe file is created with create_new, and one that
\* is already there means the directory is not writable.
CheckEnvironment ==
  /\ pc = "environment"
  /\ \/ /\ probe
        /\ Ends("not-writable")
        /\ UNCHANGED probe
     \/ /\ ~probe
        /\ probe' = TRUE
        /\ Goes("work")
  /\ UNCHANGED <<disk, index, staged, image, stamp, local, history, bounds>>

\* The probe is removed; prepare_work_root then empties .yaoshi/work, with
\* whatever has been staged there.
PrepareWorkRoot ==
  /\ pc = "work"
  /\ probe' = FALSE
  /\ staged' = {}
  /\ prepared' = TRUE
  /\ Goes("produce")
  /\ UNCHANGED <<disk, index, image, stamp, caller, conf, fp, at, key, product,
                 outs, history, bounds>>

\* The producer body: an initramfs that is gone cannot be read; a missing
\* mke2fs.conf is an error to mke2fs, or makes it use its own defaults.
RunProducer ==
  /\ pc = "produce"
  /\ \/ /\ Opens(Order[at]) \subseteq staged
        /\ product' = Produced(Order[at], "rendered")
        /\ Goes("store")
     \/ /\ ~(Opens(Order[at]) \subseteq staged)
        /\ Order[at] = "resolve-installed-root-ext4"
        /\ product' = Produced(Order[at], "builtin")
        /\ Goes("store")
     \/ /\ ~(Opens(Order[at]) \subseteq staged)
        /\ Ends("failed")
        /\ UNCHANGED product
  /\ made' = made \cup {Order[at]}
  /\ UNCHANGED <<disk, files, caller, conf, fp, at, prepared, key, outs,
                 torn, raced, last, bounds>>

\* store_*_cache: the object under its digest, then write_cache_entry.
StoreOutput ==
  /\ pc = "store"
  /\ index' = {e \in index : ~(e.phase = Order[at] /\ e.key = key)}
                \cup {[phase |-> Order[at], key |-> key, out |-> product]}
  /\ Resolves(product)
  /\ UNCHANGED <<disk, staged, probe, image, stamp, caller, conf, fp, prepared,
                 key, product, history, bounds>>

\* publish: materialise the candidate and check it, then rename it in place.
InstallImage ==
  /\ pc = "publish"
  /\ image' = Whole(outs[Last])
  /\ torn' = TRUE
  /\ Goes("stamp")
  /\ UNCHANGED <<disk, index, staged, probe, stamp, local, made, raced, last,
                 bounds>>

\* The fingerprints are computed again, from the same configuration and the
\* files as they are now, and renamed in place.
WriteStamp ==
  /\ pc = "stamp"
  /\ stamp' = Written(Fingerprints)
  /\ torn' = FALSE
  /\ Ends("published")
  /\ UNCHANGED <<disk, index, staged, probe, image, local, made, raced, last,
                 bounds>>

\* Any step of the build may fail, and the process may be killed anywhere.
Interrupt ==
  /\ pc # "idle"
  /\ faults < MaxFaults
  /\ Ends("interrupted")
  /\ faults' = faults + 1
  /\ UNCHANGED <<disk, files, local, history, edits>>

Step ==
  \/ LoadConfig \/ ComputeFingerprints
  \/ CheckCurrentImage \/ ResolveCurrentImage
  \/ LookupHit \/ LookupMiss
  \/ CheckEnvironment \/ PrepareWorkRoot
  \/ RunProducer \/ StoreOutput
  \/ InstallImage \/ WriteStamp

Next ==
  \/ Step
  \/ Interrupt
  \/ Damage
  \/ \E i \in Editable, v \in Versions : Edit(i, v)
  \/ \E c \in Callers : Start(c)

\* The build takes its next step; nobody has to edit, call or interrupt.
Spec == Init /\ [][Next]_vars /\ WF_vars(Step)

----------------------------------------------------------------------------
(* Properties. *)

Labels == {"idle", "load", "fingerprint", "check", "resolve", "lookup",
           "environment", "work", "produce", "store", "publish", "stamp"}
Verdicts == {"none", "current", "published", "failed", "not-writable",
             "interrupted", "missing-stamp", "malformed-stamp", "stale-stamp",
             "missing-image", "media-check-failed"}
Keys == [own : SUBSET Pairs, ups : [Phases -> SUBSET Pairs]]
Outputs == [Phases -> SUBSET Pairs]
Entries == [phase : Phases, key : Keys, out : SUBSET Pairs]
Prints == [loaded : [Config -> Versions], files : [FileHashed -> Versions]]

\* Every variable has its type.
TypeOK ==
  /\ disk \in [Inputs -> Versions]
  /\ index \subseteq Entries
  /\ staged \subseteq WorkFiles
  /\ probe \in BOOLEAN /\ prepared \in BOOLEAN
  /\ torn \in BOOLEAN /\ raced \in BOOLEAN
  /\ image \in {Absent, Damaged} \/ (image = Whole(image.of) /\ image.of \subseteq Pairs)
  /\ stamp \in {Absent, Malformed} \/ (stamp = Written(stamp.fps) /\ stamp.fps \in Prints)
  /\ pc \in Labels
  /\ verdict \in Verdicts
  /\ caller \in {"run_build", "ensure", "require"}
  /\ conf \in [Config -> Versions]
  /\ fp \in Prints
  /\ at \in 1..Len(Order) + 1
  /\ key \in Keys
  /\ product \subseteq Pairs
  /\ outs \in Outputs
  /\ made \subseteq Phases
  /\ last = <<>> \/ last \in [Keyed -> Versions]
  /\ edits \in 0..MaxEdits
  /\ faults \in 0..MaxFaults

\* The versions of input i in an output.
Contents(o, i) == {x[2] : x \in {y \in o : y[1] = i}}

\* A build that ends well leaves an image made from what it meant to build:
\* the configuration it loaded always, and the sources it fingerprinted unless
\* one was edited under a running build.  A build that finds the image current
\* may rely on it, unless an earlier one died between installing its image and
\* stamping it.  (run_build, publish, resolve_current_image_summary.)
EndsHonest ==
  (/\ verdict = "published" \/ (verdict = "current" /\ ~torn)
   /\ image.state = "whole")
    => \A i \in IF raced THEN Config ELSE Keyed :
         Contents(image.of, i) = {Meant(i)}

\* An entry of the cache index answers for its key: the output it names was
\* made from exactly the inputs that key hashed, unless a source was edited
\* under a running build.  (cache_file_phase, cache_tree_phase.)
EntriesHonest ==
  \A e \in index, i \in IF raced THEN Config ELSE Keyed :
    Contents(e.out, i) =
      Contents(e.key.own \cup UNION {e.key.ups[q] : q \in Phases}, i)

\* design.md's invalidation table: what a change of one input rebuilds.
Rebuilt(i) ==
  CASE i = "installer" ->
         {"build-yaoshi-installer-musl", "pack-installer-app-initramfs-zstd",
          "pack-installer-boot-fat32", "pack-final-installer-mbr-composite"}
    [] i = "dashboard" ->
         {"build-yaoshi-dashboard-musl", "pack-installed-esp-fat32",
          "pack-installed-system-payload", "pack-final-installer-mbr-composite"}
    [] i = "identity" ->
         {"pack-installed-esp-fat32", "pack-installed-system-payload",
          "pack-final-installer-mbr-composite"}
    [] i \in {"script", "vendor"} ->
         {"resolve-customized-root", "resolve-installed-root-source",
          "resolve-installed-root-ext4", "pack-installed-system-payload",
          "pack-final-installer-mbr-composite"}
    [] i = "packages" ->
         {"resolve-debian-package-root", "resolve-customized-root",
          "resolve-installed-root-source", "resolve-installed-root-ext4",
          "compute-installer-module-closure", "pack-installer-base-initramfs-zstd",
          "pack-installed-esp-fat32", "pack-installed-system-payload",
          "pack-installer-boot-fat32", "pack-final-installer-mbr-composite"}

\* After a build that published, another runs no producer body but those the
\* invalidation table gives for the inputs that have changed since.
RebuildsOnlyWhatChanged ==
  (last # <<>> /\ ~raced) =>
    made \subseteq UNION {Rebuilt(i) : i \in {j \in Keyed : Meant(j) # last[j]}}

\* If nothing interrupts a build, damages .yaoshi/out or edits a source under
\* a running build, and the build is run again and again, then in the end the
\* published image is made from what is on disk.
Converges ==
  ([](faults = 0 /\ ~raced) /\ []<>(pc = "resolve"))
    => <>[](image.state = "whole"
              /\ \A i \in Keyed : Contents(image.of, i) = {disk[i]})

\* A producer body finds what its phase staged for it under .yaoshi/work.
\* (docs/design.md 4.1: a cache miss executes the producer body in
\* .yaoshi/work and returns its output.)
ProducersFindTheirInputs ==
  pc = "produce" => Opens(Order[at]) \subseteq staged

\* All kernels and kernel modules of a published image are of one build.
\* (docs/design.md 3.3: the module closure's intent holds the digest of the
\* Debian boot export.)
KernelAndModulesAgree ==
  image.state = "whole" => Cardinality(Contents(image.of, "mirror")) <= 1
=============================================================================
