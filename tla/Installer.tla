------------------------------ MODULE Installer ------------------------------
(***************************************************************************)
(* The installer runtime (crates/yaoshi-installer/src/runtime): PID 1 of   *)
(* the installer medium, from its first frame to the power state change.   *)
(* One main thread runs the phases below; short-lived probe threads are    *)
(* bounded by recv_timeout, so a probe of an unreliable disk may answer or *)
(* may be given up.  Disks come and go while the installer runs, the       *)
(* operator presses keys, and power may be cut at any step.                *)
(*                                                                         *)
(* A disk is four regions: the first 16 MiB, the body of the installed     *)
(* image, the last 16 MiB of the image span (where a fresh image keeps its *)
(* backup GPT) and, on a disk larger than the image, the last 16 MiB of    *)
(* the disk (where a grown installation or a foreign GPT keeps it).        *)
(***************************************************************************)
EXTENDS Naturals, FiniteSets

CONSTANTS
  Slots,          \* kernel disk names, as numbers in their lexical order
  Disks,          \* physical whole disks
  NoDisk,         \* an empty slot
  StableId,       \* stable_disk_id of a disk, or NoId when sysfs has none
  NoId,
  Sector512,      \* disks with 512-byte logical sectors
  BigEnough,      \* disks of at least payload_target_minimum_bytes
  Larger,         \* disks with at least 16 MiB beyond the image span
  Unreliable,     \* disks whose reads may fail or outlast a probe timeout
  Layouts,        \* initial attachments, functions from Slots
  Contents,       \* initial contents of each disk, a set per disk
  Faults,         \* which faults of the machine may happen
  ModuleCount,    \* modules in /YAOSHI-MODULES
  Deadline,       \* the 10 s of source discovery, in passes or timeouts
  StopTicks,      \* the 15 s of BLOCKING_STOP_POWEROFF_TIMEOUT, in redraws
  MaxHotplug,     \* bound: attach and detach events
  MaxBoots        \* bound: boots of the medium

NoSlot == 0

ASSUME SlotsAssumption == Slots \subseteq Nat \ {NoSlot}
ASSUME DisksAssumption ==
  /\ NoDisk \notin Disks
  /\ Sector512 \subseteq Disks
  /\ BigEnough \subseteq Disks
  /\ Larger \subseteq BigEnough
  /\ Unreliable \subseteq Disks
ASSUME StableIdAssumption ==
  \A d, e \in Disks : StableId[d] = StableId[e] /\ StableId[d] # NoId => d = e
ASSUME BoundsAssumption ==
  /\ ModuleCount \in Nat
  /\ Deadline \in Nat
  /\ StopTicks \in Nat
  /\ MaxHotplug \in Nat
  /\ MaxBoots \in Nat

Regions == {"head", "body", "imgTail", "end"}
\* "grown" is a primary GPT whose alternate is the end of the disk, "yaoshi"
\* in "head" one whose alternate is the end of the image span; "torn" is a
\* region some, but not all, of whose sectors were overwritten.
Bytes == {"foreign", "zero", "media", "yaoshi", "grown", "torn"}

Attachment == {f \in [Slots -> Disks \cup {NoDisk}] :
                 \A s, t \in Slots : f[s] = f[t] /\ f[s] # NoDisk => s = t}

ASSUME LayoutsAssumption == Layouts \subseteq Attachment
ASSUME ContentsAssumption ==
  Contents \in [Disks -> SUBSET [Regions -> Bytes]]

Statuses == {"Absent", "Selectable", "InstallerMedia", "InstalledTarget",
             "BlockedByInstalledTarget", "TooSmall", "UnsupportedSectorSize",
             "NoStableId", "ReadError"}
Focuses == {"ConfirmTarget", "Refresh", "PowerOff", "Back", "Erase",
            "Destructive", "ChooseTarget", "Reboot"}
Reasons == {"none", "module-load-failed", "disk-inspection-failed",
            "installation-media-not-found", "installation-media-ambiguous",
            "selected-disk-changed", "payload-validation-failed",
            "target-open-failed", "target-write-failed", "internal-error"}

Preparing == {"startup", "modules", "discover", "probe",
              "inspect", "attached", "classify"}
Verifying == {"reread", "conflict", "revalidate", "validate", "open"}
Writing   == {"begin", "scrubHead", "scrubTail",
              "copyHead", "copyBody", "copyTail", "finalize", "close"}
Ending    == {"unsupported", "fatal", "stopped", "exiting"}
Phases    == Preparing \cup Verifying \cup Writing \cup Ending
               \cup {"select", "confirm", "done", "off", "halted"}

VARIABLES
  pc,         \* the point the main thread has reached
  attached,   \* which physical disk is behind each kernel name
  disk,       \* what a read of each disk returns
  durable,    \* what each disk would keep over a power cut
  hotplugs, boots,
  mods,       \* modules loaded
  ticks,      \* what is left of the running deadline
  todo,       \* records the running scan has still to probe
  found,      \* sources found in this discovery pass
  source,     \* the slot Source.disk names
  cand,       \* the records behind the candidate list, taken at inspection
  status,     \* CandidateStatus of each record
  installedSeen,   \* installed_target_attached / conflicting_installed_target
  selected, focus, \* selection and focus of the scene on screen
  target,     \* slot of the candidate cloned into confirm_loop
  op,         \* which destructive action was activated
  reread,     \* the listing the write transaction verifies against
  opened,     \* the disk the write descriptor leads to, if it is still there
  marked,     \* TARGET_WRITE_STARTED has been emitted in this transaction
  stop        \* the Stopped scene: reason and rendered write state

\* History variables: nothing in the code reads them.
VARIABLES
  sourceDisk, \* the disk found in slot source
  moved,      \* sourceDisk was attached again under another name
  touched,    \* disks this transaction has written to
  missed,     \* installed targets this transaction's scan failed to see
  onlyEnter   \* since boot the operator has pressed no key but Enter

machineVars == <<attached, disk, durable, hotplugs, boots>>
scanVars    == <<mods, ticks, todo, found, source, cand, status, installedSeen>>
sceneVars   == <<selected, focus, target, op>>
txnVars     == <<reread, opened, marked, touched, missed>>
ghostVars   == <<sourceDisk, moved, onlyEnter>>
vars == <<pc, machineVars, scanVars, sceneVars, txnVars, ghostVars, stop>>

NoListing == [s \in Slots |-> NoDisk]
NotStopped == [reason |-> "none", started |-> FALSE]

MachineOK ==
  /\ attached \in Attachment
  /\ disk \in [Disks -> [Regions -> Bytes]]
  /\ durable \in [Disks -> [Regions -> Bytes]]
  /\ hotplugs \in Nat /\ boots \in Nat
ScanOK ==
  /\ mods \in Nat /\ ticks \in Nat
  /\ todo \subseteq Slots /\ found \subseteq Slots
  /\ source \in Slots \cup {NoSlot}
  /\ cand \in [Slots -> Disks \cup {NoDisk}]
  /\ status \in [Slots -> Statuses]
  /\ installedSeen \in BOOLEAN
SceneOK ==
  /\ selected \in Nat /\ focus \in Focuses
  /\ target \in Slots \cup {NoSlot}
  /\ op \in {"none", "install", "erase"}
TransactionOK ==
  /\ reread \in [Slots -> Disks \cup {NoDisk}]
  /\ opened \in Disks \cup {NoDisk}
  /\ marked \in BOOLEAN
  /\ touched \subseteq Disks /\ missed \subseteq Disks \cup {NoDisk}
HistoryOK ==
  /\ sourceDisk \in Disks \cup {NoDisk}
  /\ moved \in BOOLEAN /\ onlyEnter \in BOOLEAN

TypeOK ==
  /\ pc \in Phases
  /\ MachineOK /\ ScanOK /\ SceneOK /\ TransactionOK /\ HistoryOK
  /\ stop \in [reason : Reasons, started : BOOLEAN]

-----------------------------------------------------------------------------
(* What the code reads from a disk.                                        *)

\* is_yaoshi_installed_target: parse_gpt_physical wants the primary GPT and a
\* matching backup where the primary says its alternate is.
IsInstalled(c) ==
  \/ c["head"] = "yaoshi" /\ c["imgTail"] = "yaoshi"
  \/ c["head"] = "grown" /\ c["end"] = "yaoshi"

\* source_from_mbr: the installer MBR shape and payload metadata that validate.
IsSource(c) == c["head"] = "media" /\ c["body"] = "media"

\* The last region of a disk: the image tail when the image fills the disk.
LastRegion(d) == IF d \in Larger THEN "end" ELSE "imgTail"

\* The answers of is_yaoshi_installed_target_with_timeout on a device path.
InstalledAnswers(s) ==
  IF attached[s] = NoDisk THEN {FALSE}
  ELSE {IsInstalled(disk[attached[s]])}
         \cup (IF attached[s] \in Unreliable THEN {FALSE} ELSE {})

\* Whether classify_existing_partition_table_with_timeout returns Ok.
ClassifyAnswers(s) ==
  IF attached[s] = NoDisk THEN {FALSE}
  ELSE {TRUE} \cup (IF attached[s] \in Unreliable THEN {FALSE} ELSE {})

\* Records of list_whole_disk_records with read_error set.
BadRecords == {s \in Slots : attached[s] \in Unreliable}

\* list_whole_disks: the records that could be read.
Listing(bad) == [s \in Slots |-> IF s \in bad THEN NoDisk ELSE attached[s]]

Listed(listing) == {s \in Slots : listing[s] # NoDisk}

IsNext(s, scan) == s \in scan /\ \A t \in scan : s <= t

-----------------------------------------------------------------------------
(* What a scene offers.                                                    *)

ActionStatuses == {"Selectable", "InstalledTarget", "BlockedByInstalledTarget"}

target_action_disks == {s \in Slots : status[s] \in ActionStatuses}

RowOf(s) == Cardinality({t \in target_action_disks : t < s})

next_choose_focus(f, hasDisks) ==
  IF hasDisks
  THEN CASE f = "ConfirmTarget" -> "Refresh"
         [] f = "Refresh" -> "PowerOff"
         [] OTHER -> "ConfirmTarget"
  ELSE IF f = "PowerOff" THEN "Refresh" ELSE "PowerOff"

next_install_focus(f, installEnabled) ==
  CASE f = "Back" -> "Erase"
    [] f = "Erase" /\ installEnabled -> "Destructive"
    [] f = "Erase" /\ ~installEnabled -> "PowerOff"
    [] f = "Destructive" -> "PowerOff"
    [] OTHER -> "Back"

next_done_focus(operation, f) ==
  IF operation = "install"
  THEN IF f = "PowerOff" THEN "Reboot" ELSE "PowerOff"
  ELSE CASE f = "ChooseTarget" -> "Reboot"
         [] f = "Reboot" -> "PowerOff"
         [] OTHER -> "ChooseTarget"

\* failure_page, then wait_failure_exit with its automatic poweroff.
StopWith(reason, started) ==
  /\ pc' = "stopped"
  /\ stop' = [reason |-> reason, started |-> started]

\* controlled_exit and fatal_startup_poweroff call sync() before reboot().
SyncAll ==
  durable' = [d \in Disks |->
                IF \E s \in Slots : attached[s] = d THEN disk[d] ELSE durable[d]]

-----------------------------------------------------------------------------
(* Power, and starting up (bootstrap.rs run).                              *)

Init ==
  /\ pc = "off"
  /\ attached \in Layouts
  /\ disk \in {f \in [Disks -> UNION {Contents[d] : d \in Disks}] :
                 \A d \in Disks : f[d] \in Contents[d]}
  /\ durable = disk
  /\ hotplugs = 0 /\ boots = 0
  /\ mods = 0 /\ ticks = 0
  /\ todo = {} /\ found = {} /\ source = NoSlot
  /\ cand = NoListing /\ status = [s \in Slots |-> "Absent"]
  /\ installedSeen = FALSE
  /\ selected = 0 /\ focus = "Refresh" /\ target = NoSlot /\ op = "none"
  /\ reread = NoListing /\ opened = NoDisk /\ marked = FALSE
  /\ stop = NotStopped
  /\ sourceDisk = NoDisk /\ moved = FALSE /\ onlyEnter = TRUE
  /\ touched = {} /\ missed = {}

\* The firmware boots the medium, and a boot starts from nothing but what the
\* disks hold.
Boot ==
  /\ pc = "off" /\ boots < MaxBoots
  /\ \E s \in Slots : attached[s] # NoDisk /\ disk[attached[s]]["head"] = "media"
  /\ pc' = "startup" /\ boots' = boots + 1
  /\ mods' = 0 /\ ticks' = 0
  /\ todo' = {} /\ found' = {} /\ source' = NoSlot
  /\ cand' = NoListing /\ status' = [s \in Slots |-> "Absent"]
  /\ installedSeen' = FALSE
  /\ selected' = 0 /\ focus' = "Refresh" /\ target' = NoSlot /\ op' = "none"
  /\ reread' = NoListing /\ opened' = NoDisk /\ marked' = FALSE
  /\ stop' = NotStopped
  /\ sourceDisk' = NoDisk /\ moved' = FALSE /\ onlyEnter' = TRUE
  /\ touched' = {} /\ missed' = {}
  /\ UNCHANGED <<attached, disk, durable, hotplugs>>

\* Any step before the first frame whose error run() returns.
StartupFails ==
  /\ pc = "startup" /\ "startup" \in Faults
  /\ pc' = "fatal"
  /\ UNCHANGED <<machineVars, scanVars, sceneVars, txnVars, ghostVars, stop>>

UnsupportedDisplay ==
  /\ pc = "startup" /\ "display" \in Faults
  /\ pc' = "unsupported" /\ ticks' = StopTicks
  /\ UNCHANGED <<machineVars, sceneVars, txnVars, ghostVars, stop,
                 mods, todo, found, source, cand, status, installedSeen>>

FirstFrame ==
  /\ pc = "startup"
  /\ pc' = "modules"
  /\ UNCHANGED <<machineVars, scanVars, sceneVars, txnVars, ghostVars, stop>>

\* load_modules: the last module starts the 10 s of discover_source.
LoadModule ==
  /\ pc = "modules" /\ mods < ModuleCount
  /\ mods' = mods + 1
  /\ IF mods + 1 = ModuleCount
     THEN pc' = "discover" /\ ticks' = Deadline
     ELSE UNCHANGED <<pc, ticks>>
  /\ UNCHANGED <<machineVars, sceneVars, txnVars, ghostVars, stop,
                 todo, found, source, cand, status, installedSeen>>

\* An empty list, a bad path, a loader error or its 30 s timeout.
ModuleLoadFails ==
  /\ pc = "modules" /\ (ModuleCount = 0 \/ "module" \in Faults)
  /\ StopWith("module-load-failed", FALSE) /\ ticks' = StopTicks
  /\ UNCHANGED <<machineVars, sceneVars, txnVars, ghostVars,
                 mods, todo, found, source, cand, status, installedSeen>>

\* A render that fails inside load_modules or discover_source.
PrepareRenderFails ==
  /\ pc \in {"modules", "discover", "probe"} /\ "render" \in Faults
  /\ StopWith(IF pc = "modules" THEN "module-load-failed" ELSE "internal-error",
              FALSE)
  /\ ticks' = StopTicks
  /\ UNCHANGED <<machineVars, sceneVars, txnVars, ghostVars,
                 mods, todo, found, source, cand, status, installedSeen>>

\* A render whose error reaches run(): before discovery, in every scene outside
\* the write transaction, and the first frame of the Stopped and Done scenes.
RenderFails ==
  /\ "render" \in Faults
  /\ \/ pc \in {"inspect", "select", "confirm", "close"}
     \/ pc = "discover" /\ ticks = Deadline
     \/ pc = "stopped" /\ ticks = StopTicks
  /\ pc' = "fatal"
  /\ opened' = NoDisk
  /\ UNCHANGED <<machineVars, scanVars, sceneVars, ghostVars, stop,
                 reread, marked, touched, missed>>

\* handle_preparing_input: Enter powers off while the medium is prepared.
PrepareEnter ==
  /\ pc \in {"modules", "discover", "probe"}
  /\ pc' = "exiting"
  /\ UNCHANGED <<machineVars, scanVars, sceneVars, txnVars, ghostVars, stop>>

-----------------------------------------------------------------------------
(* discover_source: passes over the whole disks until exactly one of them  *)
(* is installer media.                                                     *)

DiscoverList ==
  /\ pc = "discover"
  /\ \E bad \in SUBSET BadRecords :
       todo' = {s \in Listed(Listing(bad)) : attached[s] \in Sector512}
  /\ found' = {} /\ sourceDisk' = NoDisk
  /\ pc' = "probe"
  /\ UNCHANGED <<machineVars, sceneVars, txnVars, moved, onlyEnter, stop,
                 mods, ticks, source, cand, status, installedSeen>>

\* /sys/block cannot be read, in discovery or in inspection.
ListFails ==
  /\ pc \in {"discover", "inspect"} /\ "list" \in Faults
  /\ StopWith("disk-inspection-failed", FALSE) /\ ticks' = StopTicks
  /\ UNCHANGED <<machineVars, sceneVars, txnVars, ghostVars,
                 mods, todo, found, source, cand, status, installedSeen>>

\* probe_source_with_timeout on one record; with no time left the pass breaks.
ProbeSource ==
  /\ pc = "probe" /\ ticks > 0
  /\ \E s \in Slots :
       /\ IsNext(s, todo)
       /\ todo' = todo \ {s}
       /\ LET d == attached[s]
              answers == d # NoDisk /\ IsSource(disk[d])
          IN \/ /\ answers
                /\ found' = found \cup {s} /\ sourceDisk' = d
                /\ UNCHANGED ticks
             \/ /\ ~answers
                /\ UNCHANGED <<found, sourceDisk, ticks>>
             \/ /\ d \in Unreliable
                /\ ticks' = ticks - 1
                /\ UNCHANGED <<found, sourceDisk>>
  /\ UNCHANGED <<pc, machineVars, sceneVars, txnVars, moved, onlyEnter, stop,
                 mods, source, cand, status, installedSeen>>

PassIsOver == pc = "probe" /\ (todo = {} \/ ticks = 0)

SourceDiscovered ==
  /\ PassIsOver
  /\ \E s \in found : found = {s} /\ source' = s
  /\ pc' = "inspect" /\ todo' = {}
  /\ UNCHANGED <<machineVars, sceneVars, txnVars, ghostVars, stop,
                 mods, ticks, found, cand, status, installedSeen>>

SourceAmbiguous ==
  /\ PassIsOver
  /\ \E s, t \in found : s # t
  /\ StopWith("installation-media-ambiguous", FALSE) /\ ticks' = StopTicks
  /\ UNCHANGED <<machineVars, sceneVars, txnVars, ghostVars,
                 mods, todo, found, source, cand, status, installedSeen>>

SourceNotFound ==
  /\ PassIsOver
  /\ found = {} /\ ticks = 0
  /\ StopWith("installation-media-not-found", FALSE) /\ ticks' = StopTicks
  /\ UNCHANGED <<machineVars, sceneVars, txnVars, ghostVars,
                 mods, todo, found, source, cand, status, installedSeen>>

\* Mutant: every pass starts a new deadline.
NextPass_NewDeadline ==
  /\ PassIsOver
  /\ found = {} /\ ticks > 0
  /\ ticks' = Deadline /\ pc' = "discover"
  /\ UNCHANGED <<machineVars, sceneVars, txnVars, ghostVars, stop,
                 mods, todo, found, source, cand, status, installedSeen>>

\* sleep_with_preparing_input, then the next pass.
NextPass ==
  /\ PassIsOver
  /\ found = {} /\ ticks > 0
  /\ ticks' = ticks - 1 /\ pc' = "discover"
  /\ UNCHANGED <<machineVars, sceneVars, txnVars, ghostVars, stop,
                 mods, todo, found, source, cand, status, installedSeen>>

-----------------------------------------------------------------------------
(* inspect_disks: one listing, one scan for an installed target, and then a *)
(* status for each record; every probe reads the device path again.        *)

\* Mutant: the source is classified like any other disk.
InspectList_SourceOffered ==
  /\ pc = "inspect"
  /\ \E bad \in SUBSET BadRecords :
       /\ cand' = attached
       /\ status' = [s \in Slots |-> IF s \in bad THEN "ReadError" ELSE "Absent"]
       /\ todo' = Listed(Listing(bad)) \ {source}
  /\ installedSeen' = FALSE
  /\ pc' = "attached"
  /\ UNCHANGED <<machineVars, sceneVars, txnVars, ghostVars, stop,
                 mods, ticks, found, source>>

InspectList ==
  /\ pc = "inspect"
  /\ \E bad \in SUBSET BadRecords :
       /\ cand' = attached
       /\ status' = [s \in Slots |-> IF s \in bad THEN "ReadError"
                                     ELSE IF attached[s] # NoDisk /\ s = source
                                     THEN "InstallerMedia" ELSE "Absent"]
       /\ todo' = Listed(Listing(bad)) \ {source}
  /\ installedSeen' = FALSE
  /\ pc' = "attached"
  /\ UNCHANGED <<machineVars, sceneVars, txnVars, ghostVars, stop,
                 mods, ticks, found, source>>

\* records.iter().any(..): the first installed target ends the scan.
AttachedProbe ==
  /\ pc = "attached"
  /\ \E s \in Slots :
       /\ IsNext(s, todo)
       /\ installedSeen' \in InstalledAnswers(s)
       /\ todo' = IF installedSeen' THEN {} ELSE todo \ {s}
  /\ UNCHANGED <<pc, machineVars, sceneVars, txnVars, ghostVars, stop,
                 mods, ticks, found, source, cand, status>>

AttachedDone ==
  /\ pc = "attached" /\ todo = {}
  /\ pc' = "classify"
  /\ UNCHANGED <<machineVars, scanVars, sceneVars, txnVars, ghostVars, stop>>

Unclassified == {s \in Slots : cand[s] # NoDisk /\ status[s] = "Absent"}

\* The status of a readable record that is not the source, in the order the
\* code tests for them; both probes may be given up.
ClassifiedAs(s) ==
  (IF TRUE \in InstalledAnswers(s) THEN {"InstalledTarget"} ELSE {})
  \cup
  (IF FALSE \notin InstalledAnswers(s) THEN {}
   ELSE IF installedSeen THEN {"BlockedByInstalledTarget"}
   ELSE IF cand[s] \notin Sector512 THEN {"UnsupportedSectorSize"}
   ELSE IF cand[s] \notin BigEnough THEN {"TooSmall"}
   ELSE IF StableId[cand[s]] = NoId THEN {"NoStableId"}
   ELSE {IF ok THEN "Selectable" ELSE "ReadError" : ok \in ClassifyAnswers(s)})

ClassifyRecord ==
  /\ pc = "classify"
  /\ \E s \in Slots :
       /\ IsNext(s, Unclassified)
       /\ \E st \in ClassifiedAs(s) : status' = [status EXCEPT ![s] = st]
  /\ UNCHANGED <<pc, machineVars, sceneVars, txnVars, ghostVars, stop,
                 mods, ticks, todo, found, source, cand, installedSeen>>

InspectDone ==
  /\ pc = "classify" /\ Unclassified = {}
  /\ pc' = "select"
  /\ selected' = 0
  /\ focus' = IF target_action_disks = {} THEN "Refresh" ELSE "ConfirmTarget"
  /\ target' = NoSlot /\ op' = "none"
  /\ UNCHANGED <<machineVars, scanVars, txnVars, ghostVars, stop>>

-----------------------------------------------------------------------------
(* select_loop and confirm_loop: the operator's keys.                      *)

\* Mutant: ArrowUp subtracts without saturating.
SelectArrow_Wraps ==
  /\ pc = "select"
  /\ selected' \in {selected - 1, selected + 1}
  /\ onlyEnter' = FALSE
  /\ UNCHANGED <<pc, machineVars, scanVars, txnVars, sourceDisk, moved, stop,
                 focus, target, op>>

SelectArrow ==
  /\ pc = "select"
  /\ \/ selected > 0 /\ selected' = selected - 1
     \/ /\ selected + 1 < Cardinality(target_action_disks)
        /\ selected' = selected + 1
  /\ onlyEnter' = FALSE
  /\ UNCHANGED <<pc, machineVars, scanVars, txnVars, sourceDisk, moved, stop,
                 focus, target, op>>

SelectTab ==
  /\ pc = "select"
  /\ focus' = next_choose_focus(focus, target_action_disks # {})
  /\ onlyEnter' = FALSE
  /\ UNCHANGED <<pc, machineVars, scanVars, txnVars, sourceDisk, moved, stop,
                 selected, target, op>>

\* Mutant: the confirmation scene is entered on its first destructive action.
ConfirmTarget_OnErase ==
  /\ pc = "select" /\ focus = "ConfirmTarget"
  /\ \E s \in target_action_disks : RowOf(s) = selected /\ target' = s
  /\ pc' = "confirm" /\ focus' = "Erase"
  /\ UNCHANGED <<machineVars, scanVars, txnVars, ghostVars, stop, selected, op>>

\* Enter on ConfirmTarget clones the selected candidate into confirm_loop.
ConfirmTarget ==
  /\ pc = "select" /\ focus = "ConfirmTarget"
  /\ \E s \in target_action_disks : RowOf(s) = selected /\ target' = s
  /\ pc' = "confirm" /\ focus' = "Back"
  /\ UNCHANGED <<machineVars, scanVars, txnVars, ghostVars, stop, selected, op>>

Refresh ==
  /\ pc = "select" /\ focus = "Refresh"
  /\ pc' = "inspect"
  /\ UNCHANGED <<machineVars, scanVars, sceneVars, txnVars, ghostVars, stop>>

\* Enter on PowerOff, in either scene.
ChoosePowerOff ==
  /\ pc \in {"select", "confirm"} /\ focus = "PowerOff"
  /\ pc' = "exiting"
  /\ UNCHANGED <<machineVars, scanVars, sceneVars, txnVars, ghostVars, stop>>

ConfirmTab ==
  /\ pc = "confirm"
  /\ focus' = next_install_focus(focus, status[target] = "Selectable")
  /\ onlyEnter' = FALSE
  /\ UNCHANGED <<pc, machineVars, scanVars, txnVars, sourceDisk, moved, stop,
                 selected, target, op>>

\* Back shows the candidates, the selection and the focus select_loop kept.
ConfirmBack ==
  /\ pc = "confirm" /\ focus = "Back"
  /\ pc' = "select" /\ focus' = "ConfirmTarget" /\ target' = NoSlot
  /\ UNCHANGED <<machineVars, scanVars, txnVars, ghostVars, stop, selected, op>>

EnterErase ==
  /\ pc = "confirm" /\ focus = "Erase"
  /\ pc' = "reread" /\ op' = "erase"
  /\ UNCHANGED <<machineVars, scanVars, txnVars, ghostVars, stop,
                 selected, focus, target>>

EnterInstall ==
  /\ pc = "confirm" /\ focus = "Destructive"
  /\ status[target] = "Selectable"
  /\ pc' = "reread" /\ op' = "install"
  /\ UNCHANGED <<machineVars, scanVars, txnVars, ghostVars, stop,
                 selected, focus, target>>

-----------------------------------------------------------------------------
(* prepare_write_target and prepare_erase_target: the verify-target task.  *)

\* What a transaction that ends in the Stopped scene leaves alone.
StopTransaction(reason, started) ==
  /\ StopWith(reason, started)
  /\ ticks' = StopTicks /\ opened' = NoDisk
  /\ UNCHANGED <<attached, durable, hotplugs, boots, sceneVars, ghostVars,
                 mods, todo, found, source, cand, status, installedSeen,
                 reread, marked, missed>>

\* list_whole_disks for the transaction; only an install scans for rivals.
Reread ==
  /\ pc = "reread"
  /\ \E bad \in SUBSET BadRecords : reread' = Listing(bad)
  /\ marked' = FALSE /\ touched' = {} /\ missed' = {}
  /\ installedSeen' = FALSE
  /\ IF op = "install"
     THEN pc' = "conflict" /\ todo' = Listed(reread') \ {source}
     ELSE pc' = "revalidate" /\ UNCHANGED todo
  /\ UNCHANGED <<machineVars, sceneVars, ghostVars, stop, opened,
                 mods, ticks, found, source, cand, status>>

RereadFails ==
  /\ pc = "reread" /\ "list" \in Faults
  /\ StopTransaction("selected-disk-changed", FALSE)
  /\ UNCHANGED <<disk, touched>>

\* conflicting_installed_target: every listed disk but the source is read,
\* the target too, until one holds an installed target.
ConflictProbe ==
  /\ pc = "conflict"
  /\ \E s \in Slots :
       /\ IsNext(s, todo)
       /\ installedSeen' \in InstalledAnswers(s)
       /\ todo' = IF installedSeen' THEN {} ELSE todo \ {s}
       /\ missed' = IF ~installedSeen' /\ IsInstalled(disk[reread[s]])
                    THEN missed \cup {reread[s]} ELSE missed
  /\ UNCHANGED <<pc, machineVars, sceneVars, ghostVars, stop,
                 mods, ticks, found, source, cand, status,
                 reread, opened, marked, touched>>

ConflictDone ==
  /\ pc = "conflict" /\ todo = {}
  /\ pc' = "revalidate"
  /\ UNCHANGED <<machineVars, scanVars, sceneVars, txnVars, ghostVars, stop>>

\* Mutant: the stable id is not compared.
TargetUnchanged_ByNameOnly ==
  LET d == reread[target] IN
  /\ d # NoDisk
  /\ d \in Sector512
  /\ op = "install" => d \in BigEnough /\ target # source /\ ~installedSeen

\* Mutant: the scan for rivals is made and its answer is not used.
TargetUnchanged_RivalsAllowed ==
  LET d == reread[target] IN
  /\ d # NoDisk
  /\ d \in Sector512
  /\ StableId[d] = StableId[cand[target]]
  /\ op = "install" => d \in BigEnough /\ target # source

\* The re-read record of the target against the confirmed one.  Slots stand
\* for sysfs_path, major_minor and kernel_name, so ~same_kernel_disk with the
\* source is a comparison of slots.
TargetUnchanged ==
  LET d == reread[target] IN
  /\ d # NoDisk
  /\ d \in Sector512
  /\ StableId[d] = StableId[cand[target]]
  /\ op = "install" => d \in BigEnough /\ target # source /\ ~installedSeen

Revalidate ==
  /\ pc = "revalidate"
  /\ TargetUnchanged /\ TRUE \in ClassifyAnswers(target)
  /\ pc' = IF op = "install" THEN "validate" ELSE "open"
  /\ UNCHANGED <<machineVars, scanVars, sceneVars, txnVars, ghostVars, stop>>

RevalidateFails ==
  /\ pc = "revalidate"
  /\ ~TargetUnchanged \/ FALSE \in ClassifyAnswers(target)
  /\ StopTransaction("selected-disk-changed", FALSE)
  /\ UNCHANGED <<disk, touched>>

SourceReadable == source \in Listed(attached) /\ IsSource(disk[attached[source]])

ValidatePayload ==
  /\ pc = "validate" /\ SourceReadable
  /\ pc' = "open"
  /\ UNCHANGED <<machineVars, scanVars, sceneVars, txnVars, ghostVars, stop>>

ValidateFails ==
  /\ pc = "validate"
  /\ ~SourceReadable \/ attached[source] \in Unreliable
  /\ StopTransaction("payload-validation-failed", FALSE)
  /\ UNCHANGED <<disk, touched>>

\* The descriptor leads to whichever disk has the name at this moment.
OpenTarget ==
  /\ pc = "open" /\ target \in Listed(attached)
  /\ opened' = attached[target]
  /\ pc' = "begin"
  /\ UNCHANGED <<machineVars, scanVars, sceneVars, ghostVars, stop,
                 reread, marked, touched, missed>>

OpenFails ==
  /\ pc = "open"
  /\ target \notin Listed(attached) \/ attached[target] \in Unreliable
  /\ StopTransaction("target-open-failed", FALSE)
  /\ UNCHANGED <<disk, touched>>

-----------------------------------------------------------------------------
(* write_target and erase_target.  A region is written in one step; what a *)
(* failed write leaves is the old region or a torn one.                    *)

\* VerifyTarget done, TARGET_WRITE_STARTED.
BeginWrite ==
  /\ pc = "begin"
  /\ pc' = "scrubHead" /\ marked' = TRUE
  /\ UNCHANGED <<machineVars, scanVars, sceneVars, ghostVars, stop,
                 reread, opened, touched, missed>>

\* render_target_write_progress: an install renders before it marks, before
\* the copy and after the sync; a render inside the copy may fail unnoticed.
WriteRenderFails ==
  /\ "render" \in Faults
  /\ \/ pc \in {"scrubHead", "scrubTail", "finalize"}
     \/ op = "install" /\ pc \in {"begin", "copyHead", "close"}
  /\ StopTransaction("target-write-failed", TRUE)
  /\ UNCHANGED <<disk, touched>>

Overwrite(phase, region, byte, next) ==
  /\ pc = phase /\ opened # NoDisk
  /\ disk' = [disk EXCEPT ![opened][region] = byte]
  /\ touched' = touched \cup {opened}
  /\ pc' = next
  /\ UNCHANGED <<attached, durable, hotplugs, boots, scanVars, sceneVars,
                 ghostVars, stop, reread, opened, marked, missed>>

\* Mutant: both operations clear the end of the disk.
TailRegion_DiskEnd == LastRegion(opened)

TailRegion == IF op = "install" THEN "imgTail" ELSE LastRegion(opened)

ScrubHead == Overwrite("scrubHead", "head", "zero", "scrubTail")
ScrubTail == Overwrite("scrubTail", TailRegion, "zero",
                       IF op = "install" THEN "copyHead" ELSE "finalize")

\* write_payload_region_to_target: extents in ascending order over the whole
\* image span, read from the source's device path.
CopyHead == Overwrite("copyHead", "head", "yaoshi", "copyBody") /\ SourceReadable
CopyBody == Overwrite("copyBody", "body", "yaoshi", "copyTail") /\ SourceReadable
CopyTail == Overwrite("copyTail", "imgTail", "yaoshi", "finalize") /\ SourceReadable

\* A write that fails part of the way.
Spoil(region) ==
  \/ opened = NoDisk /\ UNCHANGED <<disk, touched>>
  \/ /\ opened # NoDisk
     /\ \E b \in {disk[opened][region], "torn"} :
          disk' = [disk EXCEPT ![opened][region] = b]
     /\ touched' = touched \cup {opened}

\* Mutant: a write to a disk that is gone is waited for.
TargetFails_Waits == opened \in Unreliable

TargetFails == opened = NoDisk \/ opened \in Unreliable

ScrubFails ==
  /\ TargetFails
  /\ \/ pc = "scrubHead" /\ Spoil("head")
     \/ pc = "scrubTail" /\ Spoil(TailRegion)
  /\ StopTransaction("target-write-failed", TRUE)

\* Mutant: a payload that fails to copy is reported like one refused before.
CopyFails_AsRefused ==
  /\ pc \in {"copyHead", "copyBody", "copyTail"}
  /\ TargetFails \/ ~SourceReadable \/ attached[source] \in Unreliable
  /\ \/ pc = "copyHead" /\ Spoil("head")
     \/ pc = "copyBody" /\ Spoil("body")
     \/ pc = "copyTail" /\ Spoil("imgTail")
  /\ StopTransaction("payload-validation-failed", FALSE)

\* Every error of the copy is mapped to the one reason, whichever disk failed.
CopyFails ==
  /\ pc \in {"copyHead", "copyBody", "copyTail"}
  /\ TargetFails \/ ~SourceReadable \/ attached[source] \in Unreliable
  /\ \/ pc = "copyHead" /\ Spoil("head")
     \/ pc = "copyBody" /\ Spoil("body")
     \/ pc = "copyTail" /\ Spoil("imgTail")
  /\ StopTransaction("payload-validation-failed", TRUE)

\* Mutant: sync_all is left to the later global sync.
SyncTarget_Deferred ==
  /\ pc = "finalize" /\ opened # NoDisk
  /\ pc' = "close"
  /\ UNCHANGED <<machineVars, scanVars, sceneVars, txnVars, ghostVars, stop>>

\* sync_all on the target descriptor.
SyncTarget ==
  /\ pc = "finalize" /\ opened # NoDisk
  /\ durable' = [durable EXCEPT ![opened] = disk[opened]]
  /\ pc' = "close"
  /\ UNCHANGED <<attached, disk, hotplugs, boots, scanVars, sceneVars, txnVars,
                 ghostVars, stop>>

SyncFails ==
  /\ pc = "finalize" /\ TargetFails
  /\ StopTransaction("target-write-failed", TRUE)
  /\ UNCHANGED <<disk, touched>>

\* syncfs, sync and drop(target_file); COMPLETE and the Done scene.
CloseTarget ==
  /\ pc = "close"
  /\ SyncAll
  /\ pc' = "done" /\ opened' = NoDisk
  /\ focus' = IF op = "install" THEN "Reboot" ELSE "ChooseTarget"
  /\ UNCHANGED <<attached, disk, hotplugs, boots, scanVars, ghostVars, stop,
                 selected, target, op, reread, marked, touched, missed>>

-----------------------------------------------------------------------------
(* wait_complete_exit, wait_failure_exit and the exits.                    *)

DoneTab ==
  /\ pc = "done"
  /\ focus' = next_done_focus(op, focus)
  /\ onlyEnter' = FALSE
  /\ UNCHANGED <<pc, machineVars, scanVars, txnVars, sourceDisk, moved, stop,
                 selected, target, op>>

\* ConfirmResult::ChooseTarget: the transaction is over.
DoneChooseTarget ==
  /\ pc = "done" /\ focus = "ChooseTarget"
  /\ pc' = "inspect" /\ touched' = {}
  /\ UNCHANGED <<machineVars, scanVars, sceneVars, ghostVars, stop,
                 reread, opened, marked, missed>>

DoneExit ==
  /\ pc = "done" /\ focus \in {"Reboot", "PowerOff"}
  /\ pc' = "exiting"
  /\ UNCHANGED <<machineVars, scanVars, sceneVars, txnVars, ghostVars, stop>>

\* Mutant: the countdown is drawn and nothing happens at its end.
StopTick_NoPoweroff ==
  /\ pc \in {"stopped", "unsupported"}
  /\ ticks > 0 /\ ticks' = ticks - 1 /\ UNCHANGED pc
  /\ UNCHANGED <<machineVars, sceneVars, txnVars, ghostVars, stop,
                 mods, todo, found, source, cand, status, installedSeen>>

\* One redraw of the remaining seconds, of the Stopped scene or of the
\* unsupported-display page; at the deadline the exit scene.
StopTick ==
  /\ pc \in {"stopped", "unsupported"}
  /\ IF ticks > 0 THEN ticks' = ticks - 1 /\ UNCHANGED pc
                  ELSE pc' = "exiting" /\ UNCHANGED ticks
  /\ UNCHANGED <<machineVars, sceneVars, txnVars, ghostVars, stop,
                 mods, todo, found, source, cand, status, installedSeen>>

\* Mutant: Enter in the Stopped scene goes back to the target list.
StopEnter_Retries ==
  /\ pc \in {"stopped", "unsupported"}
  /\ pc' = "inspect"
  /\ UNCHANGED <<machineVars, scanVars, sceneVars, txnVars, ghostVars, stop>>

StopEnter ==
  /\ pc \in {"stopped", "unsupported"}
  /\ pc' = "exiting"
  /\ UNCHANGED <<machineVars, scanVars, sceneVars, txnVars, ghostVars, stop>>

\* fatal_startup_poweroff sleeps 15 s before it syncs.
FatalTimeout ==
  /\ pc = "fatal"
  /\ pc' = "exiting"
  /\ UNCHANGED <<machineVars, scanVars, sceneVars, txnVars, ghostVars, stop>>

\* controlled_exit: sync, then reboot(2), which should not return.
ControlledExit ==
  /\ pc = "exiting"
  /\ SyncAll
  /\ pc' \in {"off"} \cup (IF "reboot" \in Faults THEN {"halted"} ELSE {})
  /\ UNCHANGED <<attached, disk, hotplugs, boots, scanVars, sceneVars, txnVars,
                 ghostVars, stop>>

-----------------------------------------------------------------------------
(* The machine room: disks come and go, and power is cut.                  *)

\* What is left of a disk whose unwritten pages are lost.
Survivors(d) ==
  {c \in [Regions -> Bytes] :
     \A r \in Regions : c[r] \in IF disk[d][r] = durable[d][r] THEN {disk[d][r]}
                                 ELSE {disk[d][r], durable[d][r], "torn"}}

Dirty == {d \in Disks : disk[d] # durable[d]}

Unplug(s) ==
  /\ hotplugs < MaxHotplug /\ hotplugs' = hotplugs + 1
  /\ attached[s] # NoDisk
  /\ attached' = [attached EXCEPT ![s] = NoDisk]
  /\ LET d == attached[s] IN
     /\ \E c \in Survivors(d) : /\ disk' = [disk EXCEPT ![d] = c]
                                /\ durable' = [durable EXCEPT ![d] = c]
     /\ opened' = IF opened = d THEN NoDisk ELSE opened
  /\ UNCHANGED <<pc, boots, scanVars, sceneVars, ghostVars, stop,
                 reread, marked, touched, missed>>

Plug(s, d) ==
  /\ hotplugs < MaxHotplug /\ hotplugs' = hotplugs + 1
  /\ attached[s] = NoDisk /\ \A t \in Slots : attached[t] # d
  /\ attached' = [attached EXCEPT ![s] = d]
  /\ moved' = (moved \/ (d = sourceDisk /\ s \notin found))
  /\ UNCHANGED <<pc, disk, durable, boots, scanVars, sceneVars, txnVars,
                 sourceDisk, onlyEnter, stop>>

PowerCut ==
  /\ pc # "off" /\ boots < MaxBoots
  /\ \E f \in [Dirty -> UNION {Survivors(d) : d \in Dirty}] :
       /\ \A d \in Dirty : f[d] \in Survivors(d)
       /\ disk' = [d \in Disks |-> IF d \in Dirty THEN f[d] ELSE disk[d]]
       /\ durable' = disk'
  /\ pc' = "off"
  /\ UNCHANGED <<attached, hotplugs, boots, scanVars, sceneVars, txnVars,
                 ghostVars, stop>>

-----------------------------------------------------------------------------

Preparation ==
  \/ StartupFails \/ UnsupportedDisplay \/ FirstFrame
  \/ LoadModule \/ ModuleLoadFails
  \/ DiscoverList \/ ListFails \/ ProbeSource
  \/ SourceDiscovered \/ SourceAmbiguous \/ SourceNotFound \/ NextPass
  \/ InspectList \/ AttachedProbe \/ AttachedDone
  \/ ClassifyRecord \/ InspectDone

Transaction ==
  \/ Reread \/ RereadFails \/ ConflictProbe \/ ConflictDone
  \/ Revalidate \/ RevalidateFails \/ ValidatePayload \/ ValidateFails
  \/ OpenTarget \/ OpenFails
  \/ BeginWrite \/ ScrubHead \/ ScrubTail \/ ScrubFails
  \/ CopyHead \/ CopyBody \/ CopyTail \/ CopyFails
  \/ SyncTarget \/ SyncFails \/ CloseTarget

Exit == StopTick \/ FatalTimeout \/ ControlledExit

\* The main thread's own steps: the ones it takes without a key or a fault.
Program == Preparation \/ Transaction \/ Exit

Operator ==
  \/ PrepareEnter
  \/ SelectArrow \/ SelectTab \/ ConfirmTarget \/ Refresh \/ ChoosePowerOff
  \/ ConfirmTab \/ ConfirmBack \/ EnterErase \/ EnterInstall
  \/ DoneTab \/ DoneChooseTarget \/ DoneExit \/ StopEnter

Failure == PrepareRenderFails \/ RenderFails \/ WriteRenderFails

Environment ==
  \/ Boot
  \/ \E s \in Slots : Unplug(s) \/ \E d \in Disks : Plug(s, d)
  \/ PowerCut

Next == Program \/ Operator \/ Failure \/ Environment

Spec == Init /\ [][Next]_vars

\* The main thread never blocks in a step of Program: every wait in one has a
\* timeout, and the kernel schedules the only thread that is ready.
FairSpec == Spec /\ WF_vars(Program)

-----------------------------------------------------------------------------
(* Safety.                                                                 *)

\* A transaction writes to one disk.  When the disk the descriptor was opened
\* on is still the one the transaction re-read, and it has an identity, it is
\* the disk the operator saw in the confirmation scene, whatever was unplugged
\* and plugged in since the inspection (write.rs prepare_write_target).
ConfirmedDiskOnly ==
  \A d \in touched :
    /\ touched = {d}
    /\ d = reread[target] /\ StableId[d] # NoId => d = cand[target]

\* The medium the payload is read from is never written to, by an install or
\* by an erase, unless it was attached again under a second kernel name: the
\* code knows its source by slot (same_kernel_disk) and not by identity.
SourceSpared == sourceDisk \in touched => moved

\* When the Stopped scene tells the operator that no target write started, the
\* transaction has not changed a byte (select.rs passes the flag by hand at
\* eight places).
StoppedNeverHidesWrites == pc = "stopped" /\ ~stop.started => touched = {}

\* Pressing nothing but Enter, at any moment and however often, starts no
\* transaction: no scene is entered with a destructive action focused.
EnterAloneIsHarmless == onlyEnter => op = "none" /\ touched = {}

\* An install does not begin beside a listed installed target unless a probe
\* of it gave no answer: an installed system is not duplicated on the machine.
RivalsOnlyIfMissed ==
  op = "install" /\ pc \in Writing =>
    \A s \in Listed(reread) \ {source} :
      IsInstalled(disk[reread[s]]) /\ reread[s] \notin touched
        => reread[s] \in missed

WholeImage == [r \in {"head", "body", "imgTail"} |-> "yaoshi"]

\* The Done scene is shown only for what a power cut can no longer take away:
\* the whole image after an install, both ends of the disk zero after an erase.
DoneMeansDurable ==
  pc = "done" =>
    \E d \in Disks :
      /\ touched = {d}
      /\ op = "install" => \A r \in DOMAIN WholeImage :
                             durable[d][r] = WholeImage[r]
      /\ op = "erase" => /\ durable[d]["head"] = "zero"
                         /\ durable[d][LastRegion(d)] = "zero"

\* No disk comes to the machine half installed.
HonestContents ==
  \A d \in Disks : \A c \in Contents[d] : IsInstalled(c) => c["body"] = "yaoshi"

\* While power and attachment last, a disk reads as an installed target only
\* when its image is complete: an install that stops half way, over whatever
\* earlier installations and erasures left, is offered again for an install.
LooksInstalledOnlyWhenWhole ==
  boots = 1 /\ pc # "off" /\ hotplugs = 0 =>
    \A d \in Disks : IsInstalled(disk[d]) => disk[d]["body"] = "yaoshi"

-----------------------------------------------------------------------------
(* The promise: the scenes of select.rs as verdicts on the write.          *)

Verdict ==
  CASE pc \in {"exiting", "off", "halted", "fatal", "unsupported"} -> "down"
    [] pc = "stopped" -> IF stop.started THEN "failed" ELSE "refused"
    [] pc = "done"    -> "complete"
    [] OTHER          -> "open"

Promise == INSTANCE WriteVerdict WITH verdict <- Verdict, written <- touched

\* The installer implements WriteVerdict: no write after a verdict, none but
\* to one disk per operation, and no refusal after a write.
PromiseKept == Promise!Spec

-----------------------------------------------------------------------------
(* Liveness, under FairSpec.                                               *)

\* Preparation ends in the target scene or in an end that needs no key,
\* whatever disks time out or come and go (a bounded number of times).
PreparationSettles ==
  pc \in Preparing ~> pc \in {"select", "off", "halted"}

\* The installer's automatic poweroff: a Stopped scene, an unsupported display
\* and a startup failure end without a key.
StopPowersOff == pc \in Ending ~> pc \in {"off", "halted"}

\* A write transaction, once activated, comes to Done or to a poweroff.
TransactionSettles ==
  pc \in Verifying \cup Writing ~> pc \in {"done", "off", "halted"}

=============================================================================
