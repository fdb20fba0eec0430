--------------------------- MODULE InstallerProofs ---------------------------
(***************************************************************************)
(* Theorems about Installer, for any number of disks and slots, any        *)
(* pattern of hot plugging, faults and power cuts: what every variable is; *)
(* from the inductive invariants WriteInv and WrittenInv, what a write     *)
(* transaction may write to and what the operator is told about it; from   *)
(* those of the disks, what it leaves there and what a power cut takes     *)
(* away; what Enter alone does, that the medium is spared, and that the    *)
(* runtime implements WriteVerdict.                                        *)
(***************************************************************************)
EXTENDS Installer, TLAPS

-----------------------------------------------------------------------------
(* Type correctness.                                                       *)

\* A machine that is off has every variable at a value of its type.
LEMMA InitTypeOK == Init => TypeOK
<1> SUFFICES ASSUME Init PROVE TypeOK
  OBVIOUS
<1>1. pc \in Phases
  BY DEF Init, Phases
<1>2. disk \in [Disks -> [Regions -> Bytes]]
  <2>1. \A d \in Disks : disk[d] \in [Regions -> Bytes]
    BY ContentsAssumption DEF Init
  <2>2. disk \in [Disks -> UNION {Contents[d] : d \in Disks}]
    BY DEF Init
  <2> QED BY <2>1, <2>2
<1>3. MachineOK
  BY <1>2, LayoutsAssumption DEF Init, MachineOK
<1>4. ScanOK
  BY DEF Init, ScanOK, Statuses, NoListing
<1>5. SceneOK
  BY DEF Init, SceneOK, Focuses
<1>6. TransactionOK
  BY DEF Init, TransactionOK, NoListing
<1>7. HistoryOK
  BY DEF Init, HistoryOK
<1>8. stop \in [reason : Reasons, started : BOOLEAN]
  BY DEF Init, NotStopped, Reasons
<1> QED
  BY <1>1, <1>3, <1>4, <1>5, <1>6, <1>7, <1>8 DEF TypeOK

\* A transaction that ends in the Stopped scene.
LEMMA StopTransactionTypeOK ==
  ASSUME TypeOK, NEW r \in Reasons, NEW b \in BOOLEAN, StopTransaction(r, b),
         disk' \in [Disks -> [Regions -> Bytes]], touched' \subseteq Disks
  PROVE  TypeOK'
<1>1. pc' \in Phases /\ stop' \in [reason : Reasons, started : BOOLEAN]
  BY DEF StopTransaction, StopWith, Phases, Ending
<1>2. MachineOK' /\ ScanOK'
  BY BoundsAssumption DEF StopTransaction, TypeOK, MachineOK, ScanOK
<1>3. SceneOK' /\ HistoryOK'
  BY DEF StopTransaction, TypeOK, SceneOK, HistoryOK, sceneVars, ghostVars
<1>4. TransactionOK'
  BY DEF StopTransaction, TypeOK, TransactionOK
<1> QED
  BY <1>1, <1>2, <1>3, <1>4 DEF TypeOK

\* A region of the opened disk is written.
LEMMA OverwriteTypeOK ==
  ASSUME TypeOK, NEW phase \in Phases, NEW region \in Regions, NEW byte \in Bytes,
         NEW next \in Phases, Overwrite(phase, region, byte, next)
  PROVE  TypeOK'
<1>1. opened \in Disks
  BY DEF Overwrite, TypeOK, TransactionOK
<1>2. disk' \in [Disks -> [Regions -> Bytes]]
  BY <1>1 DEF Overwrite, TypeOK, MachineOK
<1>3. MachineOK'
  BY <1>2 DEF Overwrite, TypeOK, MachineOK
<1>4. TransactionOK'
  BY <1>1 DEF Overwrite, TypeOK, TransactionOK
<1>5. ScanOK' /\ SceneOK' /\ HistoryOK'
  BY DEF Overwrite, TypeOK, ScanOK, SceneOK, HistoryOK,
         scanVars, sceneVars, ghostVars
<1> QED
  BY <1>3, <1>4, <1>5 DEF Overwrite, TypeOK

\* A region that fails half way is still made of bytes of a disk.
LEMMA SpoilTypeOK ==
  ASSUME TypeOK, NEW region \in Regions, Spoil(region)
  PROVE  disk' \in [Disks -> [Regions -> Bytes]] /\ touched' \subseteq Disks
<1>1. CASE opened = NoDisk /\ UNCHANGED <<disk, touched>>
  BY <1>1 DEF TypeOK, MachineOK, TransactionOK
<1>2. CASE opened # NoDisk /\ ~(UNCHANGED <<disk, touched>> /\ opened = NoDisk)
  <2>1. opened \in Disks
    BY <1>2 DEF TypeOK, TransactionOK
  <2>2. PICK b \in {disk[opened][region], "torn"} :
          disk' = [disk EXCEPT ![opened][region] = b]
    BY <1>2 DEF Spoil
  <2>3. b \in Bytes
    BY <2>1 DEF TypeOK, MachineOK, Bytes
  <2>4. touched' = touched \cup {opened}
    BY <1>2 DEF Spoil
  <2> QED
    BY <2>1, <2>2, <2>3, <2>4 DEF TypeOK, MachineOK, TransactionOK
<1> QED
  BY <1>1, <1>2 DEF Spoil

\* A probe answers yes or no, if only because it was given up.
LEMMA AnswersAreBoolean == \A s \in Slots : InstalledAnswers(s) \subseteq BOOLEAN
BY DEF InstalledAnswers, IsInstalled

\* One case per step of bringing the medium up and inspecting the disks.
LEMMA PreparationTypeOK ==
  ASSUME TypeOK, Preparation
  PROVE  TypeOK'
<1> USE BoundsAssumption
        DEF TypeOK, MachineOK, ScanOK, SceneOK, TransactionOK, HistoryOK,
            machineVars, scanVars, sceneVars, txnVars, ghostVars,
            Phases, Preparing, Ending, Reasons, StopWith
<1>1. CASE StartupFails
  BY <1>1 DEF StartupFails
<1>2. CASE UnsupportedDisplay
  BY <1>2 DEF UnsupportedDisplay
<1>3. CASE FirstFrame
  BY <1>3 DEF FirstFrame
<1>4. CASE LoadModule
  BY <1>4 DEF LoadModule
<1>5. CASE ModuleLoadFails
  BY <1>5 DEF ModuleLoadFails
<1>6. CASE DiscoverList
  BY <1>6 DEF DiscoverList, Listed
<1>7. CASE ListFails
  BY <1>7 DEF ListFails
<1>8. CASE ProbeSource
  <2>1. PICK s \in Slots :
          /\ todo' = todo \ {s}
          /\ ticks' \in {ticks, ticks - 1}
          /\ \/ UNCHANGED <<found, sourceDisk>>
             \/ /\ attached[s] # NoDisk
                /\ found' = found \cup {s} /\ sourceDisk' = attached[s]
    BY <1>8 DEF ProbeSource
  <2>2. attached[s] \in Disks \cup {NoDisk}
    BY DEF Attachment
  <2>3. ScanOK' /\ HistoryOK'
    BY <1>8, <2>1, <2>2 DEF ProbeSource
  <2> QED
    BY <1>8, <2>3 DEF ProbeSource
<1>9. CASE SourceDiscovered
  BY <1>9 DEF SourceDiscovered
<1>10. CASE SourceAmbiguous
  BY <1>10 DEF SourceAmbiguous
<1>11. CASE SourceNotFound
  BY <1>11 DEF SourceNotFound
<1>12. CASE NextPass
  BY <1>12 DEF NextPass
<1>13. CASE InspectList
  <2>1. ScanOK'
    BY <1>13 DEF InspectList, Listed, Statuses, Attachment
  <2> QED
    BY <1>13, <2>1 DEF InspectList
<1>14. CASE AttachedProbe
  <2>1. installedSeen' \in BOOLEAN /\ todo' \subseteq Slots
    BY <1>14, AnswersAreBoolean DEF AttachedProbe
  <2> QED
    BY <1>14, <2>1 DEF AttachedProbe
<1>15. CASE AttachedDone
  BY <1>15 DEF AttachedDone
<1>16. CASE ClassifyRecord
  <2>1. PICK s \in Slots : \E st \in ClassifiedAs(s) :
          status' = [status EXCEPT ![s] = st]
    BY <1>16 DEF ClassifyRecord
  <2>2. ClassifiedAs(s) \subseteq Statuses
    BY DEF ClassifiedAs, Statuses
  <2>3. status' \in [Slots -> Statuses]
    BY <2>1, <2>2
  <2>4. ScanOK'
    BY <1>16, <2>3 DEF ClassifyRecord
  <2> QED
    BY <1>16, <2>4 DEF ClassifyRecord
<1>17. CASE InspectDone
  BY <1>17 DEF InspectDone, Focuses
<1> QED
  BY <1>1, <1>2, <1>3, <1>4, <1>5, <1>6, <1>7, <1>8, <1>9, <1>10, <1>11, <1>12, <1>13, <1>14, <1>15, <1>16, <1>17 DEF Preparation

\* One case per step of a write transaction.
LEMMA TransactionTypeOK ==
  ASSUME TypeOK, Transaction
  PROVE  TypeOK'
<1> USE BoundsAssumption
        DEF TypeOK, MachineOK, ScanOK, SceneOK, TransactionOK, HistoryOK,
            machineVars, scanVars, sceneVars, txnVars, ghostVars,
            Phases, Verifying, Writing
<1>1. CASE Reread
  <2>1. reread' \in [Slots -> Disks \cup {NoDisk}]
    BY <1>1 DEF Reread, Listing, Attachment
  <2>2. todo' \subseteq Slots /\ pc' \in Phases
    BY <1>1 DEF Reread, Listed
  <2> QED
    BY <1>1, <2>1, <2>2 DEF Reread
<1>2. CASE RereadFails
  <2>1. "selected-disk-changed" \in Reasons /\ FALSE \in BOOLEAN
    BY DEF Reasons
  <2> QED
    BY <1>2, <2>1, StopTransactionTypeOK DEF RereadFails
<1>3. CASE ConflictProbe
  <2>1. PICK s \in Slots :
          /\ IsNext(s, todo)
          /\ installedSeen' \in InstalledAnswers(s)
          /\ todo' = IF installedSeen' THEN {} ELSE todo \ {s}
          /\ missed' \in {missed, missed \cup {reread[s]}}
          /\ missed' # missed => IsInstalled(disk[reread[s]])
    BY <1>3 DEF ConflictProbe
  <2> QED
    BY <1>3, <2>1, AnswersAreBoolean DEF ConflictProbe
<1>4. CASE ConflictDone
  BY <1>4 DEF ConflictDone
<1>5. CASE Revalidate
  BY <1>5 DEF Revalidate
<1>6. CASE RevalidateFails
  <2>1. "selected-disk-changed" \in Reasons /\ FALSE \in BOOLEAN
    BY DEF Reasons
  <2> QED
    BY <1>6, <2>1, StopTransactionTypeOK DEF RevalidateFails
<1>7. CASE ValidatePayload
  BY <1>7 DEF ValidatePayload
<1>8. CASE ValidateFails
  <2>1. "payload-validation-failed" \in Reasons /\ FALSE \in BOOLEAN
    BY DEF Reasons
  <2> QED
    BY <1>8, <2>1, StopTransactionTypeOK DEF ValidateFails
<1>9. CASE OpenTarget
  <2>1. opened' \in Disks \cup {NoDisk}
    BY <1>9 DEF OpenTarget, Attachment, Listed
  <2> QED
    BY <1>9, <2>1 DEF OpenTarget
<1>10. CASE OpenFails
  <2>1. "target-open-failed" \in Reasons /\ FALSE \in BOOLEAN
    BY DEF Reasons
  <2> QED
    BY <1>10, <2>1, StopTransactionTypeOK DEF OpenFails
<1>11. CASE BeginWrite
  BY <1>11 DEF BeginWrite
<1>12. CASE ScrubHead
  <2>1. /\ "scrubHead" \in Phases /\ "scrubTail" \in Phases
        /\ "head" \in Regions /\ "zero" \in Bytes
    BY DEF Regions, Bytes
  <2> QED
    BY <1>12, <2>1, OverwriteTypeOK DEF ScrubHead
<1>13. CASE ScrubTail
  <2>1. /\ "scrubTail" \in Phases /\ "copyHead" \in Phases
        /\ "finalize" \in Phases /\ "zero" \in Bytes /\ TailRegion \in Regions
    BY DEF Regions, Bytes, TailRegion, LastRegion
  <2> QED
    BY <1>13, <2>1, OverwriteTypeOK DEF ScrubTail
<1>14. CASE ScrubFails
  <2>1. "target-write-failed" \in Reasons /\ TRUE \in BOOLEAN
        /\ "head" \in Regions /\ TailRegion \in Regions
    BY DEF Reasons, Regions, TailRegion, LastRegion
  <2>2. disk' \in [Disks -> [Regions -> Bytes]] /\ touched' \subseteq Disks
    BY <1>14, <2>1, SpoilTypeOK DEF ScrubFails
  <2> QED
    BY <1>14, <2>1, <2>2, StopTransactionTypeOK DEF ScrubFails
<1>15. CASE CopyHead
  <2>1. /\ "copyHead" \in Phases /\ "copyBody" \in Phases
        /\ "head" \in Regions /\ "yaoshi" \in Bytes
    BY DEF Regions, Bytes
  <2> QED
    BY <1>15, <2>1, OverwriteTypeOK DEF CopyHead
<1>16. CASE CopyBody
  <2>1. /\ "copyBody" \in Phases /\ "copyTail" \in Phases
        /\ "body" \in Regions /\ "yaoshi" \in Bytes
    BY DEF Regions, Bytes
  <2> QED
    BY <1>16, <2>1, OverwriteTypeOK DEF CopyBody
<1>17. CASE CopyTail
  <2>1. /\ "copyTail" \in Phases /\ "finalize" \in Phases
        /\ "imgTail" \in Regions /\ "yaoshi" \in Bytes
    BY DEF Regions, Bytes
  <2> QED
    BY <1>17, <2>1, OverwriteTypeOK DEF CopyTail
<1>18. CASE CopyFails
  <2>1. "payload-validation-failed" \in Reasons /\ TRUE \in BOOLEAN
        /\ "head" \in Regions /\ "body" \in Regions /\ "imgTail" \in Regions
    BY DEF Reasons, Regions
  <2>2. disk' \in [Disks -> [Regions -> Bytes]] /\ touched' \subseteq Disks
    BY <1>18, <2>1, SpoilTypeOK DEF CopyFails
  <2> QED
    BY <1>18, <2>1, <2>2, StopTransactionTypeOK DEF CopyFails
<1>19. CASE SyncTarget
  BY <1>19 DEF SyncTarget
<1>20. CASE SyncFails
  <2>1. "target-write-failed" \in Reasons /\ TRUE \in BOOLEAN
    BY DEF Reasons
  <2> QED
    BY <1>20, <2>1, StopTransactionTypeOK DEF SyncFails
<1>21. CASE CloseTarget
  BY <1>21 DEF CloseTarget, SyncAll, Focuses
<1> QED
  BY <1>1, <1>2, <1>3, <1>4, <1>5, <1>6, <1>7, <1>8, <1>9, <1>10, <1>11, <1>12, <1>13, <1>14, <1>15, <1>16, <1>17, <1>18, <1>19, <1>20, <1>21 DEF Transaction

\* The countdown stays a number.
LEMMA ExitTypeOK ==
  ASSUME TypeOK, Exit
  PROVE  TypeOK'
<1> USE BoundsAssumption
        DEF TypeOK, MachineOK, ScanOK, SceneOK, TransactionOK, HistoryOK,
            machineVars, scanVars, sceneVars, txnVars, ghostVars,
            Phases, Ending
<1>1. CASE StopTick
  BY <1>1 DEF StopTick
<1>2. CASE FatalTimeout
  BY <1>2 DEF FatalTimeout
<1>3. CASE ControlledExit
  BY <1>3 DEF ControlledExit, SyncAll
<1> QED
  BY <1>1, <1>2, <1>3 DEF Exit

\* Every key leads to a focus, a selection and a target that exist.
LEMMA OperatorTypeOK ==
  ASSUME TypeOK, Operator
  PROVE  TypeOK'
<1> USE BoundsAssumption
        DEF TypeOK, MachineOK, ScanOK, SceneOK, TransactionOK, HistoryOK,
            machineVars, scanVars, sceneVars, txnVars, ghostVars,
            Phases, Preparing, Verifying, Ending
<1>1. CASE PrepareEnter
  BY <1>1 DEF PrepareEnter
<1>2. CASE SelectArrow
  <2>1. selected' \in Nat
    BY <1>2 DEF SelectArrow
  <2> QED
    BY <1>2, <2>1, ZenonT(40) DEF SelectArrow
<1>3. CASE SelectTab
  <2>1. focus' \in Focuses
    BY <1>3 DEF SelectTab, next_choose_focus, Focuses
  <2> QED
    BY <1>3, <2>1, ZenonT(40) DEF SelectTab
<1>4. CASE ConfirmTarget
  BY <1>4 DEF ConfirmTarget, Focuses, target_action_disks
<1>5. CASE Refresh
  BY <1>5 DEF Refresh
<1>6. CASE ChoosePowerOff
  BY <1>6 DEF ChoosePowerOff
<1>7. CASE ConfirmTab
  <2>1. focus' \in Focuses
    BY <1>7 DEF ConfirmTab, next_install_focus, Focuses
  <2> QED
    BY <1>7, <2>1, ZenonT(40) DEF ConfirmTab
<1>8. CASE ConfirmBack
  BY <1>8 DEF ConfirmBack, Focuses
<1>9. CASE EnterErase
  BY <1>9 DEF EnterErase
<1>10. CASE EnterInstall
  BY <1>10 DEF EnterInstall
<1>11. CASE DoneTab
  <2>1. focus' \in Focuses
    BY <1>11 DEF DoneTab, next_done_focus, Focuses
  <2> QED
    BY <1>11, <2>1, ZenonT(40) DEF DoneTab
<1>12. CASE DoneChooseTarget
  BY <1>12 DEF DoneChooseTarget
<1>13. CASE DoneExit
  BY <1>13 DEF DoneExit
<1>14. CASE StopEnter
  BY <1>14 DEF StopEnter
<1> QED
  BY <1>1, <1>2, <1>3, <1>4, <1>5, <1>6, <1>7, <1>8, <1>9, <1>10, <1>11, <1>12, <1>13, <1>14 DEF Operator

\* A render that fails leaves a reason of failure_page.
LEMMA FailureTypeOK ==
  ASSUME TypeOK, Failure
  PROVE  TypeOK'
<1> USE BoundsAssumption
        DEF TypeOK, MachineOK, ScanOK, SceneOK, TransactionOK, HistoryOK,
            machineVars, scanVars, sceneVars, txnVars, ghostVars,
            Phases, Ending
<1>1. CASE PrepareRenderFails
  BY <1>1 DEF PrepareRenderFails, StopWith, Reasons
<1>2. CASE RenderFails
  BY <1>2 DEF RenderFails
<1>3. CASE WriteRenderFails
  <2>1. "target-write-failed" \in Reasons /\ TRUE \in BOOLEAN
    BY DEF Reasons
  <2> QED
    BY <1>3, <2>1, StopTransactionTypeOK DEF WriteRenderFails
<1> QED
  BY <1>1, <1>2, <1>3 DEF Failure

\* Whatever a crash keeps of a disk is a disk.
LEMMA SurvivorsTypeOK ==
  ASSUME NEW d \in Disks
  PROVE  Survivors(d) \subseteq [Regions -> Bytes]
BY DEF Survivors

\* Disks that come and go, and power that does, leave disks of bytes.
LEMMA EnvironmentTypeOK ==
  ASSUME TypeOK, Environment
  PROVE  TypeOK'
<1>1. CASE Boot
  <2>1. UNCHANGED <<attached, disk, durable, hotplugs>> /\ boots' \in Nat
    BY <1>1 DEF Boot, TypeOK, MachineOK
  <2>2. MachineOK'
    BY <2>1 DEF TypeOK, MachineOK
  <2>3. ScanOK'
    BY <1>1 DEF Boot, ScanOK, Statuses, NoListing
  <2>4. SceneOK'
    BY <1>1 DEF Boot, SceneOK, Focuses
  <2>5. TransactionOK'
    BY <1>1 DEF Boot, TransactionOK, NoListing
  <2>6. HistoryOK' /\ pc' \in Phases
    BY <1>1 DEF Boot, HistoryOK, Phases, Preparing
  <2>7. stop' \in [reason : Reasons, started : BOOLEAN]
    BY <1>1 DEF Boot, NotStopped, Reasons
  <2> QED
    BY <2>2, <2>3, <2>4, <2>5, <2>6, <2>7 DEF TypeOK
<1>2. ASSUME NEW s \in Slots, Unplug(s)
      PROVE  TypeOK'
  <2>1. attached[s] \in Disks
    BY <1>2 DEF Unplug, TypeOK, MachineOK, Attachment
  <2>2. PICK c \in Survivors(attached[s]) :
          /\ disk' = [disk EXCEPT ![attached[s]] = c]
          /\ durable' = [durable EXCEPT ![attached[s]] = c]
    BY <1>2 DEF Unplug
  <2>3. c \in [Regions -> Bytes]
    BY <2>1, SurvivorsTypeOK
  <2>4. attached' \in Attachment
    <3>1. attached \in [Slots -> Disks \cup {NoDisk}]
      BY DEF TypeOK, MachineOK, Attachment
    <3>2. attached' = [attached EXCEPT ![s] = NoDisk]
      BY <1>2 DEF Unplug
    <3>3. \A t, u \in Slots : attached[t] = attached[u] /\ attached[t] # NoDisk => t = u
      BY DEF TypeOK, MachineOK, Attachment
    <3> QED
      BY <3>1, <3>2, <3>3 DEF Attachment
  <2>5. MachineOK'
    <3>1. hotplugs' \in Nat /\ boots' \in Nat
      BY <1>2 DEF Unplug, TypeOK, MachineOK
    <3>2. disk' \in [Disks -> [Regions -> Bytes]]
      BY <2>1, <2>2, <2>3 DEF TypeOK, MachineOK
    <3>3. durable' \in [Disks -> [Regions -> Bytes]]
      BY <2>1, <2>2, <2>3 DEF TypeOK, MachineOK
    <3> QED
      BY <2>4, <3>1, <3>2, <3>3 DEF MachineOK
  <2>6. TransactionOK'
    BY <1>2 DEF Unplug, TypeOK, TransactionOK
  <2>7. ScanOK' /\ SceneOK' /\ HistoryOK'
    BY <1>2 DEF Unplug, TypeOK, ScanOK, SceneOK, HistoryOK,
                scanVars, sceneVars, ghostVars
  <2> QED
    BY <1>2, <2>5, <2>6, <2>7 DEF Unplug, TypeOK
<1>3. ASSUME NEW s \in Slots, NEW d \in Disks, Plug(s, d)
      PROVE  TypeOK'
  <2>1. attached' \in Attachment
    BY <1>3 DEF Plug, TypeOK, MachineOK, Attachment
  <2>2. MachineOK'
    BY <1>3, <2>1 DEF Plug, TypeOK, MachineOK
  <2>3. HistoryOK'
    BY <1>3 DEF Plug, TypeOK, HistoryOK
  <2>4. ScanOK' /\ SceneOK' /\ TransactionOK'
    BY <1>3 DEF Plug, TypeOK, ScanOK, SceneOK, TransactionOK,
                scanVars, sceneVars, txnVars
  <2> QED
    BY <1>3, <2>2, <2>3, <2>4 DEF Plug, TypeOK
<1>4. CASE PowerCut
  <2>1. PICK f \in [Dirty -> UNION {Survivors(d) : d \in Dirty}] :
          /\ \A d \in Dirty : f[d] \in Survivors(d)
          /\ disk' = [d \in Disks |-> IF d \in Dirty THEN f[d] ELSE disk[d]]
          /\ durable' = disk'
    BY <1>4 DEF PowerCut
  <2>2. \A d \in Dirty : f[d] \in [Regions -> Bytes]
    BY <2>1, SurvivorsTypeOK DEF Dirty
  <2>3. disk' \in [Disks -> [Regions -> Bytes]]
    BY <2>1, <2>2 DEF TypeOK, MachineOK
  <2>4. MachineOK'
    BY <1>4, <2>1, <2>3 DEF PowerCut, TypeOK, MachineOK
  <2>5. ScanOK' /\ SceneOK' /\ TransactionOK' /\ HistoryOK'
    BY <1>4 DEF PowerCut, TypeOK, ScanOK, SceneOK, TransactionOK, HistoryOK,
                scanVars, sceneVars, txnVars, ghostVars
  <2> QED
    BY <1>4, <2>4, <2>5 DEF PowerCut, TypeOK, Phases
<1> QED
  BY <1>1, <1>2, <1>3, <1>4 DEF Environment

\* TypeOK holds in every state, for any machine.
THEOREM TypeCorrectness == Spec => []TypeOK
<1>1. TypeOK /\ [Next]_vars => TypeOK'
  <2> SUFFICES ASSUME TypeOK, [Next]_vars PROVE TypeOK'
    OBVIOUS
  <2>1. CASE UNCHANGED vars
    BY <2>1 DEF vars, TypeOK, MachineOK, ScanOK, SceneOK, TransactionOK,
                HistoryOK, machineVars, scanVars, sceneVars, txnVars, ghostVars
  <2>2. CASE Next
    BY <2>2, PreparationTypeOK, TransactionTypeOK, ExitTypeOK, OperatorTypeOK,
       FailureTypeOK, EnvironmentTypeOK DEF Next, Program
  <2> QED
    BY <2>1, <2>2
<1> QED
  BY InitTypeOK, <1>1, PTL DEF Spec

-----------------------------------------------------------------------------
(* What a transaction writes to.                                           *)

\* Where the current transaction cannot have written yet.
Unwritten == Preparing \cup Verifying
               \cup {"select", "confirm", "begin", "unsupported"}
\* Where the re-read target has been compared with the confirmed one.
Verified == {"validate", "open"} \cup Writing

\* The identity check of verify-target outlives the check: from there on the
\* re-read target and the confirmed candidate have the same identity, nothing
\* the transaction keeps about them changes, and every write goes through the
\* one descriptor that was opened after it.
WriteInv ==
  /\ pc \in Unwritten => touched = {}
  /\ pc = "stopped" /\ ~stop.started => touched = {}
  /\ \A d, e \in touched : d = e
  /\ opened # NoDisk => pc \in Writing \cup {"off"} /\ touched \subseteq {opened}
  /\ touched # {} \/ pc \in Verified =>
       /\ target \in target_action_disks
       /\ reread[target] # NoDisk =>
            StableId[reread[target]] = StableId[cand[target]]
  /\ pc \in Verifying \cup {"confirm"} => target \in target_action_disks
  /\ \A s \in target_action_disks : cand[s] # NoDisk

\* Nothing is written when a machine has not started.
LEMMA InitWriteInv == Init => WriteInv
BY DEF Init, WriteInv, Unwritten, Preparing, Verifying, Verified, Writing,
       NotStopped, target_action_disks, ActionStatuses

\* Preparation writes nothing, and offers only what inspection listed.
LEMMA PreparationWriteInv ==
  ASSUME TypeOK, WriteInv, Preparation
  PROVE  WriteInv'
<1> USE DEF TypeOK, ScanOK, WriteInv, Unwritten, Verified, Preparing, Verifying,
            Writing, target_action_disks, ActionStatuses, StopWith,
            machineVars, scanVars, sceneVars, txnVars, ghostVars
<1>1. CASE StartupFails
  BY <1>1 DEF StartupFails
<1>2. CASE UnsupportedDisplay
  BY <1>2 DEF UnsupportedDisplay
<1>3. CASE FirstFrame
  BY <1>3 DEF FirstFrame
<1>4. CASE LoadModule
  BY <1>4 DEF LoadModule
<1>5. CASE ModuleLoadFails
  BY <1>5 DEF ModuleLoadFails
<1>6. CASE DiscoverList
  BY <1>6 DEF DiscoverList
<1>7. CASE ListFails
  BY <1>7 DEF ListFails
<1>8. CASE ProbeSource
  BY <1>8 DEF ProbeSource
<1>9. CASE SourceDiscovered
  BY <1>9 DEF SourceDiscovered, PassIsOver
<1>10. CASE SourceAmbiguous
  BY <1>10 DEF SourceAmbiguous, PassIsOver
<1>11. CASE SourceNotFound
  BY <1>11 DEF SourceNotFound, PassIsOver
<1>12. CASE NextPass
  BY <1>12 DEF NextPass, PassIsOver
<1>13. CASE InspectList
  BY <1>13 DEF InspectList
<1>14. CASE AttachedProbe
  BY <1>14 DEF AttachedProbe
<1>15. CASE AttachedDone
  BY <1>15 DEF AttachedDone
<1>16. CASE ClassifyRecord
  <2>1. PICK s \in Slots :
          /\ IsNext(s, Unclassified)
          /\ \E st \in ClassifiedAs(s) : status' = [status EXCEPT ![s] = st]
    BY <1>16 DEF ClassifyRecord
  <2>2. cand[s] # NoDisk
    BY <2>1 DEF IsNext, Unclassified
  <2>3. \A t \in Slots : t # s => status'[t] = status[t]
    BY <2>1
  <2>4. \A t \in target_action_disks' : cand'[t] # NoDisk
    BY <1>16, <2>2, <2>3 DEF ClassifyRecord
  <2>5. pc' = "classify" /\ touched' = {} /\ opened' = NoDisk
    BY <1>16 DEF ClassifyRecord
  <2> HIDE DEF target_action_disks
  <2> QED
    BY ONLY <2>4, <2>5 DEF WriteInv, Unwritten, Verified, Preparing, Verifying,
                           Writing
<1>17. CASE InspectDone
  BY <1>17 DEF InspectDone
<1> QED
  BY <1>1, <1>2, <1>3, <1>4, <1>5, <1>6, <1>7, <1>8, <1>9, <1>10, <1>11, <1>12, <1>13, <1>14, <1>15, <1>16, <1>17 DEF Preparation

\* Reread forgets the last transaction, Revalidate compares identities, and
\* every write after it goes through the opened descriptor.
LEMMA TransactionWriteInv ==
  ASSUME TypeOK, WriteInv, Transaction
  PROVE  WriteInv'
<1> USE DEF TypeOK, ScanOK, WriteInv, Unwritten, Verified, Preparing, Verifying,
            Writing, target_action_disks, ActionStatuses, StopWith,
            machineVars, scanVars, sceneVars, txnVars, ghostVars,
            StopTransaction, Overwrite, Spoil
<1>1. CASE Reread
  BY <1>1 DEF Reread
<1>2. CASE RereadFails
  BY <1>2 DEF RereadFails
<1>3. CASE ConflictProbe
  BY <1>3 DEF ConflictProbe
<1>4. CASE ConflictDone
  BY <1>4 DEF ConflictDone
<1>5. CASE Revalidate
  BY <1>5 DEF Revalidate, TargetUnchanged
<1>6. CASE RevalidateFails
  BY <1>6 DEF RevalidateFails
<1>7. CASE ValidatePayload
  BY <1>7 DEF ValidatePayload
<1>8. CASE ValidateFails
  BY <1>8 DEF ValidateFails
<1>9. CASE OpenTarget
  BY <1>9 DEF OpenTarget
<1>10. CASE OpenFails
  BY <1>10 DEF OpenFails
<1>11. CASE BeginWrite
  BY <1>11 DEF BeginWrite
<1>12. CASE ScrubHead
  BY <1>12 DEF ScrubHead
<1>13. CASE ScrubTail
  BY <1>13 DEF ScrubTail
<1>14. CASE ScrubFails
  BY <1>14 DEF ScrubFails
<1>15. CASE CopyHead
  BY <1>15 DEF CopyHead
<1>16. CASE CopyBody
  BY <1>16 DEF CopyBody
<1>17. CASE CopyTail
  BY <1>17 DEF CopyTail
<1>18. CASE CopyFails
  BY <1>18 DEF CopyFails
<1>19. CASE SyncTarget
  BY <1>19 DEF SyncTarget
<1>20. CASE SyncFails
  BY <1>20 DEF SyncFails
<1>21. CASE CloseTarget
  BY <1>21 DEF CloseTarget
<1> QED
  BY <1>1, <1>2, <1>3, <1>4, <1>5, <1>6, <1>7, <1>8, <1>9, <1>10, <1>11, <1>12, <1>13, <1>14, <1>15, <1>16, <1>17, <1>18, <1>19, <1>20, <1>21 DEF Transaction

\* On the way down nothing is written.
LEMMA ExitWriteInv ==
  ASSUME TypeOK, WriteInv, Exit
  PROVE  WriteInv'
<1> USE DEF TypeOK, ScanOK, WriteInv, Unwritten, Verified, Preparing, Verifying,
            Writing, target_action_disks, ActionStatuses, StopWith,
            machineVars, scanVars, sceneVars, txnVars, ghostVars
<1>1. CASE StopTick
  BY <1>1 DEF StopTick
<1>2. CASE FatalTimeout
  BY <1>2 DEF FatalTimeout
<1>3. CASE ControlledExit
  BY <1>3 DEF ControlledExit
<1> QED
  BY <1>1, <1>2, <1>3 DEF Exit

\* A target is confirmed among those on offer, and DoneChooseTarget ends the
\* transaction.
LEMMA OperatorWriteInv ==
  ASSUME TypeOK, WriteInv, Operator
  PROVE  WriteInv'
<1> USE DEF TypeOK, ScanOK, WriteInv, Unwritten, Verified, Preparing, Verifying,
            Writing, target_action_disks, ActionStatuses, StopWith,
            machineVars, scanVars, sceneVars, txnVars, ghostVars
<1>1. CASE PrepareEnter
  BY <1>1 DEF PrepareEnter
<1>2. CASE SelectArrow
  BY <1>2 DEF SelectArrow
<1>3. CASE SelectTab
  BY <1>3 DEF SelectTab
<1>4. CASE ConfirmTarget
  BY <1>4 DEF ConfirmTarget
<1>5. CASE Refresh
  BY <1>5 DEF Refresh
<1>6. CASE ChoosePowerOff
  BY <1>6 DEF ChoosePowerOff
<1>7. CASE ConfirmTab
  BY <1>7 DEF ConfirmTab
<1>8. CASE ConfirmBack
  BY <1>8 DEF ConfirmBack
<1>9. CASE EnterErase
  BY <1>9 DEF EnterErase
<1>10. CASE EnterInstall
  BY <1>10 DEF EnterInstall
<1>11. CASE DoneTab
  BY <1>11 DEF DoneTab
<1>12. CASE DoneChooseTarget
  BY <1>12 DEF DoneChooseTarget
<1>13. CASE DoneExit
  BY <1>13 DEF DoneExit
<1>14. CASE StopEnter
  BY <1>14 DEF StopEnter
<1> QED
  BY <1>1, <1>2, <1>3, <1>4, <1>5, <1>6, <1>7, <1>8, <1>9, <1>10, <1>11, <1>12, <1>13, <1>14 DEF Operator

\* A render that fails closes the descriptor.
LEMMA FailureWriteInv ==
  ASSUME TypeOK, WriteInv, Failure
  PROVE  WriteInv'
<1> USE DEF TypeOK, ScanOK, WriteInv, Unwritten, Verified, Preparing, Verifying,
            Writing, target_action_disks, ActionStatuses, StopWith,
            machineVars, scanVars, sceneVars, txnVars, ghostVars,
            StopTransaction, Overwrite, Spoil
<1>1. CASE PrepareRenderFails
  BY <1>1 DEF PrepareRenderFails
<1>2. CASE RenderFails
  BY <1>2 DEF RenderFails
<1>3. CASE WriteRenderFails
  BY <1>3 DEF WriteRenderFails
<1> QED
  BY <1>1, <1>2, <1>3 DEF Failure

\* A disk that moves takes the descriptor with it; a boot starts anew.
LEMMA EnvironmentWriteInv ==
  ASSUME TypeOK, WriteInv, Environment
  PROVE  WriteInv'
<1> USE DEF TypeOK, ScanOK, WriteInv, Unwritten, Verified, Preparing, Verifying,
            Writing, target_action_disks, ActionStatuses,
            machineVars, scanVars, sceneVars, txnVars, ghostVars
<1>1. CASE Boot
  BY <1>1 DEF Boot, NotStopped
<1>2. ASSUME NEW s \in Slots, Unplug(s)
      PROVE  WriteInv'
  BY <1>2 DEF Unplug
<1>3. ASSUME NEW s \in Slots, NEW d \in Disks, Plug(s, d)
      PROVE  WriteInv'
  BY <1>3 DEF Plug
<1>4. CASE PowerCut
  BY <1>4 DEF PowerCut
<1> QED
  BY <1>1, <1>2, <1>3, <1>4 DEF Environment

\* WriteInv is inductive beside TypeOK.
LEMMA NextWriteInv == TypeOK /\ WriteInv /\ [Next]_vars => WriteInv'
<1> SUFFICES ASSUME TypeOK, WriteInv, [Next]_vars PROVE WriteInv'
  OBVIOUS
<1>1. CASE UNCHANGED vars
  BY <1>1 DEF vars, WriteInv, target_action_disks,
              machineVars, scanVars, sceneVars, txnVars, ghostVars
<1>2. CASE Next
  BY <1>2, PreparationWriteInv, TransactionWriteInv, ExitWriteInv,
     OperatorWriteInv, FailureWriteInv, EnvironmentWriteInv DEF Next, Program
<1> QED
  BY <1>1, <1>2

\* What was verified stays verified until the descriptor is closed.
THEOREM WriteInvariant == Spec => []WriteInv
BY InitWriteInv, NextWriteInv, TypeCorrectness, PTL DEF Spec

\* One disk is written to, and if it is the one the transaction re-read and
\* has an identity, the operator confirmed it.
THEOREM OnlyTheConfirmedDisk == Spec => []ConfirmedDiskOnly
<1>1. TypeOK /\ WriteInv => ConfirmedDiskOnly
  <2> SUFFICES ASSUME TypeOK, WriteInv, NEW d \in touched
               PROVE  /\ touched = {d}
                      /\ d = reread[target] /\ StableId[d] # NoId => d = cand[target]
    BY DEF ConfirmedDiskOnly
  <2>1. touched = {d}
    BY DEF WriteInv
  <2>2. d \in Disks
    BY DEF TypeOK, TransactionOK
  <2>3. target \in target_action_disks
    BY DEF WriteInv
  <2>4. cand[target] \in Disks
    BY <2>3 DEF WriteInv, TypeOK, ScanOK, target_action_disks
  <2>5. d = reread[target] => StableId[d] = StableId[cand[target]]
    BY <2>2, DisksAssumption DEF WriteInv
  <2> QED
    BY <2>1, <2>2, <2>4, <2>5, StableIdAssumption
<1> QED
  BY <1>1, TypeCorrectness, WriteInvariant, PTL

\* A Stopped scene that denies writes tells the truth.
THEOREM NoHiddenWrites == Spec => []StoppedNeverHidesWrites
<1>1. WriteInv => StoppedNeverHidesWrites
  BY DEF WriteInv, StoppedNeverHidesWrites
<1> QED
  BY <1>1, WriteInvariant, PTL

-----------------------------------------------------------------------------
(* A transaction that comes to its end has written.                        *)

\* The head of the disk is scrubbed before anything else is written, so a
\* transaction that reaches the Done scene has written.
WrittenInv ==
  pc \in {"scrubTail", "copyHead", "copyBody", "copyTail",
          "finalize", "close", "done"} => touched # {}

\* Nothing is written yet when a machine has not started.
LEMMA InitWrittenInv == Init => WrittenInv
BY DEF Init, WrittenInv

\* Every later phase is reached through ScrubHead.
LEMMA NextWrittenInv == WrittenInv /\ [Next]_vars => WrittenInv'
<1> SUFFICES ASSUME WrittenInv, [Next]_vars PROVE WrittenInv'
  OBVIOUS
<1> USE DEF WrittenInv, machineVars, scanVars, sceneVars, txnVars, ghostVars
<1>1. CASE UNCHANGED vars
  BY <1>1 DEF vars
<1>2. CASE Preparation
  BY <1>2 DEF Preparation, StopWith, StartupFails, UnsupportedDisplay,
     FirstFrame, LoadModule, ModuleLoadFails, DiscoverList, ListFails,
     ProbeSource, PassIsOver, SourceDiscovered, SourceAmbiguous,
     SourceNotFound, NextPass, InspectList, AttachedProbe, AttachedDone,
     ClassifyRecord, InspectDone
<1>3. CASE Transaction
  <2> USE DEF StopTransaction, StopWith, Overwrite
  <2>1. CASE \/ Reread \/ RereadFails \/ ConflictProbe \/ ConflictDone
             \/ Revalidate \/ RevalidateFails \/ ValidatePayload
             \/ ValidateFails \/ OpenTarget \/ OpenFails \/ BeginWrite
    BY <2>1 DEF Reread, RereadFails, ConflictProbe, ConflictDone, Revalidate,
       RevalidateFails, ValidatePayload, ValidateFails, OpenTarget, OpenFails,
       BeginWrite
  <2>2. CASE \/ ScrubHead \/ ScrubTail \/ CopyHead \/ CopyBody \/ CopyTail
    BY <2>2 DEF ScrubHead, ScrubTail, CopyHead, CopyBody, CopyTail
  <2>3. CASE \/ ScrubFails \/ CopyFails \/ SyncTarget \/ SyncFails
             \/ CloseTarget
    BY <2>3 DEF ScrubFails, CopyFails, SyncTarget, SyncFails, CloseTarget
  <2> QED
    BY <1>3, <2>1, <2>2, <2>3 DEF Transaction
<1>4. CASE Exit
  BY <1>4 DEF Exit, StopTick, FatalTimeout, ControlledExit
<1>5. CASE Operator
  BY <1>5 DEF Operator, PrepareEnter, SelectArrow, SelectTab, ConfirmTarget,
     Refresh, ChoosePowerOff, ConfirmTab, ConfirmBack, EnterErase,
     EnterInstall, DoneTab, DoneChooseTarget, DoneExit, StopEnter
<1>6. CASE Failure
  BY <1>6 DEF Failure, PrepareRenderFails, RenderFails, WriteRenderFails,
     StopTransaction, StopWith
<1>7. CASE Environment
  BY <1>7 DEF Environment, Boot, Unplug, Plug, PowerCut
<1> QED
  BY <1>1, <1>2, <1>3, <1>4, <1>5, <1>6, <1>7 DEF Next, Program

-----------------------------------------------------------------------------
(* What a step does to the disks.                                          *)

\* Preparation reads disks and writes to none.
LEMMA PreparationLeavesDisks ==
  ASSUME Preparation
  PROVE  /\ UNCHANGED <<machineVars, txnVars>>
         /\ pc \in Preparing
         /\ pc' \in Preparing \cup {"select", "stopped", "fatal", "unsupported"}
<1> USE DEF Preparing, StopWith, PassIsOver,
            machineVars, scanVars, sceneVars, txnVars, ghostVars
<1>1. CASE \/ StartupFails \/ UnsupportedDisplay \/ FirstFrame
           \/ LoadModule \/ ModuleLoadFails
  BY <1>1 DEF StartupFails, UnsupportedDisplay, FirstFrame, LoadModule,
     ModuleLoadFails
<1>2. CASE DiscoverList \/ ListFails \/ ProbeSource
  BY <1>2 DEF DiscoverList, ListFails, ProbeSource
<1>3. CASE SourceDiscovered \/ SourceAmbiguous \/ SourceNotFound \/ NextPass
  BY <1>3 DEF SourceDiscovered, SourceAmbiguous, SourceNotFound, NextPass
<1>4. CASE \/ InspectList \/ AttachedProbe \/ AttachedDone
           \/ ClassifyRecord \/ InspectDone
  BY <1>4 DEF InspectList, AttachedProbe, AttachedDone, ClassifyRecord,
     InspectDone
<1> QED
  BY <1>1, <1>2, <1>3, <1>4 DEF Preparation

\* No key writes to a disk, and only DoneChooseTarget ends a transaction.
LEMMA OperatorLeavesDisks ==
  ASSUME Operator
  PROVE  /\ UNCHANGED <<machineVars, reread, opened, missed>>
         /\ \/ pc' = "done" /\ UNCHANGED <<pc, op, touched>>
            \/ /\ pc' \in {"inspect", "select", "confirm", "reread", "exiting"}
               /\ UNCHANGED touched
            \/ pc = "done" /\ pc' = "inspect" /\ touched' = {}
<1> USE DEF machineVars, scanVars, sceneVars, txnVars, ghostVars
<1>1. CASE \/ PrepareEnter \/ SelectArrow \/ SelectTab \/ ConfirmTarget
  BY <1>1 DEF PrepareEnter, SelectArrow, SelectTab, ConfirmTarget
<1>2. CASE Refresh
  BY <1>2 DEF Refresh
<1>3. CASE \/ ChoosePowerOff \/ ConfirmTab \/ ConfirmBack \/ EnterErase
           \/ EnterInstall
  BY <1>3 DEF ChoosePowerOff, ConfirmTab, ConfirmBack, EnterErase, EnterInstall
<1>4. CASE DoneTab \/ DoneChooseTarget \/ DoneExit \/ StopEnter
  BY <1>4 DEF DoneTab, DoneChooseTarget, DoneExit, StopEnter
<1> QED
  BY <1>1, <1>2, <1>3, <1>4 DEF Operator

\* A render that fails writes to no disk.
LEMMA FailureLeavesDisks ==
  ASSUME Failure
  PROVE  /\ UNCHANGED <<machineVars, touched>>
         /\ opened' \in {opened, NoDisk}
         /\ pc' \in {"stopped", "fatal"}
BY DEF Failure, PrepareRenderFails, RenderFails, WriteRenderFails,
       StopTransaction, StopWith, machineVars, txnVars

\* The steps of verify-target write to no disk.
Verify ==
  \/ Reread \/ RereadFails \/ ConflictProbe \/ ConflictDone
  \/ Revalidate \/ RevalidateFails \/ ValidatePayload \/ ValidateFails
  \/ OpenTarget \/ OpenFails

\* Only Reread begins a transaction, and only OpenTarget opens a disk.
LEMMA VerifyLeavesDisks ==
  ASSUME Verify
  PROVE  /\ UNCHANGED <<machineVars, op, source>>
         /\ pc \in Verifying
         /\ pc' \in Verifying \cup {"begin", "stopped"}
         /\ \/ touched' = touched
            \/ pc = "reread" /\ touched' = {}
         /\ \/ opened' \in {opened, NoDisk}
            \/ \E s \in Slots : attached[s] # NoDisk /\ opened' = attached[s]
<1> USE DEF Verifying, StopTransaction, StopWith,
            machineVars, scanVars, sceneVars, txnVars, ghostVars
<1>1. CASE Reread
  BY <1>1 DEF Reread
<1>2. CASE ConflictProbe \/ ConflictDone
  BY <1>2 DEF ConflictProbe, ConflictDone
<1>3. CASE \/ RereadFails \/ RevalidateFails \/ ValidateFails \/ OpenFails
  BY <1>3 DEF RereadFails, RevalidateFails, ValidateFails, OpenFails
<1>4. CASE Revalidate \/ ValidatePayload
  BY <1>4 DEF Revalidate, ValidatePayload
<1>5. CASE OpenTarget
  BY <1>5 DEF OpenTarget, Listed
<1> QED
  BY <1>1, <1>2, <1>3, <1>4, <1>5 DEF Verify

\* A write changes one region of the opened disk.
LEMMA OverwriteDisk ==
  ASSUME TypeOK, NEW phase, NEW region \in Regions, NEW byte, NEW next,
         Overwrite(phase, region, byte, next)
  PROVE  /\ opened \in Disks
         /\ disk'[opened][region] = byte
         /\ \A r \in Regions : r # region => disk'[opened][r] = disk[opened][r]
         /\ \A d \in Disks : d # opened => disk'[d] = disk[d]
BY DEF Overwrite, TypeOK, MachineOK, TransactionOK

\* A write that fails changes one region of the opened disk at most.
LEMMA SpoilDisk ==
  ASSUME TypeOK, NEW region \in Regions, Spoil(region)
  PROVE  /\ \A d \in Disks : d # opened => disk'[d] = disk[d]
         /\ opened # NoDisk =>
              /\ opened \in Disks
              /\ touched' = touched \cup {opened}
              /\ disk'[opened][region] \in {disk[opened][region], "torn"}
              /\ \A r \in Regions : r # region => disk'[opened][r] = disk[opened][r]
         /\ opened = NoDisk => UNCHANGED <<disk, touched>>
<1>1. CASE opened = NoDisk /\ UNCHANGED <<disk, touched>>
  BY <1>1, DisksAssumption
<1>2. CASE opened # NoDisk
  BY <1>2 DEF Spoil, TypeOK, MachineOK, TransactionOK
<1> QED
  BY <1>1, <1>2 DEF Spoil

\* A disk with nothing unwritten loses nothing when it is unplugged.
LEMMA UnplugDisk ==
  ASSUME TypeOK, NEW s \in Slots, Unplug(s)
  PROVE  /\ \A d \in Disks : d # attached[s] =>
              disk'[d] = disk[d] /\ durable'[d] = durable[d]
         /\ \A d \in Disks : disk[d] = durable[d] =>
              disk'[d] = disk[d] /\ durable'[d] = disk[d]
         /\ disk'[attached[s]] = durable'[attached[s]]
<1> DEFINE g == attached[s]
<1>1. g \in Disks
  BY DEF Unplug, TypeOK, MachineOK, Attachment
<1>2. PICK c \in Survivors(g) : /\ disk' = [disk EXCEPT ![g] = c]
                                /\ durable' = [durable EXCEPT ![g] = c]
  BY DEF Unplug
<1>3. disk \in [Disks -> [Regions -> Bytes]]
      /\ durable \in [Disks -> [Regions -> Bytes]]
  BY DEF TypeOK, MachineOK
<1>4. disk'[g] = c /\ durable'[g] = c
  BY <1>1, <1>2, <1>3
<1>5. \A d \in Disks : d # g => disk'[d] = disk[d] /\ durable'[d] = durable[d]
  BY <1>1, <1>2, <1>3
<1>6. disk[g] = durable[g] => c = disk[g]
  <2> SUFFICES ASSUME disk[g] = durable[g] PROVE c = disk[g]
    OBVIOUS
  <2>1. c \in [Regions -> Bytes] /\ disk[g] \in [Regions -> Bytes]
    BY <1>1, <1>3 DEF Survivors
  <2>2. \A r \in Regions : c[r] = disk[g][r]
    BY DEF Survivors
  <2> QED
    BY <2>1, <2>2
<1> QED
  BY <1>4, <1>5, <1>6

-----------------------------------------------------------------------------
(* What a power cut can take away.                                         *)

\* Only disks of the running transaction have something unwritten, and they
\* are in the machine, so that the syncs of controlled_exit and write_target
\* reach all of it.
CleanInv ==
  /\ \A d \in Disks : disk[d] # durable[d] =>
       d \in touched /\ \E s \in Slots : attached[s] = d
  /\ pc \in {"off", "done"} => \A d \in Disks : disk[d] = durable[d]
  /\ opened # NoDisk => \E s \in Slots : attached[s] = opened

\* A fresh machine has nothing unwritten.
LEMMA InitCleanInv == Init => CleanInv
BY DEF Init, CleanInv

\* sync() leaves nothing unwritten.
LEMMA SyncAllCleans ==
  ASSUME TypeOK, CleanInv, SyncAll, disk' = disk
  PROVE  \A d \in Disks : disk'[d] = durable'[d]
BY DEF SyncAll, CleanInv

\* A disk written to is the opened one, which is in the machine.
LEMMA WriteStaysClean ==
  ASSUME TypeOK, CleanInv, opened # NoDisk, touched' = touched \cup {opened},
         UNCHANGED <<attached, durable>>,
         \A d \in Disks : d # opened => disk'[d] = disk[d]
  PROVE  \A d \in Disks : disk'[d] # durable'[d] =>
           d \in touched' /\ \E s \in Slots : attached'[s] = d
BY DEF CleanInv

\* One case per step that writes, syncs, opens or moves a disk.
LEMMA TransactionCleanInv ==
  ASSUME TypeOK, WriteInv, CleanInv, Transaction
  PROVE  CleanInv'
<1>1. CASE Verify
  <2>1. /\ UNCHANGED <<attached, disk, durable>>
        /\ pc' \notin {"off", "done"}
        /\ touched' = touched
        /\ opened' # NoDisk => opened' = opened
             \/ \E s \in Slots : attached[s] = opened'
    BY <1>1, VerifyLeavesDisks DEF machineVars, Verifying, WriteInv, Unwritten
  <2> QED
    BY <2>1 DEF CleanInv
<1>2. CASE BeginWrite
  BY <1>2 DEF BeginWrite, CleanInv, machineVars
<1>3. CASE ScrubHead
  <2>1. Overwrite("scrubHead", "head", "zero", "scrubTail")
    BY <1>3 DEF ScrubHead
  <2> QED
    BY <2>1, OverwriteDisk, WriteStaysClean DEF Overwrite, CleanInv, Regions
<1>4. CASE ScrubTail
  <2>1. Overwrite("scrubTail", TailRegion, "zero",
                  IF op = "install" THEN "copyHead" ELSE "finalize")
    BY <1>4 DEF ScrubTail
  <2>2. TailRegion \in Regions
    BY DEF TailRegion, LastRegion, Regions
  <2> QED
    BY <2>1, <2>2, OverwriteDisk, WriteStaysClean DEF Overwrite, CleanInv
<1>5. CASE CopyHead
  <2>1. Overwrite("copyHead", "head", "yaoshi", "copyBody")
    BY <1>5 DEF CopyHead
  <2> QED
    BY <2>1, OverwriteDisk, WriteStaysClean DEF Overwrite, CleanInv, Regions
<1>6. CASE CopyBody
  <2>1. Overwrite("copyBody", "body", "yaoshi", "copyTail")
    BY <1>6 DEF CopyBody
  <2> QED
    BY <2>1, OverwriteDisk, WriteStaysClean DEF Overwrite, CleanInv, Regions
<1>7. CASE CopyTail
  <2>1. Overwrite("copyTail", "imgTail", "yaoshi", "finalize")
    BY <1>7 DEF CopyTail
  <2> QED
    BY <2>1, OverwriteDisk, WriteStaysClean DEF Overwrite, CleanInv, Regions
<1>8. CASE ScrubFails \/ CopyFails
  <2>1. PICK region \in Regions : Spoil(region)
    BY <1>8 DEF ScrubFails, CopyFails, TailRegion, LastRegion, Regions
  <2>2. UNCHANGED <<attached, durable>> /\ pc' = "stopped" /\ opened' = NoDisk
    BY <1>8 DEF ScrubFails, CopyFails, StopTransaction, StopWith
  <2>3. CASE opened = NoDisk
    BY <2>1, <2>2, <2>3, SpoilDisk DEF CleanInv
  <2>4. CASE opened # NoDisk
    BY <2>1, <2>2, <2>4, SpoilDisk, WriteStaysClean DEF CleanInv
  <2> QED
    BY <2>3, <2>4
<1>9. CASE SyncTarget
  <2>1. /\ UNCHANGED <<attached, disk, touched, opened>>
        /\ opened \in Disks /\ pc' = "close"
        /\ durable' = [durable EXCEPT ![opened] = disk[opened]]
    BY <1>9 DEF SyncTarget, txnVars, TypeOK, TransactionOK
  <2>2. \A d \in Disks : durable'[d] \in {durable[d], disk[d]}
    BY <2>1 DEF TypeOK, MachineOK
  <2> QED
    BY <2>1, <2>2 DEF CleanInv
<1>10. CASE SyncFails
  BY <1>10 DEF SyncFails, StopTransaction, StopWith, CleanInv
<1>11. CASE CloseTarget
  <2>1. SyncAll /\ disk' = disk /\ opened' = NoDisk
    BY <1>11 DEF CloseTarget
  <2> QED
    BY <2>1, SyncAllCleans DEF CleanInv
<1> QED
  BY <1>1, <1>2, <1>3, <1>4, <1>5, <1>6, <1>7, <1>8, <1>9, <1>10, <1>11
     DEF Transaction, Verify

\* An unplugged disk is off the descriptor, and what it lost is lost on both
\* sides; a power cut takes the unwritten part of every disk.
LEMMA EnvironmentCleanInv ==
  ASSUME TypeOK, CleanInv, Environment
  PROVE  CleanInv'
<1>1. CASE Boot
  BY <1>1 DEF Boot, CleanInv
<1>2. ASSUME NEW s \in Slots, Unplug(s)
      PROVE  CleanInv'
  <2>1. /\ UNCHANGED <<pc, touched>>
        /\ \A t \in Slots : t # s => attached'[t] = attached[t]
        /\ opened' = IF opened = attached[s] THEN NoDisk ELSE opened
    BY <1>2 DEF Unplug, txnVars, TypeOK, MachineOK, Attachment
  <2>2. /\ \A d \in Disks : d # attached[s] =>
             disk'[d] = disk[d] /\ durable'[d] = durable[d]
        /\ \A d \in Disks : disk[d] = durable[d] =>
             disk'[d] = disk[d] /\ durable'[d] = disk[d]
        /\ disk'[attached[s]] = durable'[attached[s]]
    BY <1>2, UnplugDisk
  <2>3. \A d \in Disks : disk'[d] # durable'[d] =>
          d \in touched' /\ \E t \in Slots : attached'[t] = d
    BY <2>1, <2>2 DEF CleanInv
  <2>4. pc' \in {"off", "done"} => \A d \in Disks : disk'[d] = durable'[d]
    BY <2>1, <2>2 DEF CleanInv
  <2>5. opened' # NoDisk => \E t \in Slots : attached'[t] = opened'
    BY <2>1 DEF CleanInv
  <2> QED
    BY <2>3, <2>4, <2>5 DEF CleanInv
<1>3. ASSUME NEW s \in Slots, NEW d \in Disks, Plug(s, d)
      PROVE  CleanInv'
  <2>1. /\ UNCHANGED <<pc, disk, durable, touched, opened>>
        /\ \A t \in Slots : attached[t] # NoDisk => attached'[t] = attached[t]
    BY <1>3 DEF Plug, txnVars, TypeOK, MachineOK, Attachment
  <2>2. \A e \in Disks : e # NoDisk
    BY DisksAssumption
  <2> QED
    BY <2>1, <2>2 DEF CleanInv
<1>4. CASE PowerCut
  BY <1>4 DEF PowerCut, CleanInv, txnVars
<1> QED
  BY <1>1, <1>2, <1>3, <1>4 DEF Environment

\* CleanInv is inductive beside TypeOK and WriteInv.
LEMMA NextCleanInv ==
  TypeOK /\ WriteInv /\ CleanInv /\ [Next]_vars => CleanInv'
<1> SUFFICES ASSUME TypeOK, WriteInv, CleanInv, [Next]_vars PROVE CleanInv'
  OBVIOUS
<1>1. CASE UNCHANGED vars
  BY <1>1 DEF vars, CleanInv, machineVars, txnVars
<1>2. CASE Preparation
  BY <1>2, PreparationLeavesDisks DEF CleanInv, machineVars, txnVars, Preparing
<1>3. CASE Exit
  <2>1. CASE StopTick \/ FatalTimeout
    BY <2>1 DEF StopTick, FatalTimeout, CleanInv, machineVars, txnVars
  <2>2. CASE ControlledExit
    BY <2>2, SyncAllCleans DEF ControlledExit, CleanInv, txnVars
  <2> QED
    BY <1>3, <2>1, <2>2 DEF Exit
<1>4. CASE Operator
  BY <1>4, OperatorLeavesDisks DEF CleanInv, machineVars
<1>5. CASE Failure
  BY <1>5, FailureLeavesDisks DEF CleanInv, machineVars
<1> QED
  BY <1>1, <1>2, <1>3, <1>4, <1>5, TransactionCleanInv, EnvironmentCleanInv
     DEF Next, Program

-----------------------------------------------------------------------------
(* Done means durable.                                                     *)

\* What an operation that has come to its end leaves on its disk.
Complete(d) ==
  /\ op = "install" => \A r \in DOMAIN WholeImage : disk[d][r] = WholeImage[r]
  /\ op = "erase" => disk[d]["head"] = "zero" /\ disk[d][LastRegion(d)] = "zero"

\* The regions that have been written when a phase begins, while the disk is
\* still behind the descriptor.
RegionsWritten ==
  opened # NoDisk =>
    /\ pc \in {"scrubTail", "copyHead"} => disk[opened]["head"] = "zero"
    /\ pc \in {"copyBody", "copyTail"} => disk[opened]["head"] = "yaoshi"
    /\ pc \in {"copyHead", "copyBody", "copyTail"} =>
         disk[opened]["imgTail"] = "zero"
    /\ pc = "copyTail" => disk[opened]["body"] = "yaoshi"
    /\ pc = "finalize" => Complete(opened)

\* The sync that opens the way to Done makes everything written durable, and
\* a disk that is pulled out afterwards keeps it.
ProgressInv ==
  /\ pc \in {"copyHead", "copyBody", "copyTail"} => op = "install"
  /\ RegionsWritten
  /\ pc \in {"close", "done"} =>
       \A d \in touched : disk[d] = durable[d] /\ Complete(d)

\* No phase of a write has begun.
LEMMA InitProgressInv == Init => ProgressInv
BY DEF Init, ProgressInv, RegionsWritten

\* Each write adds its region to those of the phase before it.
LEMMA WriteProgressInv ==
  ASSUME TypeOK, WriteInv, ProgressInv,
         \/ ScrubHead \/ ScrubTail \/ CopyHead \/ CopyBody \/ CopyTail
  PROVE  ProgressInv'
<1> USE DEF Regions
<1>1. CASE ScrubHead
  <2>1. Overwrite("scrubHead", "head", "zero", "scrubTail")
    BY <1>1 DEF ScrubHead
  <2>2. disk'[opened]["head"] = "zero"
    BY <2>1, OverwriteDisk
  <2>3. pc' = "scrubTail" /\ opened' = opened
    BY <2>1 DEF Overwrite
  <2> QED
    BY <2>2, <2>3 DEF ProgressInv, RegionsWritten
<1>2. CASE ScrubTail
  <2>1. Overwrite("scrubTail", TailRegion, "zero",
                  IF op = "install" THEN "copyHead" ELSE "finalize")
    BY <1>2 DEF ScrubTail
  <2>2. TailRegion \in Regions \ {"head"}
    BY DEF TailRegion, LastRegion
  <2>3. /\ opened \in Disks
        /\ disk'[opened][TailRegion] = "zero"
        /\ disk'[opened]["head"] = disk[opened]["head"]
    BY <2>1, <2>2, OverwriteDisk
  <2>4. disk[opened]["head"] = "zero"
    BY <2>1 DEF Overwrite, ProgressInv, RegionsWritten
  <2>5. /\ opened' = opened /\ op' = op
        /\ pc' = IF op = "install" THEN "copyHead" ELSE "finalize"
    BY <2>1 DEF Overwrite, sceneVars
  <2>6. CASE op = "install"
    BY <2>3, <2>4, <2>5, <2>6 DEF ProgressInv, RegionsWritten, TailRegion
  <2>7. CASE op # "install"
    <3>1. Complete(opened)'
      BY <2>3, <2>4, <2>5, <2>7 DEF Complete, TailRegion, LastRegion
    <3> QED
      BY <2>5, <2>7, <3>1 DEF ProgressInv, RegionsWritten, Complete
  <2> QED
    BY <2>6, <2>7
<1>3. CASE CopyHead
  <2>1. Overwrite("copyHead", "head", "yaoshi", "copyBody")
    BY <1>3 DEF CopyHead
  <2>2. /\ disk'[opened]["head"] = "yaoshi"
        /\ disk'[opened]["imgTail"] = disk[opened]["imgTail"]
    BY <2>1, OverwriteDisk
  <2>3. pc = "copyHead" /\ pc' = "copyBody" /\ opened # NoDisk
        /\ opened' = opened /\ op' = op
    BY <2>1 DEF Overwrite, sceneVars
  <2> QED
    BY <2>2, <2>3 DEF ProgressInv, RegionsWritten
<1>4. CASE CopyBody
  <2>1. Overwrite("copyBody", "body", "yaoshi", "copyTail")
    BY <1>4 DEF CopyBody
  <2>2. /\ disk'[opened]["body"] = "yaoshi"
        /\ disk'[opened]["head"] = disk[opened]["head"]
        /\ disk'[opened]["imgTail"] = disk[opened]["imgTail"]
    BY <2>1, OverwriteDisk
  <2>3. pc = "copyBody" /\ pc' = "copyTail" /\ opened # NoDisk
        /\ opened' = opened /\ op' = op
    BY <2>1 DEF Overwrite, sceneVars
  <2> QED
    BY <2>2, <2>3 DEF ProgressInv, RegionsWritten
<1>5. CASE CopyTail
  <2>1. Overwrite("copyTail", "imgTail", "yaoshi", "finalize")
    BY <1>5 DEF CopyTail
  <2>2. /\ disk'[opened]["imgTail"] = "yaoshi"
        /\ disk'[opened]["head"] = disk[opened]["head"]
        /\ disk'[opened]["body"] = disk[opened]["body"]
    BY <2>1, OverwriteDisk
  <2>3. pc = "copyTail" /\ pc' = "finalize" /\ opened # NoDisk
        /\ opened' = opened /\ op' = op
    BY <2>1 DEF Overwrite, sceneVars
  <2>4. op' = "install" /\ \A r \in {"head", "body", "imgTail"} :
                             disk'[opened][r] = "yaoshi"
    BY <2>2, <2>3 DEF ProgressInv, RegionsWritten
  <2>5. Complete(opened)'
    BY <2>4, <2>3 DEF Complete, WholeImage
  <2> QED
    BY <2>3, <2>5 DEF ProgressInv, RegionsWritten, Complete
<1> QED
  BY <1>1, <1>2, <1>3, <1>4, <1>5

\* SyncTarget syncs the one disk that was written to.
LEMMA TransactionProgressInv ==
  ASSUME TypeOK, WriteInv, WrittenInv, CleanInv, ProgressInv, Transaction
  PROVE  ProgressInv'
<1>1. CASE Verify
  BY <1>1, VerifyLeavesDisks DEF ProgressInv, RegionsWritten, Verifying
<1>2. CASE BeginWrite
  BY <1>2 DEF BeginWrite, ProgressInv, RegionsWritten
<1>3. CASE ScrubFails \/ CopyFails \/ SyncFails
  BY <1>3 DEF ScrubFails, CopyFails, SyncFails, StopTransaction, StopWith,
     ProgressInv, RegionsWritten
<1>4. CASE SyncTarget
  <2>1. /\ pc = "finalize" /\ opened # NoDisk /\ opened \in Disks
        /\ pc' = "close" /\ UNCHANGED <<disk, op, touched>>
        /\ durable' = [durable EXCEPT ![opened] = disk[opened]]
    BY <1>4 DEF SyncTarget, sceneVars, txnVars, TypeOK, TransactionOK
  <2>2. \A d \in touched : d = opened
    BY <2>1 DEF WriteInv
  <2>3. durable'[opened] = disk[opened]
    BY <2>1 DEF TypeOK, MachineOK
  <2>4. Complete(opened)
    BY <2>1 DEF ProgressInv, RegionsWritten
  <2>5. \A d \in touched' : disk'[d] = durable'[d] /\ Complete(d)'
    BY <2>1, <2>2, <2>3, <2>4 DEF Complete
  <2> QED
    BY <2>1, <2>5 DEF ProgressInv, RegionsWritten, Complete
<1>5. CASE CloseTarget
  <2>1. /\ pc = "close" /\ SyncAll /\ UNCHANGED <<disk, op, touched>>
        /\ pc' = "done" /\ opened' = NoDisk
    BY <1>5 DEF CloseTarget
  <2>2. \A d \in Disks : disk'[d] = durable'[d]
    BY <2>1, SyncAllCleans
  <2>3. \A d \in touched' : disk'[d] = durable'[d] /\ Complete(d)'
    BY <2>1, <2>2 DEF ProgressInv, Complete, TypeOK, TransactionOK
  <2> QED
    BY <2>1, <2>3 DEF ProgressInv, RegionsWritten, Complete
<1> QED
  BY <1>1, <1>2, <1>3, <1>4, <1>5, WriteProgressInv DEF Transaction, Verify

\* A disk that moves is off the descriptor; what was synced stays.
LEMMA EnvironmentProgressInv ==
  ASSUME TypeOK, WriteInv, ProgressInv, Environment
  PROVE  ProgressInv'
<1>1. CASE Boot
  BY <1>1 DEF Boot, ProgressInv, RegionsWritten
<1>2. ASSUME NEW s \in Slots, Unplug(s)
      PROVE  ProgressInv'
  <2>1. /\ UNCHANGED <<pc, op, touched>>
        /\ opened' = IF opened = attached[s] THEN NoDisk ELSE opened
    BY <1>2 DEF Unplug, sceneVars
  <2>2. /\ \A d \in Disks : d # attached[s] => disk'[d] = disk[d]
        /\ \A d \in Disks : disk[d] = durable[d] =>
             disk'[d] = disk[d] /\ durable'[d] = disk[d]
    BY <1>2, UnplugDisk
  <2>3. opened' # NoDisk =>
          opened' = opened /\ disk'[opened] = disk[opened]
    BY <2>1, <2>2 DEF TypeOK, TransactionOK
  <2>4. RegionsWritten'
    <3>1. CASE opened' = NoDisk
      BY <3>1 DEF RegionsWritten
    <3>2. CASE opened' # NoDisk
      BY <2>1, <2>3, <3>2 DEF ProgressInv, RegionsWritten, Complete
    <3> QED
      BY <3>1, <3>2
  <2>5. pc' \in {"close", "done"} =>
          \A d \in touched' : disk'[d] = durable'[d] /\ Complete(d)'
    BY <2>1, <2>2 DEF ProgressInv, Complete, TypeOK, TransactionOK
  <2> QED
    BY <2>1, <2>4, <2>5 DEF ProgressInv
<1>3. ASSUME NEW s \in Slots, NEW d \in Disks, Plug(s, d)
      PROVE  ProgressInv'
  BY <1>3 DEF Plug, ProgressInv, RegionsWritten, Complete, sceneVars, txnVars
<1>4. CASE PowerCut
  BY <1>4 DEF PowerCut, ProgressInv, RegionsWritten
<1> QED
  BY <1>1, <1>2, <1>3, <1>4 DEF Environment

\* ProgressInv is inductive beside the invariants of the transaction.
LEMMA NextProgressInv ==
  TypeOK /\ WriteInv /\ WrittenInv /\ CleanInv /\ ProgressInv /\ [Next]_vars
    => ProgressInv'
<1> SUFFICES ASSUME TypeOK, WriteInv, WrittenInv, CleanInv, ProgressInv,
                    [Next]_vars
             PROVE  ProgressInv'
  OBVIOUS
<1>1. CASE UNCHANGED vars
  BY <1>1 DEF vars, ProgressInv, RegionsWritten, Complete, machineVars,
     sceneVars, txnVars
<1>2. CASE Preparation
  BY <1>2, PreparationLeavesDisks DEF ProgressInv, RegionsWritten, Preparing
<1>3. CASE Exit
  BY <1>3 DEF Exit, StopTick, FatalTimeout, ControlledExit, ProgressInv,
     RegionsWritten
<1>4. CASE Operator
  <2>1. opened = NoDisk \/ pc' # "done"
    BY <1>4, OperatorLeavesDisks DEF WriteInv, Writing
  <2> QED
    BY <1>4, <2>1, OperatorLeavesDisks DEF ProgressInv, RegionsWritten, Complete,
       machineVars
<1>5. CASE Failure
  BY <1>5, FailureLeavesDisks DEF ProgressInv, RegionsWritten
<1> QED
  BY <1>1, <1>2, <1>3, <1>4, <1>5, TransactionProgressInv,
     EnvironmentProgressInv DEF Next, Program

\* What can be lost, and how far an image has got, in every state.
THEOREM DiskInvariant == Spec => [](CleanInv /\ ProgressInv)
BY InitCleanInv, NextCleanInv, InitProgressInv, NextProgressInv, InitWrittenInv,
   NextWrittenInv, TypeCorrectness, WriteInvariant, PTL DEF Spec

\* The Done scene is shown only when a power cut can no longer take away what
\* it claims.  (write_target: sync_all before COMPLETE; select.rs Done.)
THEOREM DoneIsDurable == Spec => []DoneMeansDurable
<1>1. TypeOK /\ WriteInv /\ WrittenInv /\ ProgressInv => DoneMeansDurable
  <2> SUFFICES ASSUME TypeOK, WriteInv, WrittenInv, ProgressInv, pc = "done"
               PROVE  \E d \in Disks :
                        /\ touched = {d}
                        /\ op = "install" => \A r \in DOMAIN WholeImage :
                                               durable[d][r] = WholeImage[r]
                        /\ op = "erase" => /\ durable[d]["head"] = "zero"
                                           /\ durable[d][LastRegion(d)] = "zero"
    BY DEF DoneMeansDurable
  <2>1. PICK d \in touched : TRUE
    BY DEF WrittenInv
  <2>2. d \in Disks /\ touched = {d}
    BY <2>1 DEF WriteInv, TypeOK, TransactionOK
  <2>3. disk[d] = durable[d] /\ Complete(d)
    BY <2>1 DEF ProgressInv
  <2> QED
    BY <2>2, <2>3 DEF Complete
<1> QED
  BY <1>1, DiskInvariant, InitWrittenInv, NextWrittenInv, TypeCorrectness,
     WriteInvariant, PTL DEF Spec

-----------------------------------------------------------------------------
(* Rivals.                                                                 *)

\* Where the scan for rivals is over and its answer has been taken.
AfterScan == {"validate", "open"} \cup Writing

\* While the scan has found no installed target, what it has not seen of a
\* disk it has passed it has missed; one it has found ends it; an install goes
\* on only if it found none, and a disk nobody writes to is still what it was
\* when it was scanned.
RivalsInv ==
  op = "install" /\ pc \in {"conflict", "revalidate"} \cup AfterScan =>
    /\ pc \in AfterScan => ~installedSeen
    /\ pc = "conflict" /\ installedSeen => todo = {}
    /\ ~installedSeen =>
         \A s \in Listed(reread) \ {source} :
           (pc = "conflict" => s \notin todo)
             /\ IsInstalled(disk[reread[s]]) /\ reread[s] \notin touched
             => reread[s] \in missed

\* No scan is running.
LEMMA InitRivalsInv == Init => RivalsInv
BY DEF Init, RivalsInv, AfterScan, Writing

\* A step that writes to no listed disk, forgets nothing and scans nothing
\* leaves the answer of the scan as good as it was.
LEMMA RivalsStay ==
  ASSUME TypeOK, RivalsInv, pc \in {"revalidate"} \cup AfterScan,
         pc' \in AfterScan => ~installedSeen \/ op # "install",
         UNCHANGED <<op, installedSeen, source, reread, missed>>,
         touched \subseteq touched',
         \A d \in Disks : disk'[d] = disk[d] \/ d \in touched',
         pc' \in {"revalidate"} \cup AfterScan
  PROVE  RivalsInv'
<1>1. \A s \in Listed(reread) : reread[s] \in Disks
  BY DEF Listed, TypeOK, TransactionOK
<1>2. pc # "conflict" /\ pc' # "conflict"
  BY DEF AfterScan, Writing
<1>3. Listed(reread)' = Listed(reread)
  BY DEF Listed
<1>4. \A s \in Listed(reread) :
        IsInstalled(disk'[reread[s]]) /\ reread[s] \notin touched' =>
          IsInstalled(disk[reread[s]]) /\ reread[s] \notin touched
  BY <1>1
<1> QED
  BY <1>2, <1>3, <1>4 DEF RivalsInv

\* The scan starts with every rival still to see, passes one at a time, and
\* the check of revalidate stops what it has found.
LEMMA VerifyRivalsInv ==
  ASSUME TypeOK, RivalsInv, Verify
  PROVE  RivalsInv'
<1> USE DEF machineVars, scanVars, sceneVars, txnVars, ghostVars
<1>1. CASE Reread
  <2>1. pc' = IF op = "install" THEN "conflict" ELSE "revalidate"
    BY <1>1 DEF Reread
  <2>2. op' = op /\ source' = source
    BY <1>1 DEF Reread
  <2>3. op = "install" => todo' = Listed(reread)' \ {source}
    BY <1>1 DEF Reread, Listed
  <2>4. installedSeen' = FALSE
    BY <1>1 DEF Reread
  <2>5. op' = "install" => pc' = "conflict"
    BY <2>1, <2>2
  <2> QED
    BY <2>2, <2>3, <2>4, <2>5 DEF RivalsInv, AfterScan, Writing
<1>2. CASE ConflictProbe
  <2>1. PICK s \in Slots :
          /\ IsNext(s, todo)
          /\ todo' = IF installedSeen' THEN {} ELSE todo \ {s}
          /\ missed' = IF ~installedSeen' /\ IsInstalled(disk[reread[s]])
                       THEN missed \cup {reread[s]} ELSE missed
          /\ installedSeen' \in InstalledAnswers(s)
    BY <1>2 DEF ConflictProbe
  <2>2. /\ pc = "conflict" /\ pc' = "conflict"
        /\ UNCHANGED <<disk, op, source, reread, touched>>
    BY <1>2 DEF ConflictProbe
  <2>3. op = "install" => ~installedSeen
    BY <2>1, <2>2 DEF IsNext, RivalsInv
  <2>4. Listed(reread)' = Listed(reread)
    BY <2>2 DEF Listed
  <2>5. ASSUME op = "install", ~installedSeen', NEW t \in Listed(reread) \ {source},
               t \notin todo', IsInstalled(disk[reread[t]]), reread[t] \notin touched
        PROVE  reread[t] \in missed'
    <3>1. CASE t = s
      BY <2>1, <2>5, <3>1
    <3>2. CASE t # s
      BY <2>1, <2>2, <2>3, <2>5, <3>2 DEF RivalsInv
    <3> QED
      BY <3>1, <3>2
  <2>6. installedSeen' => todo' = {}
    BY <2>1
  <2> QED
    BY <2>2, <2>4, <2>5, <2>6 DEF RivalsInv, AfterScan, Writing
<1>3. CASE ConflictDone
  <2>1. /\ pc = "conflict" /\ pc' = "revalidate" /\ todo = {}
        /\ UNCHANGED <<disk, op, source, reread, touched, missed, installedSeen>>
    BY <1>3 DEF ConflictDone
  <2> QED
    BY <2>1 DEF RivalsInv, AfterScan, Writing, Listed
<1>4. CASE Revalidate
  BY <1>4, RivalsStay DEF Revalidate, TargetUnchanged, AfterScan
<1>5. CASE ValidatePayload
  BY <1>5, RivalsStay DEF ValidatePayload, AfterScan, RivalsInv
<1>6. CASE OpenTarget
  BY <1>6, RivalsStay DEF OpenTarget, AfterScan, RivalsInv, Writing
<1>7. CASE RereadFails \/ RevalidateFails \/ ValidateFails \/ OpenFails
  BY <1>7 DEF RereadFails, RevalidateFails, ValidateFails, OpenFails,
     StopTransaction, StopWith, RivalsInv, AfterScan, Writing
<1> QED
  BY <1>1, <1>2, <1>3, <1>4, <1>5, <1>6, <1>7 DEF Verify

\* A write reaches no disk but those it is known to have touched.
LEMMA OverwriteRivalsInv ==
  ASSUME TypeOK, RivalsInv, NEW phase \in Writing, NEW region \in Regions,
         NEW byte, NEW next \in Writing, Overwrite(phase, region, byte, next)
  PROVE  RivalsInv'
<1>1. /\ pc = phase /\ pc' = next
      /\ touched' = touched \cup {opened}
      /\ UNCHANGED <<op, installedSeen, source, reread, missed>>
  BY DEF Overwrite, scanVars, sceneVars
<1>2. \A d \in Disks : disk'[d] = disk[d] \/ d \in touched'
  BY <1>1, OverwriteDisk
<1>3. pc \in AfterScan /\ pc' \in AfterScan
  BY <1>1 DEF AfterScan
<1> QED
  BY <1>1, <1>2, <1>3, RivalsStay DEF RivalsInv

\* A transaction that writes has its scan behind it.
LEMMA TransactionRivalsInv ==
  ASSUME TypeOK, RivalsInv, Transaction
  PROVE  RivalsInv'
<1>1. CASE Verify
  BY <1>1, VerifyRivalsInv
<1>2. CASE BeginWrite \/ SyncTarget
  <2>1. /\ pc \in Writing /\ pc' \in Writing
        /\ UNCHANGED <<disk, op, installedSeen, source, reread, touched, missed>>
    BY <1>2 DEF BeginWrite, SyncTarget, Writing, machineVars, scanVars,
       sceneVars, txnVars
  <2> QED
    BY <2>1, RivalsStay DEF RivalsInv, AfterScan
<1>3. CASE \/ ScrubHead \/ ScrubTail \/ CopyHead \/ CopyBody \/ CopyTail
  BY <1>3, OverwriteRivalsInv DEF ScrubHead, ScrubTail, CopyHead, CopyBody,
     CopyTail, TailRegion, LastRegion, Regions, Writing
<1>4. CASE ScrubFails \/ CopyFails \/ SyncFails \/ CloseTarget
  BY <1>4 DEF ScrubFails, CopyFails, SyncFails, CloseTarget, StopTransaction,
     StopWith, RivalsInv, AfterScan, Writing
<1> QED
  BY <1>1, <1>2, <1>3, <1>4 DEF Transaction, Verify

\* A disk nobody writes to is clean, so that pulling it out changes nothing
\* on it.
LEMMA EnvironmentRivalsInv ==
  ASSUME TypeOK, CleanInv, RivalsInv, Environment
  PROVE  RivalsInv'
<1>1. CASE Boot
  BY <1>1 DEF Boot, RivalsInv, AfterScan, Writing
<1>2. ASSUME NEW s \in Slots, Unplug(s)
      PROVE  RivalsInv'
  <2>1. UNCHANGED <<pc, op, installedSeen, todo, source, reread, touched, missed>>
    BY <1>2 DEF Unplug, scanVars, sceneVars
  <2>2. \A d \in Disks : d \notin touched => disk'[d] = disk[d]
    BY <1>2, UnplugDisk DEF CleanInv
  <2>3. \A t \in Listed(reread) : reread[t] \in Disks
    BY DEF Listed, TypeOK, TransactionOK
  <2>4. Listed(reread)' = Listed(reread)
    BY <2>1 DEF Listed
  <2> QED
    BY <2>1, <2>2, <2>3, <2>4 DEF RivalsInv
<1>3. ASSUME NEW s \in Slots, NEW d \in Disks, Plug(s, d)
      PROVE  RivalsInv'
  BY <1>3 DEF Plug, RivalsInv, Listed, scanVars, sceneVars, txnVars
<1>4. CASE PowerCut
  BY <1>4 DEF PowerCut, RivalsInv, AfterScan, Writing
<1> QED
  BY <1>1, <1>2, <1>3, <1>4 DEF Environment

\* RivalsInv is inductive beside CleanInv.
LEMMA NextRivalsInv ==
  TypeOK /\ CleanInv /\ RivalsInv /\ [Next]_vars => RivalsInv'
<1> SUFFICES ASSUME TypeOK, CleanInv, RivalsInv, [Next]_vars PROVE RivalsInv'
  OBVIOUS
<1>1. CASE UNCHANGED vars
  BY <1>1 DEF vars, RivalsInv, Listed, machineVars, scanVars, sceneVars, txnVars
<1>2. CASE Preparation
  BY <1>2, PreparationLeavesDisks DEF RivalsInv, AfterScan, Writing, Preparing
<1>3. CASE Exit
  BY <1>3 DEF Exit, StopTick, FatalTimeout, ControlledExit, RivalsInv,
     AfterScan, Writing
<1>4. CASE Operator
  BY <1>4, OperatorLeavesDisks DEF RivalsInv, AfterScan, Writing
<1>5. CASE Failure
  BY <1>5, FailureLeavesDisks DEF RivalsInv, AfterScan, Writing
<1> QED
  BY <1>1, <1>2, <1>3, <1>4, <1>5, TransactionRivalsInv, EnvironmentRivalsInv
     DEF Next, Program

\* An install does not begin beside a listed installed target that answered
\* the scan, however disks have moved since.  (conflicting_installed_target,
\* prepare_write_target.)
THEOREM NoRivalIsOverlooked == Spec => []RivalsOnlyIfMissed
<1>1. RivalsInv => RivalsOnlyIfMissed
  BY DEF RivalsInv, RivalsOnlyIfMissed, AfterScan, Writing
<1> QED
  BY <1>1, InitRivalsInv, NextRivalsInv, DiskInvariant, TypeCorrectness, PTL
     DEF Spec

-----------------------------------------------------------------------------
(* Half an image.                                                          *)

\* In the first boot, with no disk moved, a disk reads as installed only with
\* the whole image on it.
WholeInv ==
  /\ boots = 0 => pc = "off"
  /\ hotplugs = 0 /\ boots \in {0, 1} /\ (pc # "off" \/ boots = 0) =>
       \A d \in Disks : IsInstalled(disk[d]) => disk[d]["body"] = "yaoshi"

\* The machine starts with the disks its owner had.
LEMMA InitWholeInv == HonestContents /\ Init => WholeInv
BY DEF HonestContents, Init, WholeInv

\* The head is cleared first and written while the backup GPT is still zero;
\* the backup follows the body.
LEMMA WritingInOrder ==
  ASSUME TypeOK, ProgressInv, opened # NoDisk,
         \/ ScrubHead \/ ScrubTail \/ CopyHead \/ CopyBody \/ CopyTail
  PROVE  /\ \A d \in Disks : d # opened => disk'[d] = disk[d]
         /\ IsInstalled(disk'[opened]) => disk'[opened]["body"] = "yaoshi"
<1> USE DEF Regions, IsInstalled
<1>1. CASE ScrubHead
  BY <1>1, OverwriteDisk DEF ScrubHead
<1>2. CASE ScrubTail
  <2>1. Overwrite("scrubTail", TailRegion, "zero",
                  IF op = "install" THEN "copyHead" ELSE "finalize")
    BY <1>2 DEF ScrubTail
  <2>2. TailRegion \in Regions \ {"head"}
    BY DEF TailRegion, LastRegion
  <2>3. disk[opened]["head"] = "zero"
    BY <2>1 DEF Overwrite, ProgressInv, RegionsWritten
  <2> QED
    BY <2>1, <2>2, <2>3, OverwriteDisk
<1>3. CASE CopyHead
  <2>1. Overwrite("copyHead", "head", "yaoshi", "copyBody")
    BY <1>3 DEF CopyHead
  <2>2. disk[opened]["imgTail"] = "zero"
    BY <2>1 DEF Overwrite, ProgressInv, RegionsWritten
  <2> QED
    BY <2>1, <2>2, OverwriteDisk
<1>4. CASE CopyBody
  BY <1>4, OverwriteDisk DEF CopyBody
<1>5. CASE CopyTail
  <2>1. Overwrite("copyTail", "imgTail", "yaoshi", "finalize")
    BY <1>5 DEF CopyTail
  <2>2. disk[opened]["body"] = "yaoshi"
    BY <2>1 DEF Overwrite, ProgressInv, RegionsWritten
  <2> QED
    BY <2>1, <2>2, OverwriteDisk
<1> QED
  BY <1>1, <1>2, <1>3, <1>4, <1>5

\* A region that fails half way is torn: a torn head is no GPT, and while the
\* head is whole the backup is not there yet or the body is.
LEMMA FailingInOrder ==
  ASSUME TypeOK, ProgressInv, opened # NoDisk, ScrubFails \/ CopyFails,
         IsInstalled(disk[opened]) => disk[opened]["body"] = "yaoshi"
  PROVE  /\ \A d \in Disks : d # opened => disk'[d] = disk[d]
         /\ IsInstalled(disk'[opened]) => disk'[opened]["body"] = "yaoshi"
<1> USE DEF Regions, IsInstalled
<1>1. PICK region \in Regions : /\ Spoil(region)
                                /\ \/ pc = "scrubHead" /\ region = "head"
                                   \/ pc = "scrubTail" /\ region = TailRegion
                                   \/ pc = "copyHead" /\ region = "head"
                                   \/ pc = "copyBody" /\ region = "body"
                                   \/ pc = "copyTail" /\ region = "imgTail"
  BY DEF ScrubFails, CopyFails, TailRegion, LastRegion
<1>2. /\ \A d \in Disks : d # opened => disk'[d] = disk[d]
      /\ disk'[opened][region] \in {disk[opened][region], "torn"}
      /\ \A r \in Regions : r # region => disk'[opened][r] = disk[opened][r]
  BY <1>1, SpoilDisk
<1>3. CASE region = "head"
  BY <1>2, <1>3
<1>4. CASE pc = "scrubTail" /\ region = TailRegion
  <2>1. disk[opened]["head"] = "zero" /\ region # "head"
    BY <1>4 DEF ProgressInv, RegionsWritten, TailRegion, LastRegion
  <2> QED
    BY <1>2, <2>1
<1>5. CASE pc = "copyBody" /\ region = "body"
  <2>1. disk[opened]["head"] = "yaoshi" /\ disk[opened]["imgTail"] = "zero"
    BY <1>5 DEF ProgressInv, RegionsWritten
  <2> QED
    BY <1>2, <1>5, <2>1
<1>6. CASE pc = "copyTail" /\ region = "imgTail"
  <2>1. disk[opened]["body"] = "yaoshi"
    BY <1>6 DEF ProgressInv, RegionsWritten
  <2> QED
    BY <1>2, <1>6, <2>1
<1> QED
  BY <1>1, <1>2, <1>3, <1>4, <1>5, <1>6

\* One case per group of steps: only the writes change a disk.
LEMMA NextWholeInv ==
  TypeOK /\ ProgressInv /\ WholeInv /\ [Next]_vars => WholeInv'
<1> SUFFICES ASSUME TypeOK, ProgressInv, WholeInv, [Next]_vars PROVE WholeInv'
  OBVIOUS
<1>1. CASE UNCHANGED vars
  BY <1>1 DEF vars, WholeInv, machineVars
<1>2. CASE Preparation
  <2>1. UNCHANGED <<disk, hotplugs, boots>> /\ pc \in Preparing
    BY <1>2, PreparationLeavesDisks DEF machineVars
  <2> QED
    BY <2>1 DEF WholeInv, Preparing
<1>3. CASE Exit
  BY <1>3 DEF Exit, StopTick, FatalTimeout, ControlledExit, WholeInv, machineVars
<1>4. CASE Operator
  <2>1. UNCHANGED <<disk, hotplugs, boots>> /\ pc # "off"
    BY <1>4, OperatorLeavesDisks DEF machineVars, Operator, PrepareEnter,
       SelectArrow, SelectTab, ConfirmTarget, Refresh, ChoosePowerOff,
       ConfirmTab, ConfirmBack, EnterErase, EnterInstall, DoneTab,
       DoneChooseTarget, DoneExit, StopEnter
  <2> QED
    BY <2>1 DEF WholeInv
<1>5. CASE Failure
  <2>1. UNCHANGED <<disk, hotplugs, boots>> /\ pc # "off"
    BY <1>5, FailureLeavesDisks DEF machineVars, Failure, PrepareRenderFails,
       RenderFails, WriteRenderFails
  <2> QED
    BY <2>1 DEF WholeInv
<1>6. CASE Transaction
  <2>1. UNCHANGED <<hotplugs, boots>> /\ pc # "off"
    <3>1. CASE Verify
      BY <3>1, VerifyLeavesDisks DEF machineVars, Verifying
    <3>2. CASE \/ ScrubHead \/ ScrubTail \/ CopyHead \/ CopyBody \/ CopyTail
      BY <3>2 DEF ScrubHead, ScrubTail, CopyHead, CopyBody, CopyTail, Overwrite
    <3>3. CASE ScrubFails \/ CopyFails \/ SyncFails
      BY <3>3 DEF ScrubFails, CopyFails, SyncFails, StopTransaction
    <3>4. CASE BeginWrite \/ SyncTarget \/ CloseTarget
      BY <3>4 DEF BeginWrite, SyncTarget, CloseTarget, machineVars
    <3> QED
      BY <1>6, <3>1, <3>2, <3>3, <3>4 DEF Transaction, Verify
  <2>2. ASSUME hotplugs = 0, boots \in {0, 1}
        PROVE  \A d \in Disks : IsInstalled(disk'[d]) => disk'[d]["body"] = "yaoshi"
    <3>1. \A d \in Disks : IsInstalled(disk[d]) => disk[d]["body"] = "yaoshi"
      BY <2>1, <2>2 DEF WholeInv
    <3>2. CASE opened # NoDisk /\ \/ ScrubHead \/ ScrubTail \/ CopyHead
                                  \/ CopyBody \/ CopyTail
      BY <3>1, <3>2, WritingInOrder
    <3>3. CASE opened # NoDisk /\ (ScrubFails \/ CopyFails)
      <4>1. opened \in Disks
        BY <3>3 DEF TypeOK, TransactionOK
      <4> QED
        BY <3>1, <3>3, <4>1, FailingInOrder
    <3>4. CASE opened = NoDisk /\ (ScrubFails \/ CopyFails)
      <4>1. disk' = disk
        BY <3>4 DEF ScrubFails, CopyFails, Spoil
      <4> QED
        BY <3>1, <4>1
    <3>5. CASE Verify \/ BeginWrite \/ SyncTarget \/ SyncFails \/ CloseTarget
      <4>1. disk' = disk
        BY <3>5, VerifyLeavesDisks DEF BeginWrite, SyncTarget, SyncFails,
           CloseTarget, machineVars
      <4> QED
        BY <3>1, <4>1
    <3>6. \/ ScrubHead \/ ScrubTail \/ CopyHead \/ CopyBody \/ CopyTail
          => opened # NoDisk
      BY DEF ScrubHead, ScrubTail, CopyHead, CopyBody, CopyTail, Overwrite
    <3> QED
      BY <1>6, <3>2, <3>3, <3>4, <3>5, <3>6 DEF Transaction, Verify
  <2> QED
    BY <2>1, <2>2 DEF WholeInv
<1>7. CASE Environment
  <2>1. CASE Boot
    BY <2>1 DEF Boot, WholeInv, TypeOK, MachineOK
  <2>2. ASSUME NEW s \in Slots, Unplug(s)
        PROVE  WholeInv'
    BY <2>2 DEF Unplug, WholeInv, TypeOK, MachineOK
  <2>3. ASSUME NEW s \in Slots, NEW d \in Disks, Plug(s, d)
        PROVE  WholeInv'
    BY <2>3 DEF Plug, WholeInv, TypeOK, MachineOK
  <2>4. CASE PowerCut
    BY <2>4 DEF PowerCut, WholeInv
  <2> QED
    BY <1>7, <2>1, <2>2, <2>3, <2>4 DEF Environment
<1> QED
  BY <1>1, <1>2, <1>3, <1>4, <1>5, <1>6, <1>7 DEF Next, Program

\* If no disk was half installed when the machine was started, none reads as
\* installed before its image is complete, wherever an install stopped.
\* (write_target scrubs both ends before it copies, in ascending order.)
THEOREM HalfAnImageIsNone ==
  ASSUME HonestContents
  PROVE  Spec => []LooksInstalledOnlyWhenWhole
<1>1. Init => WholeInv
  BY InitWholeInv
<1>2. WholeInv => LooksInstalledOnlyWhenWhole
  BY DEF WholeInv, LooksInstalledOnlyWhenWhole
<1> QED
  BY <1>1, <1>2, NextWholeInv, DiskInvariant, TypeCorrectness, PTL DEF Spec

-----------------------------------------------------------------------------
(* Enter alone.                                                            *)

\* With no key but Enter the runtime stays out of the transaction, and the
\* confirmation scene stays on the action it is entered on, Back.
EnterInv ==
  onlyEnter =>
    /\ op = "none" /\ touched = {}
    /\ pc \notin Verifying \cup Writing \cup {"done"}
    /\ pc = "confirm" => focus = "Back"

\* A boot starts in no transaction.
LEMMA InitEnterInv == Init => EnterInv
BY DEF Init, EnterInv, Verifying, Writing

\* Preparing the medium and inspecting the disks leads to the target scene.
LEMMA PreparationEnterInv ==
  ASSUME EnterInv, Preparation
  PROVE  EnterInv'
<1> USE DEF EnterInv, Verifying, Writing, StopWith,
            machineVars, scanVars, sceneVars, txnVars, ghostVars
<1>1. CASE StartupFails
  BY <1>1 DEF StartupFails
<1>2. CASE UnsupportedDisplay
  BY <1>2 DEF UnsupportedDisplay
<1>3. CASE FirstFrame
  BY <1>3 DEF FirstFrame
<1>4. CASE LoadModule
  BY <1>4 DEF LoadModule
<1>5. CASE ModuleLoadFails
  BY <1>5 DEF ModuleLoadFails
<1>6. CASE DiscoverList
  BY <1>6 DEF DiscoverList
<1>7. CASE ListFails
  BY <1>7 DEF ListFails
<1>8. CASE ProbeSource
  BY <1>8 DEF ProbeSource
<1>9. CASE SourceDiscovered
  BY <1>9 DEF SourceDiscovered, PassIsOver
<1>10. CASE SourceAmbiguous
  BY <1>10 DEF SourceAmbiguous, PassIsOver
<1>11. CASE SourceNotFound
  BY <1>11 DEF SourceNotFound, PassIsOver
<1>12. CASE NextPass
  BY <1>12 DEF NextPass, PassIsOver
<1>13. CASE InspectList
  BY <1>13 DEF InspectList
<1>14. CASE AttachedProbe
  BY <1>14 DEF AttachedProbe
<1>15. CASE AttachedDone
  BY <1>15 DEF AttachedDone
<1>16. CASE ClassifyRecord
  BY <1>16 DEF ClassifyRecord
<1>17. CASE InspectDone
  BY <1>17 DEF InspectDone
<1> QED
    BY <1>1, <1>2, <1>3, <1>4, <1>5, <1>6, <1>7, <1>8, <1>9, <1>10, <1>11,
     <1>12, <1>13, <1>14, <1>15, <1>16, <1>17 DEF Preparation

\* No step of the transaction is enabled.
LEMMA TransactionEnterInv ==
  ASSUME EnterInv, Transaction
  PROVE  EnterInv'
<1> USE DEF EnterInv, Verifying, Writing, StopWith,
            machineVars, scanVars, sceneVars, txnVars, ghostVars,
            StopTransaction, Overwrite
<1>1. CASE Reread
  BY <1>1 DEF Reread
<1>2. CASE RereadFails
  BY <1>2 DEF RereadFails
<1>3. CASE ConflictProbe
  BY <1>3 DEF ConflictProbe
<1>4. CASE ConflictDone
  BY <1>4 DEF ConflictDone
<1>5. CASE Revalidate
  BY <1>5 DEF Revalidate
<1>6. CASE RevalidateFails
  BY <1>6 DEF RevalidateFails
<1>7. CASE ValidatePayload
  BY <1>7 DEF ValidatePayload
<1>8. CASE ValidateFails
  BY <1>8 DEF ValidateFails
<1>9. CASE OpenTarget
  BY <1>9 DEF OpenTarget
<1>10. CASE OpenFails
  BY <1>10 DEF OpenFails
<1>11. CASE BeginWrite
  BY <1>11 DEF BeginWrite
<1>12. CASE ScrubHead
  BY <1>12 DEF ScrubHead
<1>13. CASE ScrubTail
  BY <1>13 DEF ScrubTail
<1>14. CASE ScrubFails
  BY <1>14 DEF ScrubFails
<1>15. CASE CopyHead
  BY <1>15 DEF CopyHead
<1>16. CASE CopyBody
  BY <1>16 DEF CopyBody
<1>17. CASE CopyTail
  BY <1>17 DEF CopyTail
<1>18. CASE CopyFails
  BY <1>18 DEF CopyFails
<1>19. CASE SyncTarget
  BY <1>19 DEF SyncTarget
<1>20. CASE SyncFails
  BY <1>20 DEF SyncFails
<1>21. CASE CloseTarget
  BY <1>21 DEF CloseTarget
<1> QED
    BY <1>1, <1>2, <1>3, <1>4, <1>5, <1>6, <1>7, <1>8, <1>9, <1>10, <1>11,
     <1>12, <1>13, <1>14, <1>15, <1>16, <1>17, <1>18, <1>19, <1>20, <1>21 DEF
     Transaction

\* The exits end in no transaction.
LEMMA ExitEnterInv ==
  ASSUME EnterInv, Exit
  PROVE  EnterInv'
<1> USE DEF EnterInv, Verifying, Writing, StopWith,
            machineVars, scanVars, sceneVars, txnVars, ghostVars
<1>1. CASE StopTick
  BY <1>1 DEF StopTick
<1>2. CASE FatalTimeout
  BY <1>2 DEF FatalTimeout
<1>3. CASE ControlledExit
  BY <1>3 DEF ControlledExit
<1> QED
    BY <1>1, <1>2, <1>3 DEF Exit

\* Tab is the only way to a destructive action.
LEMMA OperatorEnterInv ==
  ASSUME EnterInv, Operator
  PROVE  EnterInv'
<1> USE DEF EnterInv, Verifying, Writing, StopWith,
            machineVars, scanVars, sceneVars, txnVars, ghostVars
<1>1. CASE PrepareEnter
  BY <1>1 DEF PrepareEnter
<1>2. CASE SelectArrow
  BY <1>2 DEF SelectArrow
<1>3. CASE SelectTab
  BY <1>3 DEF SelectTab
<1>4. CASE ConfirmTarget
  BY <1>4 DEF ConfirmTarget
<1>5. CASE Refresh
  BY <1>5 DEF Refresh
<1>6. CASE ChoosePowerOff
  BY <1>6 DEF ChoosePowerOff
<1>7. CASE ConfirmTab
  BY <1>7 DEF ConfirmTab
<1>8. CASE ConfirmBack
  BY <1>8 DEF ConfirmBack
<1>9. CASE EnterErase
  BY <1>9 DEF EnterErase
<1>10. CASE EnterInstall
  BY <1>10 DEF EnterInstall
<1>11. CASE DoneTab
  BY <1>11 DEF DoneTab
<1>12. CASE DoneChooseTarget
  BY <1>12 DEF DoneChooseTarget
<1>13. CASE DoneExit
  BY <1>13 DEF DoneExit
<1>14. CASE StopEnter
  BY <1>14 DEF StopEnter
<1> QED
    BY <1>1, <1>2, <1>3, <1>4, <1>5, <1>6, <1>7, <1>8, <1>9, <1>10, <1>11,
     <1>12, <1>13, <1>14 DEF Operator

\* A failed render ends the runtime.
LEMMA FailureEnterInv ==
  ASSUME EnterInv, Failure
  PROVE  EnterInv'
<1> USE DEF EnterInv, Verifying, Writing, StopWith,
            machineVars, scanVars, sceneVars, txnVars, ghostVars,
            StopTransaction
<1>1. CASE PrepareRenderFails
  BY <1>1 DEF PrepareRenderFails
<1>2. CASE RenderFails
  BY <1>2 DEF RenderFails
<1>3. CASE WriteRenderFails
  BY <1>3 DEF WriteRenderFails
<1> QED
    BY <1>1, <1>2, <1>3 DEF Failure

\* Disks and power press no key.
LEMMA EnvironmentEnterInv ==
  ASSUME EnterInv, Environment
  PROVE  EnterInv'
<1> USE DEF EnterInv, Verifying, Writing, StopWith,
            machineVars, scanVars, sceneVars, txnVars, ghostVars
<1>1. CASE Boot
  BY <1>1 DEF Boot
<1>2. ASSUME NEW s \in Slots, Unplug(s)
      PROVE  EnterInv'
  BY <1>2 DEF Unplug
<1>3. ASSUME NEW s \in Slots, NEW d \in Disks, Plug(s, d)
      PROVE  EnterInv'
  BY <1>3 DEF Plug
<1>4. CASE PowerCut
  BY <1>4 DEF PowerCut
<1> QED
  BY <1>1, <1>2, <1>3, <1>4 DEF Environment

\* EnterInv is inductive by itself.
LEMMA NextEnterInv == EnterInv /\ [Next]_vars => EnterInv'
<1> SUFFICES ASSUME EnterInv, [Next]_vars PROVE EnterInv'
  OBVIOUS
<1>1. CASE UNCHANGED vars
  BY <1>1 DEF vars, EnterInv, sceneVars, txnVars, ghostVars
<1>2. CASE Next
  BY <1>2, PreparationEnterInv, TransactionEnterInv, ExitEnterInv,
     OperatorEnterInv, FailureEnterInv, EnvironmentEnterInv DEF Next, Program
<1> QED
  BY <1>1, <1>2

\* An operator, or a stuck key, that sends nothing but Enter since boot starts
\* no write transaction (select.rs opens the confirmation on Back).
THEOREM EnterAlone == Spec => []EnterAloneIsHarmless
<1>1. EnterInv => EnterAloneIsHarmless
  BY DEF EnterInv, EnterAloneIsHarmless
<1> QED
  BY <1>1, InitEnterInv, NextEnterInv, PTL DEF Spec

-----------------------------------------------------------------------------
(* The installation medium.                                                *)

\* After discovery has settled on a source.
Discovered == {"inspect", "attached", "classify", "select", "confirm", "done"}
                \cup Verifying \cup Writing

\* Until the medium moves to another name, only a slot discovery found can
\* lead to it; from the inspection on that slot is the one named by source,
\* which no scene offers; so no descriptor is opened on the medium.
SourceInv ==
  /\ sourceDisk # NoDisk /\ ~moved =>
       \A s \in Slots : attached[s] = sourceDisk => s \in found
  /\ pc \in Discovered => found = {source} /\ source \notin target_action_disks
  /\ pc \in {"startup", "modules", "discover", "probe"} =>
       target_action_disks = {}
  /\ pc \in {"attached", "classify"} => source \notin Unclassified
  /\ sourceDisk # NoDisk /\ (sourceDisk \in touched \/ opened = sourceDisk)
       => moved

\* Before a boot nothing is discovered.
LEMMA InitSourceInv == Init => SourceInv
BY DEF Init, SourceInv, Discovered, Verifying, Writing, target_action_disks,
       ActionStatuses

\* Discovery fills found, and the inspection that follows passes by source.
LEMMA PreparationSourceInv ==
  ASSUME TypeOK, WriteInv, SourceInv, Preparation
  PROVE  SourceInv'
<1> USE DEF SourceInv, Discovered, Verifying, Writing, StopWith,
            machineVars, scanVars, sceneVars, txnVars, ghostVars
<1>1. CASE StartupFails
  BY <1>1 DEF StartupFails, target_action_disks
<1>2. CASE UnsupportedDisplay
  BY <1>2 DEF UnsupportedDisplay, target_action_disks
<1>3. CASE FirstFrame
  BY <1>3 DEF FirstFrame, target_action_disks
<1>4. CASE LoadModule
  BY <1>4 DEF LoadModule, target_action_disks
<1>5. CASE ModuleLoadFails
  BY <1>5 DEF ModuleLoadFails, target_action_disks
<1>6. CASE DiscoverList
  <2>1. pc = "discover" /\ pc' = "probe" /\ sourceDisk' = NoDisk
    BY <1>6 DEF DiscoverList
  <2>2. target_action_disks' = {}
    BY <1>6, <2>1 DEF DiscoverList, target_action_disks
  <2> QED
    BY <2>1, <2>2
<1>7. CASE ListFails
  BY <1>7 DEF ListFails, target_action_disks
<1>8. CASE ProbeSource
  <2>1. PICK s \in Slots :
          /\ found' \in {found, found \cup {s}}
          /\ \/ found' = found \cup {s} /\ sourceDisk' = attached[s]
             \/ UNCHANGED <<found, sourceDisk>>
    BY <1>8 DEF ProbeSource
  <2>2. /\ pc = "probe" /\ pc' = "probe"
        /\ UNCHANGED <<attached, opened, touched, moved, status>>
    BY <1>8 DEF ProbeSource
  <2>3. target_action_disks' = {}
    BY <2>2 DEF target_action_disks
  <2>4. touched = {} /\ opened = NoDisk
    BY <2>2 DEF WriteInv, Unwritten, Preparing
  <2>5. attached \in Attachment
    BY DEF TypeOK, MachineOK
  <2>6. sourceDisk' # NoDisk /\ ~moved' =>
          \A t \in Slots : attached'[t] = sourceDisk' => t \in found'
    BY <2>1, <2>2, <2>5 DEF Attachment
  <2> QED
    BY <2>2, <2>3, <2>4, <2>6
<1>9. CASE SourceDiscovered
  <2>1. PICK s \in found : found = {s} /\ source' = s
    BY <1>9 DEF SourceDiscovered
  <2>2. /\ pc' = "inspect" /\ pc = "probe"
        /\ UNCHANGED <<attached, opened, touched, moved, sourceDisk, found, status>>
    BY <1>9 DEF SourceDiscovered, PassIsOver
  <2>3. target_action_disks' = {}
    BY <2>2 DEF target_action_disks
  <2> QED
    BY <2>1, <2>2, <2>3
<1>10. CASE SourceAmbiguous
  BY <1>10 DEF SourceAmbiguous, PassIsOver, target_action_disks
<1>11. CASE SourceNotFound
  BY <1>11 DEF SourceNotFound, PassIsOver, target_action_disks
<1>12. CASE NextPass
  BY <1>12 DEF NextPass, PassIsOver, target_action_disks
<1>13. CASE InspectList
  <2>1. /\ pc = "inspect" /\ pc' = "attached" /\ cand' = attached
        /\ status' \in [Slots -> Statuses]
        /\ UNCHANGED <<attached, opened, touched, moved, sourceDisk, found, source>>
    BY <1>13 DEF InspectList, Statuses
  <2>2. \E bad \in SUBSET BadRecords :
          status' = [s \in Slots |-> IF s \in bad THEN "ReadError"
                                     ELSE IF attached[s] # NoDisk /\ s = source
                                     THEN "InstallerMedia" ELSE "Absent"]
    BY <1>13 DEF InspectList
  <2>3. source \notin target_action_disks'
    BY <2>2 DEF target_action_disks, ActionStatuses
  <2>4. source \notin Unclassified'
    BY <2>1, <2>2 DEF Unclassified
  <2> QED
    BY <2>1, <2>3, <2>4
<1>14. CASE AttachedProbe
  BY <1>14 DEF AttachedProbe, target_action_disks, Unclassified
<1>15. CASE AttachedDone
  BY <1>15 DEF AttachedDone, target_action_disks, Unclassified
<1>16. CASE ClassifyRecord
  <2>1. PICK s \in Slots :
          /\ IsNext(s, Unclassified)
          /\ \E st \in ClassifiedAs(s) : status' = [status EXCEPT ![s] = st]
    BY <1>16 DEF ClassifyRecord
  <2>2. /\ pc = "classify" /\ pc' = "classify"
        /\ UNCHANGED <<attached, opened, touched, moved, sourceDisk, found, source, cand>>
    BY <1>16 DEF ClassifyRecord
  <2>3. s # source
    BY <2>1, <2>2 DEF IsNext
  <2>4. source \in Slots => status'[source] = status[source]
    BY <2>1, <2>3
  <2>5. source \notin target_action_disks' /\ source \notin Unclassified'
    BY <2>2, <2>4 DEF target_action_disks, Unclassified
  <2> QED
    BY <2>2, <2>5
<1>17. CASE InspectDone
  BY <1>17 DEF InspectDone, target_action_disks, Unclassified
<1> QED
    BY <1>1, <1>2, <1>3, <1>4, <1>5, <1>6, <1>7, <1>8, <1>9, <1>10, <1>11,
     <1>12, <1>13, <1>14, <1>15, <1>16, <1>17 DEF Preparation

\* The descriptor is opened on a slot that is not the source's.
LEMMA TransactionSourceInv ==
  ASSUME TypeOK, WriteInv, SourceInv, Transaction
  PROVE  SourceInv'
<1> USE DEF SourceInv, Discovered, Verifying, Writing, StopWith,
            machineVars, scanVars, sceneVars, txnVars, ghostVars, target_action_disks,
            StopTransaction, Overwrite, Spoil
<1>1. CASE Reread
  BY <1>1 DEF Reread
<1>2. CASE RereadFails
  BY <1>2 DEF RereadFails
<1>3. CASE ConflictProbe
  BY <1>3 DEF ConflictProbe
<1>4. CASE ConflictDone
  BY <1>4 DEF ConflictDone
<1>5. CASE Revalidate
  BY <1>5 DEF Revalidate
<1>6. CASE RevalidateFails
  BY <1>6 DEF RevalidateFails
<1>7. CASE ValidatePayload
  BY <1>7 DEF ValidatePayload
<1>8. CASE ValidateFails
  BY <1>8 DEF ValidateFails
<1>9. CASE OpenTarget
  <2>1. /\ pc = "open" /\ pc' = "begin" /\ opened' = attached[target]
        /\ target \in Slots
        /\ UNCHANGED <<attached, touched, moved, sourceDisk, found, source, status>>
    BY <1>9 DEF OpenTarget, Listed
  <2>2. target \in target_action_disks
    BY <2>1 DEF WriteInv
  <2>3. target \notin found
    BY <2>1, <2>2
  <2>4. attached[target] = sourceDisk /\ sourceDisk # NoDisk => moved
    BY <2>1, <2>3
  <2> QED
    BY <2>1, <2>4 DEF target_action_disks
<1>10. CASE OpenFails
  BY <1>10 DEF OpenFails
<1>11. CASE BeginWrite
  BY <1>11 DEF BeginWrite
<1>12. CASE ScrubHead
  BY <1>12 DEF ScrubHead
<1>13. CASE ScrubTail
  BY <1>13 DEF ScrubTail
<1>14. CASE ScrubFails
  BY <1>14 DEF ScrubFails
<1>15. CASE CopyHead
  BY <1>15 DEF CopyHead
<1>16. CASE CopyBody
  BY <1>16 DEF CopyBody
<1>17. CASE CopyTail
  BY <1>17 DEF CopyTail
<1>18. CASE CopyFails
  BY <1>18 DEF CopyFails
<1>19. CASE SyncTarget
  BY <1>19 DEF SyncTarget
<1>20. CASE SyncFails
  BY <1>20 DEF SyncFails
<1>21. CASE CloseTarget
  BY <1>21 DEF CloseTarget
<1> QED
    BY <1>1, <1>2, <1>3, <1>4, <1>5, <1>6, <1>7, <1>8, <1>9, <1>10, <1>11,
     <1>12, <1>13, <1>14, <1>15, <1>16, <1>17, <1>18, <1>19, <1>20, <1>21 DEF
     Transaction

\* The exits end every transaction.
LEMMA ExitSourceInv ==
  ASSUME TypeOK, WriteInv, SourceInv, Exit
  PROVE  SourceInv'
<1> USE DEF SourceInv, Discovered, Verifying, Writing, StopWith,
            machineVars, scanVars, sceneVars, txnVars, ghostVars, target_action_disks
<1>1. CASE StopTick
  BY <1>1 DEF StopTick
<1>2. CASE FatalTimeout
  BY <1>2 DEF FatalTimeout
<1>3. CASE ControlledExit
  BY <1>3 DEF ControlledExit
<1> QED
    BY <1>1, <1>2, <1>3 DEF Exit

\* No key changes what discovery found.
LEMMA OperatorSourceInv ==
  ASSUME TypeOK, WriteInv, SourceInv, Operator
  PROVE  SourceInv'
<1> USE DEF SourceInv, Discovered, Verifying, Writing, StopWith,
            machineVars, scanVars, sceneVars, txnVars, ghostVars, target_action_disks
<1>1. CASE PrepareEnter
  BY <1>1 DEF PrepareEnter
<1>2. CASE SelectArrow
  BY <1>2 DEF SelectArrow
<1>3. CASE SelectTab
  BY <1>3 DEF SelectTab
<1>4. CASE ConfirmTarget
  BY <1>4 DEF ConfirmTarget
<1>5. CASE Refresh
  BY <1>5 DEF Refresh
<1>6. CASE ChoosePowerOff
  BY <1>6 DEF ChoosePowerOff
<1>7. CASE ConfirmTab
  BY <1>7 DEF ConfirmTab
<1>8. CASE ConfirmBack
  BY <1>8 DEF ConfirmBack
<1>9. CASE EnterErase
  BY <1>9 DEF EnterErase
<1>10. CASE EnterInstall
  BY <1>10 DEF EnterInstall
<1>11. CASE DoneTab
  BY <1>11 DEF DoneTab
<1>12. CASE DoneChooseTarget
  BY <1>12 DEF DoneChooseTarget
<1>13. CASE DoneExit
  BY <1>13 DEF DoneExit
<1>14. CASE StopEnter
  BY <1>14 DEF StopEnter
<1> QED
    BY <1>1, <1>2, <1>3, <1>4, <1>5, <1>6, <1>7, <1>8, <1>9, <1>10, <1>11,
     <1>12, <1>13, <1>14 DEF Operator

\* A failed render ends the transaction.
LEMMA FailureSourceInv ==
  ASSUME TypeOK, WriteInv, SourceInv, Failure
  PROVE  SourceInv'
<1> USE DEF SourceInv, Discovered, Verifying, Writing, StopWith,
            machineVars, scanVars, sceneVars, txnVars, ghostVars,
            target_action_disks, StopTransaction
<1>1. CASE PrepareRenderFails
  BY <1>1 DEF PrepareRenderFails
<1>2. CASE RenderFails
  BY <1>2 DEF RenderFails
<1>3. CASE WriteRenderFails
  BY <1>3 DEF WriteRenderFails
<1> QED
    BY <1>1, <1>2, <1>3 DEF Failure

\* A disk that moves to a name discovery did not find sets moved.
LEMMA EnvironmentSourceInv ==
  ASSUME TypeOK, WriteInv, SourceInv, Environment
  PROVE  SourceInv'
<1> USE DEF SourceInv, Discovered, Verifying, Writing, target_action_disks,
            ActionStatuses, Unclassified, machineVars, scanVars, sceneVars, txnVars, ghostVars
<1>1. CASE Boot
  BY <1>1 DEF Boot
<1>2. ASSUME NEW s \in Slots, Unplug(s)
      PROVE  SourceInv'
  BY <1>2, DisksAssumption DEF Unplug, TypeOK, MachineOK, Attachment
<1>3. ASSUME NEW s \in Slots, NEW d \in Disks, Plug(s, d)
      PROVE  SourceInv'
  BY <1>3, DisksAssumption DEF Plug, TypeOK, MachineOK, Attachment
<1>4. CASE PowerCut
  BY <1>4 DEF PowerCut
<1> QED
  BY <1>1, <1>2, <1>3, <1>4 DEF Environment

\* SourceInv is inductive relative to TypeOK and WriteInv.
LEMMA NextSourceInv == TypeOK /\ WriteInv /\ SourceInv /\ [Next]_vars => SourceInv'
<1> SUFFICES ASSUME TypeOK, WriteInv, SourceInv, [Next]_vars PROVE SourceInv'
  OBVIOUS
<1>1. CASE UNCHANGED vars
  BY <1>1 DEF vars, SourceInv, target_action_disks, Unclassified,
              machineVars, scanVars, sceneVars, txnVars, ghostVars
<1>2. CASE Next
  BY <1>2, PreparationSourceInv, TransactionSourceInv, ExitSourceInv,
     OperatorSourceInv, FailureSourceInv, EnvironmentSourceInv DEF Next, Program
<1> QED
  BY <1>1, <1>2

\* Until it is attached again under another name, the medium the payload comes
\* from is not written to, by an install or by an erase, however disks move.
THEOREM SourceIsSpared == Spec => []SourceSpared
<1>1. TypeOK /\ SourceInv => SourceSpared
  BY DisksAssumption DEF SourceInv, SourceSpared, TypeOK, TransactionOK
<1> QED
  BY <1>1, InitSourceInv, NextSourceInv, TypeCorrectness, WriteInvariant, PTL
     DEF Spec

-----------------------------------------------------------------------------
(* The promise.                                                            *)

\* What a step of Next does in the terms of WriteVerdict.
AbstractStep == [Promise!Next]_(Promise!vars)

\* Preparation writes nothing: a scene it fails in is a Refuse or a GoDown.
LEMMA PreparationRefines ==
  ASSUME TypeOK, WriteInv, Preparation
  PROVE  AbstractStep
<1> USE DEF AbstractStep, Verdict, Promise!vars, Promise!Next, Promise!Write,
            Promise!Refuse, Promise!Fail, Promise!Complete, Promise!Continue,
            Promise!GoDown, Promise!Start, StopWith,
            machineVars, scanVars, sceneVars, txnVars, ghostVars, WriteInv, Unwritten, Preparing
<1>1. CASE StartupFails
  BY <1>1 DEF StartupFails
<1>2. CASE UnsupportedDisplay
  BY <1>2 DEF UnsupportedDisplay
<1>3. CASE FirstFrame
  BY <1>3 DEF FirstFrame
<1>4. CASE LoadModule
  BY <1>4 DEF LoadModule
<1>5. CASE ModuleLoadFails
  BY <1>5 DEF ModuleLoadFails
<1>6. CASE DiscoverList
  BY <1>6 DEF DiscoverList
<1>7. CASE ListFails
  BY <1>7 DEF ListFails
<1>8. CASE ProbeSource
  BY <1>8 DEF ProbeSource
<1>9. CASE SourceDiscovered
  BY <1>9 DEF SourceDiscovered, PassIsOver
<1>10. CASE SourceAmbiguous
  BY <1>10 DEF SourceAmbiguous, PassIsOver
<1>11. CASE SourceNotFound
  BY <1>11 DEF SourceNotFound, PassIsOver
<1>12. CASE NextPass
  BY <1>12 DEF NextPass, PassIsOver
<1>13. CASE InspectList
  BY <1>13 DEF InspectList
<1>14. CASE AttachedProbe
  BY <1>14 DEF AttachedProbe
<1>15. CASE AttachedDone
  BY <1>15 DEF AttachedDone
<1>16. CASE ClassifyRecord
  BY <1>16 DEF ClassifyRecord
<1>17. CASE InspectDone
  BY <1>17 DEF InspectDone
<1> QED
    BY <1>1, <1>2, <1>3, <1>4, <1>5, <1>6, <1>7, <1>8, <1>9, <1>10, <1>11,
     <1>12, <1>13, <1>14, <1>15, <1>16, <1>17 DEF Preparation

\* A write that fails has reached the opened disk or none.
LEMMA SpoilWrites ==
  ASSUME NEW region, Spoil(region)
  PROVE  \/ touched' = touched
         \/ opened # NoDisk /\ touched' = touched \cup {opened}
BY DEF Spoil

\* A write is a Write of the one disk, with the failure that may end it.
LEMMA TransactionRefines ==
  ASSUME TypeOK, WriteInv, WrittenInv, Transaction
  PROVE  AbstractStep
<1> USE DEF AbstractStep, Verdict, Promise!vars, Promise!Next, Promise!Write,
            Promise!Refuse, Promise!Fail, Promise!Complete, Promise!Continue,
            Promise!GoDown, Promise!Start, StopWith,
            machineVars, scanVars, sceneVars, txnVars, ghostVars
<1>1. CASE Reread
  BY <1>1 DEF Reread, WriteInv, Unwritten, Verifying
<1>2. CASE RereadFails
  BY <1>2 DEF RereadFails, StopTransaction, WriteInv, Unwritten, Verifying
<1>3. CASE ConflictProbe
  BY <1>3 DEF ConflictProbe
<1>4. CASE ConflictDone
  BY <1>4 DEF ConflictDone
<1>5. CASE Revalidate
  BY <1>5 DEF Revalidate
<1>6. CASE RevalidateFails
  BY <1>6 DEF RevalidateFails, StopTransaction, WriteInv, Unwritten, Verifying
<1>7. CASE ValidatePayload
  BY <1>7 DEF ValidatePayload
<1>8. CASE ValidateFails
  BY <1>8 DEF ValidateFails, StopTransaction, WriteInv, Unwritten, Verifying
<1>9. CASE OpenTarget
  BY <1>9 DEF OpenTarget
<1>10. CASE OpenFails
  BY <1>10 DEF OpenFails, StopTransaction, WriteInv, Unwritten, Verifying
<1>11. CASE BeginWrite
  BY <1>11 DEF BeginWrite
<1>12. CASE ScrubHead
  <2>1. opened \in Disks /\ touched \in {{}, {opened}}
    BY <1>12 DEF ScrubHead, Overwrite, WriteInv, TypeOK, TransactionOK
  <2>2. touched' = {opened}
    BY <1>12, <2>1 DEF ScrubHead, Overwrite
  <2>3. Verdict = "open" /\ Verdict' = "open"
    BY <1>12 DEF ScrubHead, Overwrite
  <2> QED
    BY <2>1, <2>2, <2>3
<1>13. CASE ScrubTail
  <2>1. opened \in Disks /\ touched \in {{}, {opened}}
    BY <1>13 DEF ScrubTail, Overwrite, WriteInv, TypeOK, TransactionOK
  <2>2. touched' = {opened}
    BY <1>13, <2>1 DEF ScrubTail, Overwrite
  <2>3. Verdict = "open" /\ Verdict' = "open"
    BY <1>13 DEF ScrubTail, Overwrite
  <2> QED
    BY <2>1, <2>2, <2>3
<1>14. CASE ScrubFails
  <2>1. opened # NoDisk => opened \in Disks /\ touched \in {{}, {opened}}
    BY DEF WriteInv, TypeOK, TransactionOK
  <2>2. \/ touched' = touched
        \/ opened # NoDisk /\ touched' = touched \cup {opened}
    BY <1>14, SpoilWrites DEF ScrubFails, TargetFails
  <2>3. Verdict = "open" /\ Verdict' = "failed"
    BY <1>14 DEF ScrubFails, StopTransaction
  <2> QED
    BY <2>1, <2>2, <2>3
<1>15. CASE CopyHead
  <2>1. opened \in Disks /\ touched \in {{}, {opened}}
    BY <1>15 DEF CopyHead, Overwrite, WriteInv, TypeOK, TransactionOK
  <2>2. touched' = {opened}
    BY <1>15, <2>1 DEF CopyHead, Overwrite
  <2>3. Verdict = "open" /\ Verdict' = "open"
    BY <1>15 DEF CopyHead, Overwrite
  <2> QED
    BY <2>1, <2>2, <2>3
<1>16. CASE CopyBody
  <2>1. opened \in Disks /\ touched \in {{}, {opened}}
    BY <1>16 DEF CopyBody, Overwrite, WriteInv, TypeOK, TransactionOK
  <2>2. touched' = {opened}
    BY <1>16, <2>1 DEF CopyBody, Overwrite
  <2>3. Verdict = "open" /\ Verdict' = "open"
    BY <1>16 DEF CopyBody, Overwrite
  <2> QED
    BY <2>1, <2>2, <2>3
<1>17. CASE CopyTail
  <2>1. opened \in Disks /\ touched \in {{}, {opened}}
    BY <1>17 DEF CopyTail, Overwrite, WriteInv, TypeOK, TransactionOK
  <2>2. touched' = {opened}
    BY <1>17, <2>1 DEF CopyTail, Overwrite
  <2>3. Verdict = "open" /\ Verdict' = "open"
    BY <1>17 DEF CopyTail, Overwrite
  <2> QED
    BY <2>1, <2>2, <2>3
<1>18. CASE CopyFails
  <2>1. opened # NoDisk => opened \in Disks /\ touched \in {{}, {opened}}
    BY DEF WriteInv, TypeOK, TransactionOK
  <2>2. \/ touched' = touched
        \/ opened # NoDisk /\ touched' = touched \cup {opened}
    BY <1>18, SpoilWrites DEF CopyFails, TargetFails
  <2>3. Verdict = "open" /\ Verdict' = "failed"
    BY <1>18 DEF CopyFails, StopTransaction
  <2> QED
    BY <2>1, <2>2, <2>3
<1>19. CASE SyncTarget
  BY <1>19 DEF SyncTarget
<1>20. CASE SyncFails
  BY <1>20 DEF SyncFails, StopTransaction
<1>21. CASE CloseTarget
  BY <1>21 DEF CloseTarget, WrittenInv
<1> QED
    BY <1>1, <1>2, <1>3, <1>4, <1>5, <1>6, <1>7, <1>8, <1>9, <1>10, <1>11,
     <1>12, <1>13, <1>14, <1>15, <1>16, <1>17, <1>18, <1>19, <1>20, <1>21 DEF
     Transaction

\* Every exit is a GoDown.
LEMMA ExitRefines ==
  ASSUME TypeOK, WriteInv, Exit
  PROVE  AbstractStep
<1> USE DEF AbstractStep, Verdict, Promise!vars, Promise!Next, Promise!Write,
            Promise!Refuse, Promise!Fail, Promise!Complete, Promise!Continue,
            Promise!GoDown, Promise!Start, StopWith,
            machineVars, scanVars, sceneVars, txnVars, ghostVars
<1>1. CASE StopTick
  BY <1>1 DEF StopTick
<1>2. CASE FatalTimeout
  BY <1>2 DEF FatalTimeout
<1>3. CASE ControlledExit
  BY <1>3 DEF ControlledExit
<1> QED
    BY <1>1, <1>2, <1>3 DEF Exit

\* The operator continues after Done, or turns the machine off.
LEMMA OperatorRefines ==
  ASSUME TypeOK, WriteInv, Operator
  PROVE  AbstractStep
<1> USE DEF AbstractStep, Verdict, Promise!vars, Promise!Next, Promise!Write,
            Promise!Refuse, Promise!Fail, Promise!Complete, Promise!Continue,
            Promise!GoDown, Promise!Start, StopWith,
            machineVars, scanVars, sceneVars, txnVars, ghostVars
<1>1. CASE PrepareEnter
  BY <1>1 DEF PrepareEnter
<1>2. CASE SelectArrow
  BY <1>2 DEF SelectArrow
<1>3. CASE SelectTab
  BY <1>3 DEF SelectTab
<1>4. CASE ConfirmTarget
  BY <1>4 DEF ConfirmTarget
<1>5. CASE Refresh
  BY <1>5 DEF Refresh
<1>6. CASE ChoosePowerOff
  BY <1>6 DEF ChoosePowerOff
<1>7. CASE ConfirmTab
  BY <1>7 DEF ConfirmTab
<1>8. CASE ConfirmBack
  BY <1>8 DEF ConfirmBack
<1>9. CASE EnterErase
  BY <1>9 DEF EnterErase
<1>10. CASE EnterInstall
  BY <1>10 DEF EnterInstall
<1>11. CASE DoneTab
  BY <1>11 DEF DoneTab
<1>12. CASE DoneChooseTarget
  BY <1>12 DEF DoneChooseTarget
<1>13. CASE DoneExit
  BY <1>13 DEF DoneExit
<1>14. CASE StopEnter
  BY <1>14 DEF StopEnter
<1> QED
    BY <1>1, <1>2, <1>3, <1>4, <1>5, <1>6, <1>7, <1>8, <1>9, <1>10, <1>11,
     <1>12, <1>13, <1>14 DEF Operator

\* A render that fails in the transaction is a Fail, any other a GoDown.
LEMMA FailureRefines ==
  ASSUME TypeOK, WriteInv, Failure
  PROVE  AbstractStep
<1> USE DEF AbstractStep, Verdict, Promise!vars, Promise!Next, Promise!Write,
            Promise!Refuse, Promise!Fail, Promise!Complete, Promise!Continue,
            Promise!GoDown, Promise!Start, StopWith,
            machineVars, scanVars, sceneVars, txnVars, ghostVars
<1>1. CASE PrepareRenderFails
  BY <1>1 DEF PrepareRenderFails, WriteInv, Unwritten, Preparing
<1>2. CASE RenderFails
  BY <1>2 DEF RenderFails
<1>3. CASE WriteRenderFails
  BY <1>3 DEF WriteRenderFails, StopTransaction
<1> QED
    BY <1>1, <1>2, <1>3 DEF Failure

\* A boot is a Start, a power cut a GoDown; disks that move are not noticed.
LEMMA EnvironmentRefines ==
  ASSUME TypeOK, WriteInv, Environment
  PROVE  AbstractStep
<1> USE DEF AbstractStep, Verdict, Promise!vars, Promise!Next, Promise!Write,
            Promise!Refuse, Promise!Fail, Promise!Complete, Promise!Continue,
            Promise!GoDown, Promise!Start, StopWith,
            machineVars, scanVars, sceneVars, txnVars, ghostVars
<1>1. CASE Boot
  BY <1>1 DEF Boot
<1>2. ASSUME NEW s \in Slots, Unplug(s)
      PROVE  AbstractStep
  BY <1>2 DEF Unplug
<1>3. ASSUME NEW s \in Slots, NEW d \in Disks, Plug(s, d)
      PROVE  AbstractStep
  BY <1>3 DEF Plug
<1>4. CASE PowerCut
  BY <1>4 DEF PowerCut
<1> QED
  BY <1>1, <1>2, <1>3, <1>4 DEF Environment

\* The scenes of the installer keep the promise of WriteVerdict: no operation
\* writes to two disks, a refusal follows no write, a completion follows one,
\* and after a failure or a poweroff nothing is written before a new start.
THEOREM InstallerImplementsVerdict == Spec => PromiseKept
<1>1. Init => Promise!Init
  BY DEF Init, Promise!Init, Verdict
<1>2. TypeOK /\ WriteInv /\ WrittenInv /\ [Next]_vars => AbstractStep
  <2> SUFFICES ASSUME TypeOK, WriteInv, WrittenInv, [Next]_vars
               PROVE  AbstractStep
    OBVIOUS
  <2>1. CASE UNCHANGED vars
    BY <2>1 DEF AbstractStep, Promise!vars, Verdict, vars, txnVars
  <2>2. CASE Next
    BY <2>2, PreparationRefines, TransactionRefines, ExitRefines,
       OperatorRefines, FailureRefines, EnvironmentRefines DEF Next, Program
  <2> QED
    BY <2>1, <2>2
<1> QED
  BY <1>1, <1>2, InitWrittenInv, NextWrittenInv, TypeCorrectness,
     WriteInvariant, PTL DEF Spec, PromiseKept, Promise!Spec, AbstractStep
==============================================================================
