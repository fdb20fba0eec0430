----------------------------- MODULE MCInstaller -----------------------------
(***************************************************************************)
(* Instances of Installer for TLC: one medium, one disk to install on and, *)
(* where a run needs it, another disk that may hold an installed system.   *)
(***************************************************************************)
EXTENDS Installer, TLC

CONSTANTS medium, main, other, none, noId, idMedium, idMain, idOther

All(b) == [r \in Regions |-> b]

MediumBytes  == ("head" :> "media") @@ ("body" :> "media") @@ All("foreign")
ForeignBytes == All("foreign")
\* An installation whose first boot has grown the root to the end of the disk.
GrownBytes   == ("head" :> "grown") @@ All("yaoshi")
\* A fresh installation on a disk larger than the image.
FreshBytes   == ("end" :> "foreign") @@ All("yaoshi")
\* What an erase leaves of it.
ErasedBytes  == ("head" :> "zero") @@ ("end" :> "zero") @@ All("yaoshi")

Ids3 == (medium :> idMedium) @@ (main :> idMain) @@ (other :> idOther)
Ids2 == (medium :> idMedium) @@ (main :> idMain)

\* Hot plugging: other may be on the shelf or in the machine from the start.
HotplugLayouts ==
  {(1 :> medium) @@ (2 :> main) @@ (3 :> none),
   (1 :> main) @@ (2 :> medium) @@ (3 :> other)}
HotplugContents ==
  (medium :> {MediumBytes}) @@ (main :> {ForeignBytes})
    @@ (other :> {GrownBytes})

\* Power cuts: one target, over everything an earlier life may have left.
PairLayouts  == {(1 :> medium) @@ (2 :> main)}
PairContents == (medium :> {MediumBytes})
                  @@ (main :> {ForeignBytes, GrownBytes, FreshBytes, ErasedBytes})
\* Two media in one machine.
TwoMediaContents == (medium :> {MediumBytes})
                      @@ (main :> {ForeignBytes, MediumBytes})

\* What LooksInstalledOnlyWhenWhole needs of them.
ASSUME ContentsAreHonest == HonestContents
==============================================================================
