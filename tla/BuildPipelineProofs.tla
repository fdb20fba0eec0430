------------------------- MODULE BuildPipelineProofs -------------------------
(***************************************************************************)
(* What a build that ends well leaves, what an entry of the cache stands   *)
(* for, and what a build after another one does again: for any inputs,     *)
(* versions, edits, interruptions and damage.                              *)
(***************************************************************************)
EXTENDS BuildPipeline, TLAPS

-----------------------------------------------------------------------------
(* The graph of phases.                                                    *)

\* The phases by name.
LEMMA PhaseNames ==
  Phases = {"resolve-debian-package-root", "resolve-customized-root",
            "resolve-root-bridge-overlay", "resolve-installed-root-source",
            "resolve-installed-root-ext4", "build-yaoshi-installer-musl",
            "build-yaoshi-dashboard-musl", "pack-installed-esp-fat32",
            "pack-installed-system-payload", "compute-installer-module-closure",
            "pack-installer-base-initramfs-zstd", "pack-installer-app-initramfs-zstd",
            "pack-installer-boot-fat32", "pack-final-installer-mbr-composite"}
BY DEF Phases, Order

\* They are fourteen, all different, the final image is the last one.
LEMMA OrderFacts ==
  /\ DOMAIN Order = 1..14 /\ Len(Order) = 14
  /\ \A n \in 1..14 : Order[n] \in Phases /\ (Order[n] = Last <=> n = 14)
  /\ \A n, m \in 1..14 : n # m => Order[n] # Order[m]
  /\ \A p \in Phases : \E n \in 1..14 : p = Order[n]
BY DEF Phases, Order, Last

\* A phase hashes inputs that keys know and builds on phases.
LEMMA EdgeFacts ==
  \A p \in Phases :
    Direct(p) \subseteq Keyed /\ Upstream(p) \subseteq Phases /\ StagedFor(p) \subseteq WorkFiles
<1> SUFFICES ASSUME NEW p \in Phases
             PROVE  /\ Direct(p) \subseteq Keyed /\ Upstream(p) \subseteq Phases
                    /\ StagedFor(p) \subseteq WorkFiles
  OBVIOUS
<1>1. Direct(p) \subseteq Keyed
  BY DEF Direct, Keyed, Config, Sources
<1>2. Upstream(p) \subseteq Phases
  BY PhaseNames DEF Upstream
<1>3. StagedFor(p) \subseteq WorkFiles
  BY DEF WorkFiles
<1> QED
  BY <1>1, <1>2, <1>3

\* The order is one of the graph: what a phase builds on comes before it.
LEMMA UpstreamFirst ==
  ASSUME NEW n \in 1..14, NEW q \in Upstream(Order[n])
  PROVE  \E m \in 1..(n - 1) : q = Order[m]
BY DEF Order, Upstream

-----------------------------------------------------------------------------
(* Types.                                                                  *)

Looking == {"lookup", "environment", "work", "produce", "store"}

\* A phase is at hand while one is looked up, produced or stored.
AtPhase == pc \in Looking => at \in 1..14

\* What a producer body reads is pairs of inputs and versions.
LEMMA ProducedType ==
  ASSUME TypeOK, NEW p \in Phases, NEW recipe \in {"rendered", "builtin"}
  PROVE  Produced(p, recipe) \subseteq Pairs
<1>1. \A i \in Keyed : Now(i) \in Versions /\ i \in Inputs
  BY DEF TypeOK, Now, Keyed, Inputs, Config, Sources
<1>2. disk["mirror"] \in Versions /\ "mirror" \in Inputs
  BY DEF TypeOK, Inputs
<1>3. ReadBy(p, recipe) \subseteq Pairs
  <2>1. {<<i, Now(i)>> : i \in Direct(p)} \subseteq Pairs
    BY <1>1, EdgeFacts DEF Pairs
  <2>2. <<"mirror", disk["mirror"]>> \in Pairs /\ <<"mke2fs.conf", recipe>> \in Pairs
    BY <1>2 DEF Pairs
  <2> QED
    BY <2>1, <2>2 DEF ReadBy
<1>4. \A q \in Upstream(p) : Taken(p, outs[q]) \subseteq Pairs
  BY EdgeFacts DEF Taken, TypeOK, Outputs
<1> QED
  BY <1>3, <1>4 DEF Produced

\* A key is made of pairs.
LEMMA KeyType ==
  ASSUME TypeOK, NEW p \in Phases
  PROVE  KeyOf(p) \in Keys
<1>1. \A i \in Keyed : Now(i) \in Versions /\ i \in Inputs
  BY DEF TypeOK, Now, Keyed, Inputs, Config, Sources
<1>2. {<<i, Now(i)>> : i \in Direct(p)} \subseteq Pairs
  BY <1>1, EdgeFacts DEF Pairs
<1>3. \A q \in Upstream(p) : Hashed(p, outs[q]) \subseteq Pairs
  BY EdgeFacts DEF Hashed, TypeOK, Outputs
<1> QED
  BY <1>2, <1>3 DEF KeyOf, Keys

\* Fingerprints are what they should be.
LEMMA PrintsType == TypeOK => Fingerprints \in Prints
BY DEF TypeOK, Fingerprints, Prints, FileHashed, Inputs, Config, Sources

\* Resolving a phase puts an output at it and goes on to the next.
LEMMA ResolvesType ==
  ASSUME TypeOK, AtPhase, pc \in Looking, NEW o \in SUBSET Pairs, Resolves(o)
  PROVE  /\ outs' \in Outputs /\ at' \in 1..15
         /\ pc' \in {"publish", "lookup"} /\ verdict' = verdict
         /\ pc' = "lookup" => at' \in 1..14
BY OrderFacts DEF TypeOK, AtPhase, Resolves, Outputs, Goes

\* Every variable has its type at first, and no phase is at hand.
LEMMA TypeInit == Init => TypeOK /\ AtPhase
<1> SUFFICES ASSUME Init PROVE TypeOK /\ AtPhase
  OBVIOUS
<1>1. disk \in [Inputs -> Versions] /\ conf \in [Config -> Versions] /\ fp \in Prints
  BY VersionsAssumption DEF Init, Prints
<1>2. key \in Keys /\ outs \in Outputs
  BY DEF Init, Keys, Outputs
<1>3. edits \in 0..MaxEdits /\ faults \in 0..MaxFaults
  BY BoundsAssumption DEF Init
<1>4. at \in 1..Len(Order) + 1 /\ index = {} /\ staged = {} /\ product = {} /\ made = {}
  BY OrderFacts DEF Init
<1>5. pc \in Labels /\ verdict \in Verdicts /\ caller \in {"run_build", "ensure", "require"}
  BY DEF Init, Labels, Verdicts
<1>6. probe \in BOOLEAN /\ prepared \in BOOLEAN /\ torn \in BOOLEAN /\ raced \in BOOLEAN
  BY DEF Init
<1>7. image = Absent /\ stamp = Absent /\ last = <<>> /\ AtPhase
  BY DEF Init, AtPhase, Looking
<1> QED
  BY <1>1, <1>2, <1>3, <1>4, <1>5, <1>6, <1>7 DEF TypeOK

\* A step keeps the types and the phase at hand.
LEMMA TypeStep == TypeOK /\ AtPhase /\ [Next]_vars => TypeOK' /\ AtPhase'
<1> SUFFICES ASSUME TypeOK, AtPhase, [Next]_vars PROVE TypeOK' /\ AtPhase'
  OBVIOUS
<1>l. Len(Order) = 14
  BY OrderFacts
<1>n. pc \in Looking => Order[at] \in Phases
  BY OrderFacts DEF AtPhase
<1> USE <1>l DEF files, local, bounds, history, Ends, Goes, Looking, Labels, Verdicts
<1>1. CASE UNCHANGED vars
  BY <1>1 DEF vars, TypeOK, AtPhase
<1>2. ASSUME NEW i \in Editable, NEW v \in Versions, Edit(i, v) PROVE TypeOK' /\ AtPhase'
  <2>1. disk' \in [Inputs -> Versions]
    BY <1>2 DEF Edit, TypeOK
  <2>2. raced' \in BOOLEAN /\ edits' \in 0..MaxEdits
    BY <1>2, BoundsAssumption DEF Edit, TypeOK
  <2> QED
    BY <1>2, <2>1, <2>2 DEF Edit, TypeOK, AtPhase
<1>3. CASE Damage
  BY <1>3, BoundsAssumption DEF Damage, TypeOK, AtPhase
<1>4. ASSUME NEW c \in Callers, Start(c) PROVE TypeOK' /\ AtPhase'
  <2>1. \A i \in Keyed : Meant(i) \in Versions
    BY DEF TypeOK, Meant, Prints, Keyed, FileHashed
  <2> QED
    BY <1>4, <2>1, CallersAssumption DEF Start, TypeOK, AtPhase
<1>5. CASE Interrupt
  BY <1>5, BoundsAssumption DEF Interrupt, TypeOK, AtPhase
<1>6. CASE LoadConfig
  <2>1. conf' \in [Config -> Versions]
    BY <1>6 DEF LoadConfig, TypeOK, Inputs
  <2> QED
    BY <1>6, <2>1 DEF LoadConfig, TypeOK, AtPhase
<1>7. CASE ComputeFingerprints
  BY <1>7, PrintsType DEF ComputeFingerprints, TypeOK, AtPhase
<1>8. CASE CheckCurrentImage
  BY <1>8 DEF CheckCurrentImage, MissReason, TypeOK, AtPhase
<1>9. CASE ResolveCurrentImage
  <2>1. outs' \in Outputs
    BY <1>9 DEF ResolveCurrentImage, TypeOK, Outputs
  <2>2. at' \in 1..15 /\ AtPhase'
    BY <1>9, SMTT(30) DEF ResolveCurrentImage, TypeOK, AtPhase
  <2>4. prepared' \in BOOLEAN
    BY <1>9, Zenon DEF ResolveCurrentImage, TypeOK
  <2>3. pc' \in Labels /\ verdict' \in Verdicts
    BY <1>9 DEF ResolveCurrentImage, TypeOK
  <2> QED
    BY <1>9, <2>1, <2>2, <2>3, <2>4 DEF ResolveCurrentImage, TypeOK
<1>10. CASE LookupHit
  <2>1. PICK e \in Hits(Order[at]) : Resolves(e.out)
    BY <1>10 DEF LookupHit
  <2>2. e.out \in SUBSET Pairs
    BY DEF Hits, TypeOK, Entries
  <2>3. staged' \subseteq WorkFiles
    BY <1>10, <1>n, EdgeFacts DEF LookupHit, TypeOK
  <2> QED
    BY <1>10, <2>1, <2>2, <2>3, ResolvesType DEF LookupHit, TypeOK, AtPhase
<1>11. CASE LookupMiss
  <2>1. staged' \subseteq WorkFiles /\ key' \in Keys
    BY <1>11, <1>n, EdgeFacts, KeyType DEF LookupMiss, TypeOK
  <2> QED
    BY <1>11, <2>1 DEF LookupMiss, TypeOK, AtPhase
<1>12. CASE CheckEnvironment
  <2>1. probe' \in BOOLEAN /\ pc' \in Labels /\ verdict' \in Verdicts
    BY <1>12 DEF CheckEnvironment, TypeOK
  <2>2. AtPhase'
    BY <1>12 DEF CheckEnvironment, AtPhase
  <2> QED
    BY <1>12, <2>1, <2>2 DEF CheckEnvironment, TypeOK
<1>13. CASE PrepareWorkRoot
  <2>1. probe' \in BOOLEAN /\ prepared' \in BOOLEAN /\ staged' \subseteq WorkFiles
    BY <1>13 DEF PrepareWorkRoot
  <2>2. AtPhase'
    BY <1>13 DEF PrepareWorkRoot, AtPhase
  <2> QED
    BY <1>13, <2>1, <2>2 DEF PrepareWorkRoot, TypeOK
<1>14. CASE RunProducer
  <2>1. product' \subseteq Pairs /\ made' \subseteq Phases
    BY <1>14, <1>n, ProducedType DEF RunProducer, TypeOK
  <2> QED
    BY <1>14, <2>1 DEF RunProducer, TypeOK, AtPhase
<1>15. CASE StoreOutput
  <2>1. index' \subseteq Entries
    BY <1>15, <1>n DEF StoreOutput, TypeOK, Entries
  <2>2. Resolves(product) /\ product \in SUBSET Pairs
    BY <1>15 DEF StoreOutput, TypeOK
  <2> QED
    BY <1>15, <2>1, <2>2, ResolvesType DEF StoreOutput, TypeOK, AtPhase
<1>16. CASE InstallImage
  <2>1. outs[Last] \subseteq Pairs
    BY OrderFacts DEF TypeOK, Outputs
  <2> QED
    BY <1>16, <2>1 DEF InstallImage, TypeOK, AtPhase, Whole
<1>17. CASE WriteStamp
  BY <1>17, PrintsType DEF WriteStamp, TypeOK, AtPhase, Written
<1> QED
  BY <1>1, <1>2, <1>3, <1>4, <1>5, <1>6, <1>7, <1>8, <1>9, <1>10, <1>11, <1>12,
     <1>13, <1>14, <1>15, <1>16, <1>17 DEF Next, Step

\* What a fingerprint says of an input: the configuration in memory for the
\* configuration, the file on disk for a source.
Says(f, i) == IF i \in Config THEN f.loaded[i] ELSE f.files[i]

-----------------------------------------------------------------------------
(* Reading outputs.                                                        *)

\* The inputs of which something is promised: an edit of a source under a
\* running build voids the promise for the sources from then on.
Sure == IF raced THEN Config ELSE Keyed

\* Two sets of pairs tell the same of the inputs in s.
Alike(s, o, w) == \A i \in s, v \in Versions : <<i, v>> \in o <=> <<i, v>> \in w

\* What a key hashed, of its own and of the phases it builds on.
KeyPairs(k) == k.own \cup UNION {k.ups[q] : q \in Phases}

\* As far as the inputs in s go, an output is made from those in c, each as f
\* says it is.
MadeFrom(s, o, c, f) ==
  \A i \in s, v \in Versions : <<i, v>> \in o <=> (i \in c /\ v = Says(f, i))

\* What the key k of phase p must hold for the inputs as they are seen now.
Stands(k, p) ==
  /\ \A i \in Sure, v \in Versions :
       <<i, v>> \in k.own <=> (i \in Direct(p) /\ v = Now(i))
  /\ \A q \in Phases :
       k.ups[q] = IF q \in Upstream(p) THEN Hashed(p, outs[q]) ELSE {}

\* The inputs that reach a phase through the keys; none reaches the module
\* closure, whose key says nothing of the root it copies from.
Cone(p) ==
  CASE p = "resolve-debian-package-root"       -> {"packages"}
    [] p \in {"resolve-customized-root", "resolve-installed-root-source",
              "resolve-installed-root-ext4"}   -> {"packages", "script", "vendor"}
    [] p \in {"build-yaoshi-installer-musl",
              "pack-installer-app-initramfs-zstd"} -> {"installer"}
    [] p = "build-yaoshi-dashboard-musl"       -> {"dashboard"}
    [] p = "pack-installed-esp-fat32"          -> {"identity", "packages", "dashboard"}
    [] p = "pack-installed-system-payload"     ->
         {"identity", "packages", "dashboard", "script", "vendor"}
    [] p = "pack-installer-boot-fat32"         -> {"packages", "installer"}
    [] p = "pack-final-installer-mbr-composite" -> Keyed
    [] OTHER -> {}

\* The labels from which a build goes on from one key to the image.
Resolving == Looking \cup {"publish", "stamp"}

-----------------------------------------------------------------------------
(* The inductive invariant.                                                *)

\* A running build has not ended.
Quiet == pc # "idle" => verdict = "none"

\* Since the fingerprints were taken, what a key hashes is what was meant.
NowIsMeant ==
  pc \in {"check", "resolve"} \cup Resolving =>
    \A i \in Sure : Now(i) = Meant(i)

\* The key of the phase at hand is the one it would compute now.
KeyStands ==
  pc \in {"environment", "work", "produce", "store"} => Stands(key, Order[at])

\* What is about to be stored answers for the key.
ProductAnswers == pc = "store" => Alike(Sure, product, KeyPairs(key))

\* So does every entry of the index.
EntriesAnswer == \A e \in index : Alike(Sure, e.out, KeyPairs(e.key))

\* Each phase resolved so far is made of the inputs that reach it, as meant.
ResolvedAsMeant ==
  /\ pc \in Resolving =>
       \A n \in 1..14 : n < at => MadeFrom(Sure, outs[Order[n]], Cone(Order[n]), fp)
  /\ pc \in {"publish", "stamp"} => at = 15

\* The image that is about to be stamped is the one just resolved.
ImageIsResolved == pc = "stamp" => image = Whole(outs[Last])

\* An image beside its stamp is made of what the stamp says.
StampAnswers ==
  (~torn /\ image.state = "whole" /\ stamp.state = "written") =>
    MadeFrom(Sure, image.of, Keyed, stamp.fps)

\* After a build that ended well the image is made of what was meant.
EndedAsMeant ==
  (/\ verdict = "published" \/ (verdict = "current" /\ ~torn)
   /\ image.state = "whole") => MadeFrom(Sure, image.of, Keyed, fp)

HInv == /\ TypeOK /\ AtPhase /\ Quiet /\ NowIsMeant /\ KeyStands /\ ProductAnswers
        /\ EntriesAnswer /\ ResolvedAsMeant /\ ImageIsResolved /\ StampAnswers
        /\ EndedAsMeant

-----------------------------------------------------------------------------
(* Builds after a build.                                                   *)

\* The key of phase p for inputs m and outputs o, and the entry it makes.
KeyAs(p, m, o) ==
  [own |-> {<<i, m[i]>> : i \in Direct(p)},
   ups |-> [q \in Phases |-> IF q \in Upstream(p) THEN Hashed(p, o[q]) ELSE {}]]
EntryAs(p, m, o) == [phase |-> p, key |-> KeyAs(p, m, o), out |-> o[p]]

\* What this build means, and the phases a change since the last one rebuilds.
Meaning == [i \in Keyed |-> Meant(i)]
Stale   == UNION {Rebuilt(i) : i \in {j \in Keyed : Meant(j) # last[j]}}

\* No two entries of one phase and key.
Unique == \A e, g \in index : e.phase = g.phase /\ e.key = g.key => e = g

\* Unless a source raced, the key of the phase at hand is exactly the one the
\* phase would compute now.
KeyIsExact ==
  (~raced /\ pc \in {"environment", "work", "produce", "store"})
    => key = KeyOf(Order[at])

\* What is being produced has no entry yet.
Fresh ==
  pc \in {"environment", "work", "produce", "store"} =>
    \A e \in index : ~(e.phase = Order[at] /\ e.key = key)

\* Every phase resolved has its entry, as long as no source raced.
Backed ==
  (~raced /\ (pc \in Resolving \/ verdict = "published")) =>
    \A n \in 1..14 : (n < at \/ verdict = "published")
      => EntryAs(Order[n], Meaning, outs) \in index

\* The entries of the last build that published are there, and a phase that no
\* change reaches is resolved to what it was then.
LastStands ==
  (last # <<>> /\ ~raced) =>
    \E lo \in Outputs :
      /\ \A p \in Phases : EntryAs(p, last, lo) \in index
      /\ pc \in Resolving =>
           \A n \in 1..14 : n < at /\ Order[n] \notin Stale
             => outs[Order[n]] = lo[Order[n]]

\* Nothing is produced before the first lookup, and then only what is stale.
OnlyStale ==
  /\ pc \in {"load", "fingerprint", "check", "resolve"} => made = {}
  /\ (last # <<>> /\ ~raced) =>
       /\ made \subseteq Stale
       /\ pc \in {"environment", "work", "produce", "store"} => Order[at] \in Stale

RInv == /\ HInv /\ Unique /\ KeyIsExact /\ Fresh /\ Backed /\ LastStands
        /\ OnlyStale

-----------------------------------------------------------------------------
(* Lemmas about outputs and keys.                                          *)

\* An input that counts is one that keys know.
LEMMA SureFacts ==
  Sure \subseteq Keyed /\ Keyed \subseteq Inputs /\ Sure \subseteq Inputs /\ "mirror" \notin Keyed
BY DEF Sure, Keyed, Config, Sources, Inputs

\* What holds of more inputs holds of fewer.
LEMMA FewerInputs ==
  ASSUME NEW s, NEW t, s \subseteq t
  PROVE  /\ \A o, w : Alike(t, o, w) => Alike(s, o, w)
         /\ \A o, c, f : MadeFrom(t, o, c, f) => MadeFrom(s, o, c, f)
BY DEF Alike, MadeFrom

\* The versions of an input in an output are those of its pairs.
LEMMA ContentsAre ==
  ASSUME NEW o \in SUBSET Pairs, NEW i \in Keyed
  PROVE  \A v : /\ v \in Contents(o, i) <=> <<i, v>> \in o
                /\ <<i, v>> \in o => v \in Versions
<1>1. \A x \in o : x = <<x[1], x[2]>>
  BY DEF Pairs
<1>2. i \in Inputs /\ i # "mke2fs.conf"
  BY DEF Keyed, Inputs, Config, Sources
<1>3. ASSUME NEW v, v \in Contents(o, i) PROVE <<i, v>> \in o
  BY <1>1, <1>3 DEF Contents
<1>4. ASSUME NEW v, <<i, v>> \in o PROVE v \in Contents(o, i)
  BY <1>4 DEF Contents
<1>5. ASSUME NEW v, <<i, v>> \in o PROVE v \in Versions
  BY <1>2, <1>5 DEF Pairs
<1> QED
  BY <1>3, <1>4, <1>5

\* What reaches a phase is its own inputs and what reaches the phases it builds
\* on; nothing reaches the module closure.
LEMMA ConeStep ==
  ASSUME NEW p \in Phases, NEW i \in Keyed
  PROVE  i \in Cone(p) <=>
           (p # "compute-installer-module-closure"
            /\ (i \in Direct(p) \/ \E q \in Upstream(p) : i \in Cone(q)))
BY PhaseNames DEF Cone, Direct, Upstream, Keyed, Config, Sources

\* The final image is reached by every input that keys know.
LEMMA ConeOfLast == Cone(Last) = Keyed
BY DEF Cone, Last

\* The key a phase computes stands.
LEMMA KeyOfStands == ASSUME NEW p \in Phases PROVE Stands(KeyOf(p), p)
BY DEF Stands, KeyOf

\* A key that stands holds the phase's own inputs and the outputs it hashes.
LEMMA StandsTells ==
  ASSUME NEW p \in Phases, NEW k, Stands(k, p), NEW i \in Sure, NEW v \in Versions
  PROVE  <<i, v>> \in KeyPairs(k) <=>
           \/ i \in Direct(p) /\ v = Now(i)
           \/ \E q \in Upstream(p) : <<i, v>> \in Hashed(p, outs[q])
<1>1. <<i, v>> \in KeyPairs(k) <=>
        <<i, v>> \in k.own \/ \E q \in Phases : <<i, v>> \in k.ups[q]
  BY DEF KeyPairs
<1>2. <<i, v>> \in k.own <=> (i \in Direct(p) /\ v = Now(i))
  BY DEF Stands
<1>3. ASSUME NEW q \in Phases
      PROVE  <<i, v>> \in k.ups[q] <=> (q \in Upstream(p) /\ <<i, v>> \in Hashed(p, outs[q]))
  BY DEF Stands
<1> QED
  BY <1>1, <1>2, <1>3, EdgeFacts

\* A producer body reads what its key holds, and beyond it only the mirror and
\* the format's configuration, which no key knows.
LEMMA ProducedTells ==
  ASSUME NEW p \in Phases, NEW recipe, NEW i \in Sure, NEW v \in Versions
  PROVE  <<i, v>> \in Produced(p, recipe) <=>
           \/ i \in Direct(p) /\ v = Now(i)
           \/ \E q \in Upstream(p) : <<i, v>> \in Hashed(p, outs[q])
<1>1. i # "mirror" /\ i # "mke2fs.conf"
  BY SureFacts DEF Inputs, Config, Sources, Keyed
<1>2. <<i, v>> \in ReadBy(p, recipe) <=> (i \in Direct(p) /\ v = Now(i))
  BY <1>1 DEF ReadBy
<1>3. ASSUME NEW q \in Upstream(p)
      PROVE  <<i, v>> \in Taken(p, outs[q]) <=> <<i, v>> \in Hashed(p, outs[q])
  BY <1>1 DEF Taken, Hashed
<1>4. <<i, v>> \in Produced(p, recipe) <=>
        <<i, v>> \in ReadBy(p, recipe) \/ \E q \in Upstream(p) : <<i, v>> \in Taken(p, outs[q])
  BY DEF Produced
<1> QED
  BY <1>2, <1>3, <1>4

\* An output that answers for a key that stands is made of the inputs that
\* reach its phase, if the phases before are.
LEMMA MadeStep ==
  ASSUME NEW n \in 1..14, NEW k, NEW o,
         Stands(k, Order[n]), Alike(Sure, o, KeyPairs(k)),
         \A i \in Sure : Now(i) = Meant(i),
         \A m \in 1..14 : m < n => MadeFrom(Sure, outs[Order[m]], Cone(Order[m]), fp)
  PROVE  MadeFrom(Sure, o, Cone(Order[n]), fp)
<1> SUFFICES ASSUME NEW i \in Sure, NEW v \in Versions
             PROVE  <<i, v>> \in o <=> (i \in Cone(Order[n]) /\ v = Says(fp, i))
  BY DEF MadeFrom
<1> DEFINE p == Order[n]
<1>1. p \in Phases /\ i \in Keyed
  BY OrderFacts, SureFacts
<1>2. Now(i) = Says(fp, i)
  BY DEF Meant, Says
<1>3. <<i, v>> \in o <=>
        \/ i \in Direct(p) /\ v = Now(i)
        \/ \E q \in Upstream(p) : <<i, v>> \in Hashed(p, outs[q])
  BY <1>1, StandsTells DEF Alike
<1>4. \A q \in Upstream(p) : <<i, v>> \in outs[q] <=> (i \in Cone(q) /\ v = Says(fp, i))
  <2> TAKE q \in Upstream(p)
  <2>1. PICK m \in 1..(n - 1) : q = Order[m]
    BY UpstreamFirst
  <2>2. m \in 1..14 /\ m < n
    BY <2>1
  <2> QED
    BY <2>1, <2>2 DEF MadeFrom
<1>5. CASE p = "compute-installer-module-closure"
  <2>1. Direct(p) = {} /\ \A q \in Upstream(p) : Hashed(p, outs[q]) = {}
    BY <1>5 DEF Direct, Hashed
  <2>2. i \notin Cone(p)
    BY <1>1, <1>5, ConeStep
  <2> QED
    BY <1>3, <2>1, <2>2
<1>6. CASE p # "compute-installer-module-closure"
  <2>1. \A q \in Upstream(p) : Hashed(p, outs[q]) = outs[q]
    BY <1>6 DEF Hashed
  <2>2. i \in Cone(p) <=> (i \in Direct(p) \/ \E q \in Upstream(p) : i \in Cone(q))
    BY <1>1, <1>6, ConeStep
  <2> HIDE DEF p
  <2>3. <<i, v>> \in o <=> (i \in Cone(p) /\ v = Says(fp, i))
    BY <1>2, <1>3, <1>4, <2>1, <2>2
  <2> QED
    BY <2>3 DEF p
<1> QED
  BY <1>5, <1>6

-----------------------------------------------------------------------------
(* Each part of the invariant is kept.                                     *)

\* All parts hold at first: nothing runs, nothing is cached or published.
LEMMA HonestInit == Init => HInv
<1> SUFFICES ASSUME Init PROVE HInv
  OBVIOUS
<1>1. pc = "idle" /\ verdict = "none" /\ index = {} /\ image = Absent /\ stamp = Absent
  BY DEF Init
<1>2. Quiet /\ NowIsMeant /\ KeyStands /\ ProductAnswers /\ ResolvedAsMeant /\ ImageIsResolved
  BY <1>1 DEF Quiet, NowIsMeant, KeyStands, ProductAnswers, ResolvedAsMeant,
     ImageIsResolved, Resolving, Looking
<1>3. EntriesAnswer /\ StampAnswers /\ EndedAsMeant
  BY <1>1 DEF EntriesAnswer, StampAnswers, EndedAsMeant, Absent
<1> QED
  BY <1>2, <1>3, TypeInit DEF HInv

\* What a step of the build leaves alone: it neither edits an input nor makes a
\* race, and it leaves the fingerprints but for the step that takes them.
LEMMA BuildLeaves ==
  ASSUME Step \/ Interrupt \/ Damage \/ \E c \in Callers : Start(c)
  PROVE  /\ disk' = disk /\ (raced' <=> raced) /\ Sure' = Sure
         /\ ~LoadConfig => conf' = conf
         /\ ~ComputeFingerprints => fp' = fp
BY DEF Step, LoadConfig, ComputeFingerprints, CheckCurrentImage, ResolveCurrentImage,
   LookupHit, LookupMiss, CheckEnvironment, PrepareWorkRoot, RunProducer, StoreOutput,
   InstallImage, WriteStamp, Interrupt, Damage, Start, Sure, files, local, history, bounds

\* An edit voids what it puts in doubt: the inputs that count after it are
\* still seen as before by a running build.
LEMMA EditEffect ==
  ASSUME TypeOK, NEW j \in Editable, NEW w \in Versions, Edit(j, w)
  PROVE  /\ Sure' \subseteq Sure
         /\ pc # "idle" => \A i \in Sure' : Now(i)' = Now(i) /\ Meant(i)' = Meant(i)
         /\ UNCHANGED <<index, staged, probe, image, stamp, pc, caller, conf, fp, at,
                        prepared, key, product, outs, verdict, made, torn, last>>
<1>1. UNCHANGED <<index, staged, probe, image, stamp, pc, caller, conf, fp, at,
                  prepared, key, product, outs, verdict, made, torn, last>>
  BY DEF Edit, files, local
<1>2. raced' <=> (raced \/ (pc # "idle" /\ j \in Sources))
  BY DEF Edit
<1>3. Sure' \subseteq Sure
  BY <1>2 DEF Sure, Keyed
<1>4. ASSUME pc # "idle", NEW i \in Sure' PROVE Now(i)' = Now(i)
  <2>1. CASE i \in Config
    BY <1>1, <2>1 DEF Now
  <2>2. CASE i \notin Config
    <3>1. i \in Sources /\ ~(raced')
      BY <2>2 DEF Sure, Keyed
    <3>2. i # j
      BY <1>2, <1>4, <3>1
    <3>3. disk'[i] = disk[i]
      BY <3>1, <3>2 DEF Edit, TypeOK, Sources, Inputs
    <3> QED
      BY <2>2, <3>3 DEF Now
  <2> QED
    BY <2>1, <2>2
<1>5. \A i : Meant(i)' = Meant(i)
  BY <1>1 DEF Meant
<1> QED
  BY <1>1, <1>3, <1>4, <1>5

\* Where a build step goes, and what it says of how the build ended.
LEMMA QuietStep == Quiet /\ [Next]_vars => Quiet'
<1> SUFFICES ASSUME Quiet, [Next]_vars PROVE Quiet'
  OBVIOUS
<1> USE DEF Quiet, Ends, Goes, local
<1>1. CASE UNCHANGED vars
  BY <1>1 DEF vars
<1>2. CASE \E i \in Editable, v \in Versions : Edit(i, v)
  BY <1>2 DEF Edit
<1>3. CASE Damage \/ \E c \in Callers : Start(c)
  BY <1>3 DEF Damage, Start
<1>4. CASE Interrupt
  BY <1>4 DEF Interrupt
<1>5. CASE Step
  <2>1. CASE LoadConfig \/ ComputeFingerprints \/ CheckCurrentImage \/ ResolveCurrentImage
    BY <2>1 DEF LoadConfig, ComputeFingerprints, CheckCurrentImage, ResolveCurrentImage
  <2>2. CASE LookupHit \/ LookupMiss \/ StoreOutput
    BY <2>2 DEF LookupHit, LookupMiss, StoreOutput, Resolves
  <2>3. CASE CheckEnvironment \/ PrepareWorkRoot \/ RunProducer
    BY <2>3 DEF CheckEnvironment, PrepareWorkRoot, RunProducer
  <2>4. CASE InstallImage \/ WriteStamp
    BY <2>4 DEF InstallImage, WriteStamp
  <2> QED
    BY <1>5, <2>1, <2>2, <2>3, <2>4 DEF Step
<1> QED
  BY <1>1, <1>2, <1>3, <1>4, <1>5 DEF Next

\* Inputs that are as they were are seen and meant as before.
LEMMA SeenAsBefore ==
  /\ disk' = disk /\ conf' = conf => \A i : Now(i)' = Now(i)
  /\ fp' = fp => \A i : Meant(i)' = Meant(i)
BY DEF Now, Meant

\* The fingerprints are of what the keys will hash, and an edit that would part
\* the two is a race.
LEMMA NowIsMeantStep == TypeOK /\ NowIsMeant /\ [Next]_vars => NowIsMeant'
<1> SUFFICES ASSUME TypeOK, NowIsMeant, [Next]_vars PROVE NowIsMeant'
  OBVIOUS
<1> USE DEF NowIsMeant, Resolving, Looking
<1>1. CASE UNCHANGED vars
  BY <1>1 DEF vars, local, history, Now, Meant, Sure
<1>2. CASE \E i \in Editable, v \in Versions : Edit(i, v)
  BY <1>2, EditEffect
<1>3. CASE Interrupt \/ \E c \in Callers : Start(c)
  BY <1>3 DEF Interrupt, Start, Ends
<1>4. CASE Damage
  <2>1. pc' = pc /\ Sure' = Sure /\ \A i : Now(i)' = Now(i) /\ Meant(i)' = Meant(i)
    BY <1>4, BuildLeaves, SeenAsBefore DEF Damage, local
  <2> QED
    BY <2>1
<1>5. CASE ComputeFingerprints
  <2>1. Sure' = Sure /\ \A i : Now(i)' = Now(i)
    BY <1>5, BuildLeaves, SeenAsBefore DEF Step, ComputeFingerprints
  <2>2. \A i \in Keyed : Meant(i)' = Now(i)
    BY <1>5 DEF ComputeFingerprints, Fingerprints, Meant, Now, FileHashed, Keyed
  <2> QED
    BY <2>1, <2>2, SureFacts
<1>6. CASE Step /\ ~ComputeFingerprints
  <2>1. CASE LoadConfig \/ CheckCurrentImage
    BY <2>1 DEF LoadConfig, CheckCurrentImage, Ends, Goes
  <2>2. ASSUME ~LoadConfig
        PROVE  Sure' = Sure /\ \A i : Now(i)' = Now(i) /\ Meant(i)' = Meant(i)
    BY <1>6, <2>2, BuildLeaves, SeenAsBefore
  <2>3. ASSUME ~LoadConfig, ~CheckCurrentImage
        PROVE  pc \in {"resolve"} \cup Resolving
    BY <1>6, <2>3 DEF Step, ResolveCurrentImage, LookupHit, LookupMiss, CheckEnvironment,
       PrepareWorkRoot, RunProducer, StoreOutput, InstallImage, WriteStamp
  <2> QED
    BY <2>1, <2>2, <2>3
<1> QED
  BY <1>1, <1>2, <1>3, <1>4, <1>5, <1>6 DEF Next

\* Nothing between the lookup that missed and the store that follows changes
\* what the key was made from, unless a source races.
LEMMA KeyStandsStep == TypeOK /\ AtPhase /\ KeyStands /\ [Next]_vars => KeyStands'
<1> SUFFICES ASSUME TypeOK, AtPhase, KeyStands, [Next]_vars,
                    pc' \in {"environment", "work", "produce", "store"}
             PROVE  Stands(key, Order[at])'
  BY DEF KeyStands
<1> USE DEF Ends, Goes
<1>1. CASE UNCHANGED vars
  BY <1>1 DEF vars, local, history, Now, Sure, Stands, KeyStands
<1>2. ASSUME NEW i \in Editable, NEW v \in Versions, Edit(i, v)
      PROVE  Stands(key, Order[at])'
  <2>1. Stands(key, Order[at]) /\ pc # "idle" /\ key' = key /\ at' = at /\ outs' = outs
    BY <1>2, EditEffect DEF KeyStands
  <2>2. Sure' \subseteq Sure /\ \A j \in Sure' : Now(j)' = Now(j)
    BY <1>2, <2>1, EditEffect
  <2> QED
    BY <2>1, <2>2 DEF Stands
<1>3. CASE Interrupt \/ Damage \/ \E c \in Callers : Start(c)
  BY <1>3 DEF Interrupt, Damage, Start
<1>4. CASE LookupMiss
  <2>1. Stands(KeyOf(Order[at]), Order[at])
    BY <1>4, OrderFacts, KeyOfStands DEF LookupMiss, AtPhase, Looking
  <2>2. key' = KeyOf(Order[at]) /\ at' = at /\ outs' = outs
    BY <1>4 DEF LookupMiss
  <2>3. Sure' = Sure /\ \A i : Now(i)' = Now(i)
    BY <1>4, BuildLeaves, SeenAsBefore DEF Step, LookupMiss
  <2> QED
    BY <2>1, <2>2, <2>3 DEF Stands
<1>5. CASE CheckEnvironment \/ PrepareWorkRoot \/ RunProducer
  <2>1. Stands(key, Order[at]) /\ key' = key /\ at' = at /\ outs' = outs
    BY <1>5 DEF KeyStands, CheckEnvironment, PrepareWorkRoot, RunProducer, local
  <2>2. conf' = conf
    BY <1>5 DEF CheckEnvironment, PrepareWorkRoot, RunProducer, local
  <2>3. Sure' = Sure /\ \A i : Now(i)' = Now(i)
    BY <1>5, <2>2, BuildLeaves, SeenAsBefore DEF Step
  <2> QED
    BY <2>1, <2>3 DEF Stands
<1>6. CASE LoadConfig \/ ComputeFingerprints \/ CheckCurrentImage \/ ResolveCurrentImage
  BY <1>6 DEF LoadConfig, ComputeFingerprints, CheckCurrentImage, ResolveCurrentImage
<1>7. CASE LookupHit \/ StoreOutput \/ InstallImage \/ WriteStamp
  BY <1>7 DEF LookupHit, StoreOutput, Resolves, InstallImage, WriteStamp
<1> QED
  BY <1>1, <1>2, <1>3, <1>4, <1>5, <1>6, <1>7 DEF Next, Step

\* The producer body reads what its key was made from.
LEMMA ProductAnswersStep ==
  TypeOK /\ AtPhase /\ KeyStands /\ ProductAnswers /\ [Next]_vars => ProductAnswers'
<1> SUFFICES ASSUME TypeOK, AtPhase, KeyStands, ProductAnswers, [Next]_vars, pc' = "store"
             PROVE  Alike(Sure, product, KeyPairs(key))'
  BY DEF ProductAnswers
<1> USE DEF Ends, Goes
<1>1. CASE UNCHANGED vars
  BY <1>1 DEF vars, local, history, Sure, ProductAnswers
<1>2. ASSUME NEW i \in Editable, NEW v \in Versions, Edit(i, v)
      PROVE  Alike(Sure, product, KeyPairs(key))'
  <2>1. Alike(Sure, product, KeyPairs(key)) /\ key' = key /\ product' = product
    BY <1>2, EditEffect DEF ProductAnswers
  <2>2. Sure' \subseteq Sure
    BY <1>2, EditEffect
  <2> QED
    BY <2>1, <2>2 DEF Alike, KeyPairs
<1>3. CASE RunProducer
  <2>1. PICK recipe \in {"rendered", "builtin"} : product' = Produced(Order[at], recipe)
    BY <1>3 DEF RunProducer
  <2>2. Order[at] \in Phases /\ Stands(key, Order[at])
    BY <1>3, OrderFacts DEF RunProducer, KeyStands, AtPhase, Looking
  <2>3. Alike(Sure, Produced(Order[at], recipe), KeyPairs(key))
    BY <2>2, ProducedTells, StandsTells DEF Alike
  <2>4. key' = key /\ Sure' = Sure
    BY <1>3, BuildLeaves DEF Step, RunProducer
  <2> QED
    BY <2>1, <2>3, <2>4 DEF Alike, KeyPairs
<1>4. CASE Interrupt \/ Damage \/ \E c \in Callers : Start(c)
  BY <1>4 DEF Interrupt, Damage, Start
<1>5. CASE LoadConfig \/ ComputeFingerprints \/ CheckCurrentImage \/ ResolveCurrentImage
  BY <1>5 DEF LoadConfig, ComputeFingerprints, CheckCurrentImage, ResolveCurrentImage
<1>6. CASE LookupHit \/ LookupMiss \/ StoreOutput \/ InstallImage \/ WriteStamp
  BY <1>6 DEF LookupHit, LookupMiss, StoreOutput, Resolves, InstallImage, WriteStamp
<1>7. CASE CheckEnvironment \/ PrepareWorkRoot
  BY <1>7 DEF CheckEnvironment, PrepareWorkRoot
<1> QED
  BY <1>1, <1>2, <1>3, <1>4, <1>5, <1>6, <1>7 DEF Next, Step

\* The index changes at a store, and what is stored answers for its key.
LEMMA EntriesAnswerStep ==
  TypeOK /\ ProductAnswers /\ EntriesAnswer /\ [Next]_vars => EntriesAnswer'
<1> SUFFICES ASSUME TypeOK, ProductAnswers, EntriesAnswer, [Next]_vars
             PROVE  EntriesAnswer'
  OBVIOUS
<1>1. CASE UNCHANGED vars
  BY <1>1 DEF vars, files, history, Sure, EntriesAnswer
<1>2. ASSUME NEW i \in Editable, NEW v \in Versions, Edit(i, v) PROVE EntriesAnswer'
  <2>1. index' = index /\ Sure' \subseteq Sure
    BY <1>2, EditEffect
  <2> QED
    BY <2>1 DEF EntriesAnswer, Alike
<1>3. CASE StoreOutput
  <2>1. Alike(Sure, product, KeyPairs(key))
    BY <1>3 DEF StoreOutput, ProductAnswers
  <2>2. \A e \in index' : e \in index \/ e = [phase |-> Order[at], key |-> key, out |-> product]
    BY <1>3 DEF StoreOutput
  <2>3. Sure' = Sure
    BY <1>3, BuildLeaves DEF Step
  <2>4. \A e \in index' : Alike(Sure, e.out, KeyPairs(e.key))
    BY <2>1, <2>2 DEF EntriesAnswer
  <2> QED
    BY <2>3, <2>4 DEF EntriesAnswer
<1>4. CASE (Step /\ ~StoreOutput) \/ Interrupt \/ Damage \/ \E c \in Callers : Start(c)
  <2>1. index' = index
    BY <1>4 DEF Step, LoadConfig, ComputeFingerprints, CheckCurrentImage,
       ResolveCurrentImage, LookupHit, LookupMiss, CheckEnvironment, PrepareWorkRoot,
       RunProducer, InstallImage, WriteStamp, Interrupt, Damage, Start, files
  <2>2. Sure' = Sure
    BY <1>4, BuildLeaves
  <2> QED
    BY <2>1, <2>2 DEF EntriesAnswer
<1> QED
  BY <1>1, <1>2, <1>3, <1>4 DEF Next

\* A phase resolved to an output that answers for a key that stands is made as
\* meant, and so are those before it.
LEMMA ResolvesAsMeant ==
  ASSUME TypeOK, AtPhase, NowIsMeant, ResolvedAsMeant, pc \in Looking,
         NEW k, NEW o \in SUBSET Pairs, Stands(k, Order[at]), Alike(Sure, o, KeyPairs(k)),
         Resolves(o), Sure' = Sure, fp' = fp
  PROVE  ResolvedAsMeant'
<1>1. at \in 1..14 /\ at' = at + 1 /\ outs' = [outs EXCEPT ![Order[at]] = o]
  BY DEF AtPhase, Resolves
<1>2. MadeFrom(Sure, o, Cone(Order[at]), fp)
  <2>1. \A i \in Sure : Now(i) = Meant(i)
    BY DEF NowIsMeant, Resolving
  <2>2. \A m \in 1..14 : m < at => MadeFrom(Sure, outs[Order[m]], Cone(Order[m]), fp)
    BY DEF ResolvedAsMeant, Resolving
  <2> QED
    BY <1>1, <2>1, <2>2, MadeStep
<1>3. ASSUME NEW n \in 1..14, n < at' PROVE MadeFrom(Sure, outs'[Order[n]], Cone(Order[n]), fp)
  <2>1. CASE n = at
    <3>1. outs'[Order[n]] = o
      BY <1>1, <2>1, OrderFacts DEF TypeOK, Outputs
    <3> QED
      BY <1>2, <2>1, <3>1
  <2>2. CASE n # at
    <3>1. n < at /\ Order[n] # Order[at]
      BY <1>1, <1>3, <2>2, OrderFacts
    <3>2. outs'[Order[n]] = outs[Order[n]]
      BY <1>1, <3>1, OrderFacts DEF TypeOK, Outputs
    <3> QED
      BY <3>1, <3>2 DEF ResolvedAsMeant, Resolving
  <2> QED
    BY <2>1, <2>2
<1>4. pc' \in {"publish", "stamp"} => at' = 15
  BY <1>1, OrderFacts DEF Resolves, Goes
<1> QED
  BY <1>3, <1>4 DEF ResolvedAsMeant

\* Hit or miss, a phase is resolved to what was meant.
LEMMA ResolvedAsMeantStep ==
  HInv /\ [Next]_vars => ResolvedAsMeant'
<1> SUFFICES ASSUME HInv, [Next]_vars PROVE ResolvedAsMeant'
  OBVIOUS
<1>t. TypeOK /\ AtPhase /\ NowIsMeant /\ ResolvedAsMeant
  BY DEF HInv
<1> USE DEF Ends, Goes, Resolving, Looking
<1>1. CASE UNCHANGED vars
  BY <1>1, <1>t DEF vars, local, history, Sure, ResolvedAsMeant
<1>2. ASSUME NEW i \in Editable, NEW v \in Versions, Edit(i, v) PROVE ResolvedAsMeant'
  <2>1. pc' = pc /\ at' = at /\ outs' = outs /\ fp' = fp /\ Sure' \subseteq Sure
    BY <1>2, <1>t, EditEffect
  <2> QED
    BY <2>1, <1>t DEF ResolvedAsMeant, MadeFrom
<1>3. CASE LookupHit
  <2>1. PICK e \in Hits(Order[at]) : Resolves(e.out)
    BY <1>3 DEF LookupHit
  <2>2. Order[at] \in Phases /\ pc \in Looking
    BY <1>3, <1>t, OrderFacts DEF LookupHit, AtPhase
  <2>3. Stands(e.key, Order[at])
    BY <2>2, KeyOfStands DEF Hits
  <2>4. e.out \in SUBSET Pairs /\ Alike(Sure, e.out, KeyPairs(e.key))
    BY DEF Hits, HInv, TypeOK, Entries, EntriesAnswer
  <2>5. Sure' = Sure /\ fp' = fp
    BY <1>3, BuildLeaves DEF Step, LookupHit
  <2> QED
    BY <1>t, <2>1, <2>2, <2>3, <2>4, <2>5, ResolvesAsMeant
<1>4. CASE StoreOutput
  <2>1. pc = "store" /\ Resolves(product)
    BY <1>4 DEF StoreOutput
  <2>2. Stands(key, Order[at]) /\ Alike(Sure, product, KeyPairs(key)) /\ product \in SUBSET Pairs
    BY <2>1 DEF HInv, KeyStands, ProductAnswers, TypeOK
  <2>3. Sure' = Sure /\ fp' = fp
    BY <1>4, BuildLeaves DEF Step, StoreOutput
  <2> QED
    BY <1>t, <2>1, <2>2, <2>3, ResolvesAsMeant
<1>5. CASE LookupMiss \/ CheckEnvironment \/ PrepareWorkRoot \/ RunProducer
           \/ InstallImage \/ WriteStamp \/ Damage
  <2>1. at' = at /\ outs' = outs /\ fp' = fp
    BY <1>5 DEF LookupMiss, CheckEnvironment, PrepareWorkRoot, RunProducer, InstallImage,
       WriteStamp, Damage, local
  <2>2. Sure' = Sure
    BY <1>5, BuildLeaves DEF Step
  <2>3. pc' \in Resolving => pc \in Resolving
    BY <1>5 DEF LookupMiss, CheckEnvironment, PrepareWorkRoot, RunProducer, InstallImage,
       WriteStamp, Damage
  <2>4. pc' \in {"publish", "stamp"} => pc \in {"publish", "stamp"}
    BY <1>5 DEF LookupMiss, CheckEnvironment, PrepareWorkRoot, RunProducer, InstallImage,
       WriteStamp, Damage
  <2> QED
    BY <1>t, <2>1, <2>2, <2>3, <2>4 DEF ResolvedAsMeant
<1>6. CASE ResolveCurrentImage
  <2>1. pc' = "idle" \/ (pc' = "lookup" /\ at' = 1)
    BY <1>6 DEF ResolveCurrentImage
  <2> QED
    BY <2>1 DEF ResolvedAsMeant
<1>7. CASE LoadConfig \/ ComputeFingerprints \/ CheckCurrentImage
  BY <1>7 DEF LoadConfig, ComputeFingerprints, CheckCurrentImage, ResolvedAsMeant
<1>8. CASE Interrupt \/ \E c \in Callers : Start(c)
  BY <1>8 DEF Interrupt, Start, ResolvedAsMeant
<1> QED
  BY <1>1, <1>2, <1>3, <1>4, <1>5, <1>6, <1>7, <1>8 DEF Next, Step

\* Between the rename of the image and its stamp neither changes.
LEMMA ImageIsResolvedStep == ImageIsResolved /\ [Next]_vars => ImageIsResolved'
<1> SUFFICES ASSUME ImageIsResolved, [Next]_vars, pc' = "stamp"
             PROVE  image' = Whole(outs'[Last])
  BY DEF ImageIsResolved, Whole
<1> USE DEF Ends, Goes, Whole
<1>1. CASE UNCHANGED vars
  BY <1>1 DEF vars, files, local, ImageIsResolved
<1>2. ASSUME NEW i \in Editable, NEW v \in Versions, Edit(i, v)
      PROVE  image' = Whole(outs'[Last])
  BY <1>2 DEF Edit, files, local, ImageIsResolved
<1>3. CASE InstallImage
  BY <1>3 DEF InstallImage, local
<1>4. CASE Interrupt \/ Damage \/ \E c \in Callers : Start(c)
  BY <1>4 DEF Interrupt, Damage, Start
<1>5. CASE LoadConfig \/ ComputeFingerprints \/ CheckCurrentImage \/ ResolveCurrentImage
  BY <1>5 DEF LoadConfig, ComputeFingerprints, CheckCurrentImage, ResolveCurrentImage
<1>6. CASE LookupHit \/ LookupMiss \/ StoreOutput \/ WriteStamp
  BY <1>6 DEF LookupHit, LookupMiss, StoreOutput, Resolves, WriteStamp
<1>7. CASE CheckEnvironment \/ PrepareWorkRoot \/ RunProducer
  BY <1>7 DEF CheckEnvironment, PrepareWorkRoot, RunProducer
<1> QED
  BY <1>1, <1>2, <1>3, <1>4, <1>5, <1>6, <1>7 DEF Next, Step

\* When the last phase is resolved the image to be stamped is made as meant.
LEMMA StampedIsMeant ==
  ASSUME ResolvedAsMeant, ImageIsResolved, pc = "stamp"
  PROVE  image.state = "whole" /\ MadeFrom(Sure, image.of, Keyed, fp)
<1>1. image = Whole(outs[Last])
  BY DEF ImageIsResolved
<1>2. MadeFrom(Sure, outs[Order[14]], Cone(Order[14]), fp)
  BY DEF ResolvedAsMeant, Resolving
<1>3. Order[14] = Last
  BY OrderFacts
<1> QED
  BY <1>1, <1>2, <1>3, ConeOfLast DEF Whole

\* The image, its stamp and the flag between them change at two steps of the
\* build, and when one of the files is damaged.
LEMMA FilesChange ==
  ASSUME (Step /\ ~InstallImage /\ ~WriteStamp) \/ Interrupt \/ \E c \in Callers : Start(c)
  PROVE  image' = image /\ stamp' = stamp /\ (torn' <=> torn)
BY DEF Step, LoadConfig, ComputeFingerprints, CheckCurrentImage,
   ResolveCurrentImage, LookupHit, LookupMiss, CheckEnvironment, PrepareWorkRoot,
   RunProducer, StoreOutput, Interrupt, Start, files, history

\* A stamp is written for the image beside it, from the files as they are then.
LEMMA StampAnswersStep == HInv /\ [Next]_vars => StampAnswers'
<1> SUFFICES ASSUME HInv, [Next]_vars, ~torn', image'.state = "whole",
                    stamp'.state = "written"
             PROVE  MadeFrom(Sure, image.of, Keyed, stamp.fps)'
  BY DEF StampAnswers
<1>1. CASE UNCHANGED vars
  BY <1>1 DEF vars, files, history, Sure, StampAnswers, HInv
<1>2. ASSUME NEW i \in Editable, NEW v \in Versions, Edit(i, v)
      PROVE  MadeFrom(Sure, image.of, Keyed, stamp.fps)'
  <2>1. image' = image /\ stamp' = stamp /\ torn' = torn /\ Sure' \subseteq Sure
    BY <1>2, EditEffect DEF HInv
  <2>2. MadeFrom(Sure, image.of, Keyed, stamp.fps)
    BY <2>1 DEF HInv, StampAnswers
  <2> QED
    BY <2>1, <2>2 DEF MadeFrom
<1>3. CASE Damage
  BY <1>3 DEF Damage, Absent, Damaged, Malformed
<1>4. CASE InstallImage
  BY <1>4 DEF InstallImage
<1>5. CASE WriteStamp
  <2>1. MadeFrom(Sure, image.of, Keyed, fp)
    BY <1>5, StampedIsMeant DEF HInv, WriteStamp
  <2>2. \A i \in Sure : Says(fp, i) = Says(Fingerprints, i)
    <3>1. \A i \in Sure : Now(i) = Meant(i)
      BY <1>5 DEF HInv, NowIsMeant, Resolving, WriteStamp
    <3>2. \A i \in Keyed : Now(i) = Says(Fingerprints, i)
      BY DEF Now, Says, Fingerprints, FileHashed, Keyed
    <3> QED
      BY <3>1, <3>2, SureFacts DEF Meant, Says
  <2>3. stamp'.fps = Fingerprints /\ image' = image
    BY <1>5 DEF WriteStamp, Written
  <2>4. Sure' = Sure
    BY <1>5, BuildLeaves DEF Step
  <2> QED
    BY <2>1, <2>2, <2>3, <2>4 DEF MadeFrom
<1>6. CASE (Step /\ ~InstallImage /\ ~WriteStamp) \/ Interrupt \/ \E c \in Callers : Start(c)
  <2>1. image' = image /\ stamp' = stamp /\ (torn' <=> torn)
    BY <1>6, FilesChange
  <2>2. Sure' = Sure
    BY <1>6, BuildLeaves
  <2> QED
    BY <2>1, <2>2 DEF HInv, StampAnswers
<1> QED
  BY <1>1, <1>2, <1>3, <1>4, <1>5, <1>6 DEF Next

\* A build that finds nothing missing has the image its stamp answers for.
LEMMA CurrentIsMeant ==
  ASSUME TypeOK, StampAnswers, MissReason = "none", ~torn, image.state = "whole"
  PROVE  MadeFrom(Sure, image.of, Keyed, fp)
<1>1. stamp # Absent /\ stamp # Malformed
  BY DEF MissReason
<1>2. stamp = Written(stamp.fps)
  BY <1>1 DEF TypeOK
<1>3. stamp.state = "written"
  BY <1>2 DEF Written
<1>4. stamp.fps = fp
  BY <1>1, <1>3 DEF MissReason
<1> QED
  BY <1>3, <1>4 DEF StampAnswers

\* A build that ends well has published what it meant to or found it there.
LEMMA EndedAsMeantStep == HInv /\ [Next]_vars => EndedAsMeant'
<1> SUFFICES ASSUME HInv, [Next]_vars, image'.state = "whole",
                    verdict' = "published" \/ (verdict' = "current" /\ ~torn')
             PROVE  MadeFrom(Sure, image.of, Keyed, fp)'
  BY DEF EndedAsMeant
<1> USE DEF Ends, Goes
<1>1. CASE UNCHANGED vars
  BY <1>1 DEF vars, files, local, history, Sure, EndedAsMeant, HInv
<1>2. ASSUME NEW i \in Editable, NEW v \in Versions, Edit(i, v)
      PROVE  MadeFrom(Sure, image.of, Keyed, fp)'
  <2>1. image' = image /\ fp' = fp /\ verdict' = verdict /\ torn' = torn /\ Sure' \subseteq Sure
    BY <1>2, EditEffect DEF HInv
  <2>2. MadeFrom(Sure, image.of, Keyed, fp)
    BY <2>1 DEF HInv, EndedAsMeant
  <2> QED
    BY <2>1, <2>2 DEF MadeFrom
<1>3. CASE Damage
  <2>1. image' = image /\ fp' = fp /\ verdict' = verdict /\ (torn' <=> torn) /\ Sure' = Sure
    BY <1>3, BuildLeaves DEF Damage, Absent, Damaged, history, local, Sure, LoadConfig,
       ComputeFingerprints
  <2> QED
    BY <2>1 DEF HInv, EndedAsMeant
<1>4. CASE WriteStamp
  <2>1. MadeFrom(Sure, image.of, Keyed, fp)
    BY <1>4, StampedIsMeant DEF HInv, WriteStamp
  <2>2. image' = image /\ fp' = fp /\ Sure' = Sure
    BY <1>4 DEF WriteStamp, local, Sure
  <2> QED
    BY <2>1, <2>2
<1>5. CASE CheckCurrentImage \/ ResolveCurrentImage
  <2>1. image' = image /\ fp' = fp /\ (torn' <=> torn) /\ Sure' = Sure
    BY <1>5 DEF CheckCurrentImage, ResolveCurrentImage, files, history, Sure
  <2>2. pc # "idle"
    BY <1>5 DEF CheckCurrentImage, ResolveCurrentImage
  <2>3. verdict = "none"
    BY <2>2 DEF HInv, Quiet
  <2>4. MissReason = "none" /\ ~torn
    BY <1>5, <2>1, <2>3 DEF CheckCurrentImage, ResolveCurrentImage, MissReason
  <2> QED
    BY <2>1, <2>4, CurrentIsMeant DEF HInv
<1>6. CASE LoadConfig \/ ComputeFingerprints \/ LookupHit \/ LookupMiss \/ StoreOutput
           \/ InstallImage
  <2>1. pc # "idle" /\ verdict' = verdict
    BY <1>6 DEF LoadConfig, ComputeFingerprints, LookupHit, LookupMiss, StoreOutput,
       Resolves, InstallImage
  <2> QED
    BY <2>1 DEF HInv, Quiet
<1>7. CASE CheckEnvironment \/ PrepareWorkRoot \/ RunProducer
  <2>1. pc # "idle" /\ verdict' \in {verdict, "not-writable", "failed"}
    BY <1>7 DEF CheckEnvironment, PrepareWorkRoot, RunProducer
  <2> QED
    BY <2>1 DEF HInv, Quiet
<1>8. CASE Interrupt \/ \E c \in Callers : Start(c)
  BY <1>8 DEF Interrupt, Start
<1> QED
  BY <1>1, <1>2, <1>3, <1>4, <1>5, <1>6, <1>7, <1>8 DEF Next, Step

-----------------------------------------------------------------------------
(* The theorems about one build.                                           *)

\* Every step keeps all parts of the invariant.
LEMMA HonestStep == HInv /\ [Next]_vars => HInv'
<1> SUFFICES ASSUME HInv, [Next]_vars PROVE HInv'
  OBVIOUS
<1>1. TypeOK' /\ AtPhase' /\ Quiet' /\ NowIsMeant'
  BY TypeStep, QuietStep, NowIsMeantStep DEF HInv
<1>2. KeyStands' /\ ProductAnswers' /\ EntriesAnswer'
  BY KeyStandsStep, ProductAnswersStep, EntriesAnswerStep DEF HInv
<1>3. ResolvedAsMeant' /\ ImageIsResolved' /\ StampAnswers' /\ EndedAsMeant'
  BY ResolvedAsMeantStep, ImageIsResolvedStep, StampAnswersStep, EndedAsMeantStep DEF HInv
<1> QED
  BY <1>1, <1>2, <1>3 DEF HInv

\* The inductive invariant holds in every state.
THEOREM BuildInvariant == Spec => []HInv
BY HonestInit, HonestStep, PTL DEF Spec

\* Every variable of the build has its type.
THEOREM BuildTypeCorrect == Spec => []TypeOK
<1>1. HInv => TypeOK
  BY DEF HInv
<1> QED
  BY BuildInvariant, <1>1, PTL

\* Whatever was edited and wherever a build was killed, an entry of the cache
\* index names an output made from what its key hashed: the key is computed
\* before the producer body runs, and stored with the output after it.
\* (cache_file_phase, cache_tree_phase, write_cache_entry.)
THEOREM BuildEntriesHonest == Spec => []EntriesHonest
<1>1. HInv => EntriesHonest
  <2> SUFFICES ASSUME HInv, NEW e \in index, NEW i \in Sure
               PROVE  Contents(e.out, i) =
                        Contents(e.key.own \cup UNION {e.key.ups[q] : q \in Phases}, i)
    BY DEF EntriesHonest, Sure
  <2>1. e.out \in SUBSET Pairs /\ KeyPairs(e.key) \in SUBSET Pairs
    BY DEF HInv, TypeOK, Entries, Keys, KeyPairs
  <2>2. i \in Keyed /\ Alike(Sure, e.out, KeyPairs(e.key))
    BY SureFacts DEF HInv, EntriesAnswer
  <2>3. \A v : v \in Contents(e.out, i) <=> v \in Contents(KeyPairs(e.key), i)
    BY <2>1, <2>2, ContentsAre DEF Alike
  <2>4. Contents(e.out, i) = Contents(KeyPairs(e.key), i)
    BY <2>3
  <2> QED
    BY <2>4 DEF KeyPairs
<1> QED
  BY BuildInvariant, <1>1, PTL

\* A build that ends well leaves an image made from what it meant to build:
\* nothing stale is served from the cache, whichever of its phases hit, and no
\* stamp stands beside an image it does not describe.  (run_build, publish.)
THEOREM BuildEndsHonest == Spec => []EndsHonest
<1>1. HInv => EndsHonest
  <2> SUFFICES ASSUME HInv, image.state = "whole",
                      verdict = "published" \/ (verdict = "current" /\ ~torn),
                      NEW i \in Sure
               PROVE  Contents(image.of, i) = {Meant(i)}
    BY DEF EndsHonest, Sure
  <2>1. image.of \in SUBSET Pairs
    BY DEF HInv, TypeOK, Absent, Damaged
  <2>2. i \in Keyed /\ MadeFrom(Sure, image.of, Keyed, fp)
    BY SureFacts DEF HInv, EndedAsMeant
  <2>3. Says(fp, i) = Meant(i) /\ Meant(i) \in Versions
    BY <2>2 DEF Says, Meant, HInv, TypeOK, Prints, Keyed, FileHashed
  <2>4. \A v : /\ v \in Contents(image.of, i) <=> <<i, v>> \in image.of
               /\ <<i, v>> \in image.of => v \in Versions
    BY <2>1, <2>2, ContentsAre
  <2>5. \A v \in Versions : <<i, v>> \in image.of <=> v = Meant(i)
    BY <2>2, <2>3 DEF MadeFrom
  <2> QED
    BY <2>3, <2>4, <2>5
<1> QED
  BY BuildInvariant, <1>1, PTL

-----------------------------------------------------------------------------
(* What a build after another does again.                                  *)

\* What a change rebuilds: every phase it reaches directly, and every phase
\* that builds on one that is rebuilt.  (docs/design.md, the invalidation table.)
LEMMA RebuiltIsClosed ==
  ASSUME NEW i \in Keyed, NEW p \in Phases, p # "compute-installer-module-closure"
  PROVE  /\ i \in Direct(p) => p \in Rebuilt(i)
         /\ \A q \in Upstream(p) : q \in Rebuilt(i) => p \in Rebuilt(i)
<1>1. Keyed = {"packages", "script", "identity", "vendor", "installer", "dashboard"}
  BY DEF Keyed, Config, Sources
<1>2. i \in Direct(p) => p \in Rebuilt(i)
  BY <1>1, PhaseNames DEF Direct, Rebuilt
<1>3. ASSUME NEW q \in Upstream(p), q \in Rebuilt(i) PROVE p \in Rebuilt(i)
  <2>1. CASE i = "packages"
    BY <2>1, <1>3, PhaseNames DEF Upstream, Rebuilt
  <2>2. CASE i \in {"script", "vendor"}
    BY <2>2, <1>3, PhaseNames DEF Upstream, Rebuilt
  <2>3. CASE i = "identity"
    BY <2>3, <1>3, PhaseNames DEF Upstream, Rebuilt
  <2>4. CASE i = "installer"
    BY <2>4, <1>3, PhaseNames DEF Upstream, Rebuilt
  <2>5. CASE i = "dashboard"
    BY <2>5, <1>3, PhaseNames DEF Upstream, Rebuilt
  <2> QED
    BY <1>1, <2>1, <2>2, <2>3, <2>4, <2>5
<1> QED
  BY <1>2, <1>3

\* A phase that no change reaches has the key it had, if the phases it builds
\* on that no change reaches have the outputs they had.
LEMMA SameKey ==
  ASSUME NEW m, NEW o, NEW lo, NEW p \in Phases, p \notin Stale,
         \A i \in Keyed : m[i] = Meant(i),
         \A q \in Upstream(p) : q \notin Stale => o[q] = lo[q]
  PROVE  KeyAs(p, m, o) = KeyAs(p, last, lo)
<1>1. CASE p = "compute-installer-module-closure"
  <2>1. Direct(p) = {} /\ \A x : Hashed(p, x) = {}
    BY <1>1 DEF Direct, Hashed
  <2> QED
    BY <2>1 DEF KeyAs
<1>2. CASE p # "compute-installer-module-closure"
  <2>1. \A i \in Direct(p) : m[i] = last[i]
    BY <1>2, EdgeFacts, RebuiltIsClosed DEF Stale
  <2>2. \A q \in Upstream(p) : q \notin Stale
    BY <1>2, RebuiltIsClosed DEF Stale
  <2>3. {<<i, m[i]>> : i \in Direct(p)} = {<<i, last[i]>> : i \in Direct(p)}
    BY <2>1
  <2>4. \A q \in Upstream(p) : o[q] = lo[q]
    BY <2>2
  <2> QED
    BY <2>3, <2>4 DEF KeyAs
<1> QED
  BY <1>1, <1>2

\* A key depends on the outputs of the phases its phase builds on, and on no
\* other.
LEMMA KeyLooksBack ==
  ASSUME NEW m, NEW o, NEW oo, NEW p \in Phases, \A q \in Upstream(p) : o[q] = oo[q]
  PROVE  KeyAs(p, m, o) = KeyAs(p, m, oo)
BY DEF KeyAs

\* While what a key hashes is what was meant, the key is the one for that.
LEMMA KeyOfIsKeyAs ==
  ASSUME NEW p \in Phases, \A i \in Keyed : Now(i) = Meant(i)
  PROVE  KeyOf(p) = KeyAs(p, Meaning, outs)
<1>1. \A i \in Direct(p) : Now(i) = Meaning[i]
  BY EdgeFacts DEF Meaning
<1>2. {<<i, Now(i)>> : i \in Direct(p)} = {<<i, Meaning[i]>> : i \in Direct(p)}
  BY <1>1
<1> QED
  BY <1>2 DEF KeyOf, KeyAs

\* Two entries of one phase and key are the same, and a store does not replace
\* another's entry: its key had none when it was looked up.
LEMMA StoreAdds ==
  ASSUME Fresh, StoreOutput
  PROVE  index' = index \cup {[phase |-> Order[at], key |-> key, out |-> product]}
<1>1. \A e \in index : ~(e.phase = Order[at] /\ e.key = key)
  BY DEF StoreOutput, Fresh
<1> QED
  BY <1>1 DEF StoreOutput

\* No other step touches the index.
LEMMA IndexStays == [Next]_vars /\ ~StoreOutput => index' = index
BY DEF Next, vars, Step, LoadConfig, ComputeFingerprints, CheckCurrentImage,
   ResolveCurrentImage, LookupHit, LookupMiss, CheckEnvironment, PrepareWorkRoot,
   RunProducer, InstallImage, WriteStamp, Interrupt, Damage, Start, Edit, files

\* Entries stay, and stay apart.
LEMMA UniqueStep == Fresh /\ Unique /\ [Next]_vars => index \subseteq index' /\ Unique'
<1> SUFFICES ASSUME Fresh, Unique, [Next]_vars PROVE index \subseteq index' /\ Unique'
  OBVIOUS
<1>1. CASE StoreOutput
  <2>1. index' = index \cup {[phase |-> Order[at], key |-> key, out |-> product]}
    BY <1>1, StoreAdds
  <2>2. \A e \in index : ~(e.phase = Order[at] /\ e.key = key)
    BY <1>1 DEF StoreOutput, Fresh
  <2> QED
    BY <2>1, <2>2 DEF Unique
<1>2. CASE ~StoreOutput
  BY <1>2, IndexStays DEF Unique
<1> QED
  BY <1>1, <1>2

\* Where a phase is produced, and what stays while it is: the index, the key,
\* the phase at hand and the outputs before it.
LEMMA ProducingStays ==
  ASSUME [Next]_vars, pc' \in {"environment", "work", "produce", "store"}, ~LookupMiss
  PROVE  /\ pc \in {"environment", "work", "produce", "store"}
         /\ UNCHANGED <<index, key, at, outs, conf, fp, last>>
<1> USE DEF Ends, Goes
<1>1. CASE UNCHANGED vars
  BY <1>1 DEF vars, files, local, history
<1>2. CASE \E i \in Editable, v \in Versions : Edit(i, v)
  BY <1>2 DEF Edit, files, local
<1>3. CASE Interrupt \/ Damage \/ \E c \in Callers : Start(c)
  BY <1>3 DEF Interrupt, Damage, Start
<1>4. CASE CheckEnvironment \/ PrepareWorkRoot \/ RunProducer
  BY <1>4 DEF CheckEnvironment, PrepareWorkRoot, RunProducer, files, local, history
<1>5. CASE LoadConfig \/ ComputeFingerprints \/ CheckCurrentImage \/ ResolveCurrentImage
  BY <1>5 DEF LoadConfig, ComputeFingerprints, CheckCurrentImage, ResolveCurrentImage
<1>6. CASE LookupHit \/ StoreOutput \/ InstallImage \/ WriteStamp
  BY <1>6 DEF LookupHit, StoreOutput, Resolves, InstallImage, WriteStamp
<1> QED
  BY <1>1, <1>2, <1>3, <1>4, <1>5, <1>6 DEF Next, Step

\* An edit that does not race changes nothing a running build still reads.
LEMMA NoRaceNoChange ==
  ASSUME TypeOK, [Next]_vars, ~(raced'), pc # "idle", conf' = conf
  PROVE  ~raced /\ \A i \in Keyed : Now(i)' = Now(i)
<1>1. CASE UNCHANGED vars
  BY <1>1, SeenAsBefore DEF vars, history
<1>2. ASSUME NEW j \in Editable, NEW w \in Versions, Edit(j, w)
      PROVE  ~raced /\ \A i \in Keyed : Now(i)' = Now(i)
  <2>1. ~raced /\ Sure' = Keyed
    BY <1>2 DEF Edit, Sure
  <2> QED
    BY <1>2, <2>1, EditEffect
<1>3. CASE Step \/ Interrupt \/ Damage \/ \E c \in Callers : Start(c)
  BY <1>3, BuildLeaves, SeenAsBefore
<1> QED
  BY <1>1, <1>2, <1>3 DEF Next

\* The key of the phase at hand stays the one it would compute.
LEMMA KeyIsExactStep == TypeOK /\ AtPhase /\ KeyIsExact /\ [Next]_vars => KeyIsExact'
<1> SUFFICES ASSUME TypeOK, AtPhase, KeyIsExact, [Next]_vars, ~(raced'),
                    pc' \in {"environment", "work", "produce", "store"}
             PROVE  key' = KeyOf(Order[at])'
  BY DEF KeyIsExact
<1>e. ASSUME at' = at, outs' = outs, at \in 1..14, \A i \in Keyed : Now(i)' = Now(i)
      PROVE  KeyOf(Order[at])' = KeyOf(Order[at])
  <2>1. Direct(Order[at]) \subseteq Keyed
    BY <1>e, OrderFacts, EdgeFacts
  <2>2. {<<i, Now(i)'>> : i \in Direct(Order[at])} = {<<i, Now(i)>> : i \in Direct(Order[at])}
    BY <1>e, <2>1
  <2> QED
    BY <1>e, <2>2 DEF KeyOf
<1>1. CASE LookupMiss
  <2>1. key' = KeyOf(Order[at]) /\ at' = at /\ outs' = outs /\ conf' = conf /\ pc = "lookup"
    BY <1>1 DEF LookupMiss
  <2>2. \A i \in Keyed : Now(i)' = Now(i)
    BY <2>1, NoRaceNoChange
  <2> QED
    BY <1>e, <2>1, <2>2 DEF AtPhase, Looking
<1>2. CASE ~LookupMiss
  <2>1. /\ pc \in {"environment", "work", "produce", "store"}
        /\ key' = key /\ at' = at /\ outs' = outs /\ conf' = conf
    BY <1>2, ProducingStays
  <2>2. ~raced /\ \A i \in Keyed : Now(i)' = Now(i)
    BY <2>1, NoRaceNoChange
  <2>3. key = KeyOf(Order[at])
    BY <2>1, <2>2 DEF KeyIsExact
  <2> QED
    BY <1>e, <2>1, <2>2, <2>3 DEF AtPhase, Looking
<1> QED
  BY <1>1, <1>2

\* A body runs because its key has no entry, and none appears meanwhile.
LEMMA FreshStep == TypeOK /\ Fresh /\ [Next]_vars => Fresh'
<1> SUFFICES ASSUME TypeOK, Fresh, [Next]_vars,
                    pc' \in {"environment", "work", "produce", "store"},
                    NEW e \in index'
             PROVE  ~(e.phase = Order[at'] /\ e.key = key')
  BY DEF Fresh
<1>1. CASE LookupMiss
  BY <1>1 DEF LookupMiss, Hits
<1>2. CASE ~LookupMiss
  BY <1>2, ProducingStays DEF Fresh
<1> QED
  BY <1>1, <1>2

\* What the entries of a build rest on stays.
LEMMA BackedStays ==
  ASSUME Backed, index \subseteq index', fp' = fp, outs' = outs, ~(raced') => ~raced,
         pc' \in Resolving => (pc \in Resolving /\ at' = at),
         verdict' = "published" => verdict = "published"
  PROVE  Backed'
<1>1. Meaning' = Meaning
  BY DEF Meaning, Meant
<1>2. ASSUME NEW n \in 1..14 PROVE EntryAs(Order[n], Meaning, outs)' = EntryAs(Order[n], Meaning, outs)
  BY <1>1 DEF EntryAs, KeyAs
<1>3. ASSUME ~(raced'), pc' \in Resolving \/ verdict' = "published",
             NEW n \in 1..14, n < at' \/ verdict' = "published"
      PROVE  EntryAs(Order[n], Meaning, outs)' \in index'
  BY <1>2, <1>3 DEF Backed
<1> QED
  BY <1>3 DEF Backed

\* The outputs of the phases before the one at hand stay as it is resolved.
LEMMA ResolvesKeeps ==
  ASSUME TypeOK, AtPhase, pc \in Looking, NEW o, Resolves(o)
  PROVE  /\ at \in 1..14 /\ at' = at + 1
         /\ outs'[Order[at]] = o
         /\ \A n \in 1..14 : n < at => outs'[Order[n]] = outs[Order[n]]
         /\ \A n \in 1..14 : n <= at =>
              \A q \in Upstream(Order[n]) : outs'[q] = outs[q]
<1>1. at \in 1..14 /\ at' = at + 1 /\ outs' = [outs EXCEPT ![Order[at]] = o]
  BY DEF AtPhase, Resolves
<1>2. outs'[Order[at]] = o
  BY <1>1, OrderFacts DEF TypeOK, Outputs
<1>3. ASSUME NEW n \in 1..14, n < at PROVE outs'[Order[n]] = outs[Order[n]]
  <2>1. Order[n] # Order[at] /\ Order[n] \in Phases
    BY <1>1, <1>3, OrderFacts
  <2> QED
    BY <1>1, <2>1 DEF TypeOK, Outputs
<1>4. ASSUME NEW n \in 1..14, n <= at, NEW q \in Upstream(Order[n])
      PROVE  outs'[q] = outs[q]
  <2>1. PICK m \in 1..(n - 1) : q = Order[m]
    BY UpstreamFirst
  <2>2. m \in 1..14 /\ m < at
    BY <1>1, <1>4, <2>1
  <2> QED
    BY <1>3, <2>1, <2>2
<1> QED
  BY <1>1, <1>2, <1>3, <1>4

\* Hit or stored, the phase resolved has its entry like those before it.
LEMMA ResolvesBacked ==
  ASSUME TypeOK, AtPhase, pc \in Looking, Backed, ~raced, fp' = fp, index \subseteq index',
         NEW o, Resolves(o), verdict # "published",
         [phase |-> Order[at], key |-> KeyOf(Order[at]), out |-> o] \in index',
         KeyOf(Order[at]) = KeyAs(Order[at], Meaning, outs)
  PROVE  Backed'
<1>1. Meaning' = Meaning
  BY DEF Meaning, Meant
<1>2. at \in 1..14 /\ at' = at + 1
  BY ResolvesKeeps
<1>3. ASSUME NEW n \in 1..14, n <= at
      PROVE  KeyAs(Order[n], Meaning, outs') = KeyAs(Order[n], Meaning, outs)
  <2>1. \A q \in Upstream(Order[n]) : outs'[q] = outs[q]
    BY <1>3, ResolvesKeeps
  <2> QED
    BY <2>1, OrderFacts, KeyLooksBack
<1>4. ASSUME NEW n \in 1..14, n < at PROVE EntryAs(Order[n], Meaning, outs') \in index'
  <2>1. EntryAs(Order[n], Meaning, outs) \in index
    BY <1>4 DEF Backed, Resolving
  <2>2. outs'[Order[n]] = outs[Order[n]]
    BY <1>4, ResolvesKeeps
  <2>3. KeyAs(Order[n], Meaning, outs') = KeyAs(Order[n], Meaning, outs)
    BY <1>2, <1>3, <1>4
  <2> QED
    BY <2>1, <2>2, <2>3 DEF EntryAs
<1>5. EntryAs(Order[at], Meaning, outs') \in index'
  <2>1. outs'[Order[at]] = o
    BY ResolvesKeeps
  <2>2. KeyAs(Order[at], Meaning, outs') = KeyOf(Order[at])
    BY <1>2, <1>3
  <2> QED
    BY <2>1, <2>2 DEF EntryAs
<1>6. \A n \in 1..14 : n < at' => EntryAs(Order[n], Meaning, outs') \in index'
  BY <1>2, <1>4, <1>5
<1>7. verdict' # "published"
  BY DEF Resolves, Goes
<1>8. \A n \in 1..14 : EntryAs(Order[n], Meaning, outs)' = EntryAs(Order[n], Meaning, outs')
  BY <1>1 DEF EntryAs, KeyAs
<1> QED
  BY <1>6, <1>7, <1>8 DEF Backed

\* Without a race, what a running build hashes is what it means.
LEMMA KeyAsMeant ==
  ASSUME NowIsMeant, pc \in Resolving, ~raced, NEW p \in Phases
  PROVE  KeyOf(p) = KeyAs(p, Meaning, outs)
<1>1. \A i \in Keyed : Now(i) = Meant(i)
  BY DEF NowIsMeant, Sure
<1> QED
  BY <1>1, KeyOfIsKeyAs

\* Each phase resolved has its entry, from the first to the last.
LEMMA BackedStep == RInv /\ [Next]_vars => Backed'
<1> SUFFICES ASSUME RInv, [Next]_vars, ~(raced') PROVE Backed'
  BY DEF Backed
<1>t. TypeOK /\ AtPhase /\ Quiet /\ NowIsMeant /\ Backed /\ Fresh /\ index \subseteq index'
  BY UniqueStep DEF RInv, HInv
<1> USE DEF Ends, Goes, Resolving, Looking
<1>1. CASE UNCHANGED vars
  BY <1>1, <1>t, BackedStays DEF vars, local, history
<1>2. ASSUME NEW i \in Editable, NEW v \in Versions, Edit(i, v) PROVE Backed'
  <2>1. ~raced
    BY <1>2 DEF Edit
  <2> QED
    BY <1>2, <1>t, <2>1, EditEffect, BackedStays
<1>r. CASE Step
  <2>1. ~raced
    BY <1>r, BuildLeaves
  <2>2. ASSUME pc \in Looking, ~ComputeFingerprints
        PROVE  /\ fp' = fp /\ verdict # "published"
               /\ Order[at] \in Phases /\ KeyOf(Order[at]) = KeyAs(Order[at], Meaning, outs)
    BY <1>r, <1>t, <2>1, <2>2, BuildLeaves, KeyAsMeant, OrderFacts DEF AtPhase, Quiet
  <2>3. CASE LookupHit
    <3>1. PICK e \in Hits(Order[at]) : Resolves(e.out)
      BY <2>3 DEF LookupHit
    <3>2. e = [phase |-> Order[at], key |-> KeyOf(Order[at]), out |-> e.out] /\ e \in index'
      BY <1>t DEF Hits, TypeOK, Entries
    <3>3. pc \in Looking /\ ~ComputeFingerprints
      BY <2>3 DEF LookupHit, ComputeFingerprints
    <3> QED
      BY <1>t, <2>1, <2>2, <3>1, <3>2, <3>3, ResolvesBacked
  <2>4. CASE StoreOutput
    <3>1. key = KeyOf(Order[at]) /\ pc \in Looking /\ ~ComputeFingerprints
      BY <2>1, <2>4 DEF RInv, KeyIsExact, StoreOutput, ComputeFingerprints
    <3>2. [phase |-> Order[at], key |-> KeyOf(Order[at]), out |-> product] \in index'
      BY <3>1, <2>4 DEF StoreOutput
    <3>3. Resolves(product)
      BY <2>4 DEF StoreOutput
    <3> QED
      BY <1>t, <2>1, <2>2, <3>1, <3>2, <3>3, ResolvesBacked
  <2>5. CASE LookupMiss \/ CheckEnvironment \/ PrepareWorkRoot \/ RunProducer \/ InstallImage
    <3>1. at' = at /\ outs' = outs /\ fp' = fp /\ pc \in Resolving
      BY <2>5 DEF LookupMiss, CheckEnvironment, PrepareWorkRoot, RunProducer,
         InstallImage, local
    <3>2. verdict' # "published"
      BY <1>t, <2>5 DEF Quiet, LookupMiss, CheckEnvironment, PrepareWorkRoot, RunProducer,
         InstallImage
    <3> QED
      BY <1>t, <2>1, <3>1, <3>2, BackedStays
  <2>6. CASE WriteStamp
    <3>1. at = 15 /\ pc \in Resolving /\ fp' = fp /\ outs' = outs
      BY <2>6 DEF WriteStamp, RInv, HInv, ResolvedAsMeant, local
    <3>2. \A n \in 1..14 : EntryAs(Order[n], Meaning, outs) \in index'
      BY <1>t, <2>1, <3>1 DEF Backed
    <3>3. \A n \in 1..14 : EntryAs(Order[n], Meaning, outs)' = EntryAs(Order[n], Meaning, outs)
      BY <3>1 DEF EntryAs, KeyAs, Meaning, Meant
    <3> QED
      BY <3>2, <3>3 DEF Backed
  <2>7. CASE LoadConfig \/ ComputeFingerprints \/ CheckCurrentImage
    <3>1. pc' \notin Resolving /\ verdict' # "published"
      BY <1>t, <2>7 DEF Quiet, LoadConfig, ComputeFingerprints, CheckCurrentImage, MissReason
    <3> QED
      BY <3>1 DEF Backed
  <2>8. CASE ResolveCurrentImage
    <3>1. verdict' # "published" /\ (pc' = "idle" \/ at' = 1)
      BY <1>t, <2>8 DEF Quiet, ResolveCurrentImage
    <3> QED
      BY <3>1 DEF Backed
  <2> QED
    BY <1>r, <2>3, <2>4, <2>5, <2>6, <2>7, <2>8 DEF Step
<1>5. CASE Damage
  <2>1. pc' = pc /\ at' = at /\ outs' = outs /\ fp' = fp /\ verdict' = verdict
    BY <1>5 DEF Damage, local
  <2>2. ~raced
    BY <1>5, BuildLeaves
  <2> QED
    BY <1>t, <2>1, <2>2, BackedStays
<1>6. CASE Interrupt \/ \E c \in Callers : Start(c)
  BY <1>6 DEF Interrupt, Start, Backed
<1> QED
  BY <1>1, <1>2, <1>r, <1>5, <1>6 DEF Next

\* The entries of the last build stay; a phase that no change reaches keeps the
\* output it had while the outputs before it and what is meant stay.
LEMMA LastStays ==
  ASSUME LastStands, index \subseteq index', last' = last, fp' = fp, outs' = outs,
         ~(raced') => ~raced, pc' \in Resolving => (pc \in Resolving /\ at' = at)
  PROVE  LastStands'
<1> SUFFICES ASSUME last # <<>>, ~(raced')
             PROVE  \E lo \in Outputs :
                      /\ \A p \in Phases : EntryAs(p, last, lo) \in index'
                      /\ pc' \in Resolving =>
                           \A n \in 1..14 : n < at' /\ Order[n] \notin Stale'
                             => outs'[Order[n]] = lo[Order[n]]
  BY DEF LastStands
<1>1. PICK lo \in Outputs :
        /\ \A p \in Phases : EntryAs(p, last, lo) \in index
        /\ pc \in Resolving =>
             \A n \in 1..14 : n < at /\ Order[n] \notin Stale
               => outs[Order[n]] = lo[Order[n]]
  BY DEF LastStands
<1>2. Stale' = Stale
  BY DEF Stale, Meant
<1> QED
  BY <1>1, <1>2

\* While nothing is being resolved, only the entries have to stay.
LEMMA LastStaysIdle ==
  ASSUME LastStands, index \subseteq index', last' = last, ~(raced') => ~raced,
         pc' \notin Resolving \/ at' = 1
  PROVE  LastStands'
<1> SUFFICES ASSUME last # <<>>, ~(raced')
             PROVE  \E lo \in Outputs :
                      /\ \A p \in Phases : EntryAs(p, last, lo) \in index'
                      /\ pc' \in Resolving =>
                           \A n \in 1..14 : n < at' /\ Order[n] \notin Stale'
                             => outs'[Order[n]] = lo[Order[n]]
  BY DEF LastStands
<1>1. PICK lo \in Outputs : \A p \in Phases : EntryAs(p, last, lo) \in index
  BY DEF LastStands
<1> QED
  BY <1>1

\* A phase that no change reaches finds the entry of the last build.
LEMMA StaleOrFound ==
  ASSUME RInv, pc = "lookup", last # <<>>, ~raced, NEW lo \in Outputs,
         \A p \in Phases : EntryAs(p, last, lo) \in index,
         \A n \in 1..14 : n < at /\ Order[n] \notin Stale => outs[Order[n]] = lo[Order[n]],
         Order[at] \notin Stale
  PROVE  EntryAs(Order[at], last, lo) \in Hits(Order[at])
<1>1. at \in 1..14 /\ Order[at] \in Phases
  BY OrderFacts DEF RInv, HInv, AtPhase, Looking
<1>2. \A q \in Upstream(Order[at]) : q \notin Stale => outs[q] = lo[q]
  <2> TAKE q \in Upstream(Order[at])
  <2>1. PICK m \in 1..(at - 1) : q = Order[m]
    BY <1>1, UpstreamFirst
  <2>2. m \in 1..14 /\ m < at
    BY <1>1, <2>1
  <2> QED
    BY <2>1, <2>2
<1>3. KeyOf(Order[at]) = KeyAs(Order[at], Meaning, outs)
  BY <1>1, KeyAsMeant DEF RInv, HInv, Resolving, Looking
<1>4. \A i \in Keyed : Meaning[i] = Meant(i)
  BY DEF Meaning
<1>5. KeyAs(Order[at], Meaning, outs) = KeyAs(Order[at], last, lo)
  BY <1>1, <1>2, <1>4, SameKey
<1> QED
  BY <1>1, <1>3, <1>5 DEF EntryAs, Hits

\* A resolved phase that no change reaches has the output of the last build.
LEMMA LastStaysResolved ==
  ASSUME RInv, pc \in Looking, last' = last, fp' = fp, ~(raced') => ~raced,
         index \subseteq index', NEW o, Resolves(o),
         \A lo \in Outputs :
           (/\ last # <<>> /\ ~raced /\ Order[at] \notin Stale
            /\ \A p \in Phases : EntryAs(p, last, lo) \in index
            /\ \A n \in 1..14 : n < at /\ Order[n] \notin Stale
                 => outs[Order[n]] = lo[Order[n]])
             => o = lo[Order[at]]
  PROVE  LastStands'
<1> SUFFICES ASSUME last # <<>>, ~(raced')
             PROVE  \E lo \in Outputs :
                      /\ \A p \in Phases : EntryAs(p, last, lo) \in index'
                      /\ pc' \in Resolving =>
                           \A n \in 1..14 : n < at' /\ Order[n] \notin Stale'
                             => outs'[Order[n]] = lo[Order[n]]
  BY DEF LastStands
<1>1. PICK lo \in Outputs :
        /\ \A p \in Phases : EntryAs(p, last, lo) \in index
        /\ \A n \in 1..14 : n < at /\ Order[n] \notin Stale => outs[Order[n]] = lo[Order[n]]
  BY DEF RInv, LastStands, Resolving
<1>2. Stale' = Stale
  BY DEF Stale, Meant
<1>3. /\ at \in 1..14 /\ at' = at + 1 /\ outs'[Order[at]] = o
      /\ \A n \in 1..14 : n < at => outs'[Order[n]] = outs[Order[n]]
  BY ResolvesKeeps DEF RInv, HInv
<1>4. ASSUME NEW n \in 1..14, n < at', Order[n] \notin Stale
      PROVE  outs'[Order[n]] = lo[Order[n]]
  <2>1. CASE n = at
    BY <1>1, <1>3, <1>4, <2>1
  <2>2. CASE n < at
    BY <1>1, <1>3, <1>4, <2>2
  <2> QED
    BY <1>3, <1>4, <2>1, <2>2, SMTT(30)
<1> QED
  BY <1>1, <1>2, <1>4

\* A build that published becomes the last one; the others leave it standing.
LEMMA LastStandsStep == RInv /\ [Next]_vars => LastStands'
<1> SUFFICES ASSUME RInv, [Next]_vars PROVE LastStands'
  OBVIOUS
<1>t. /\ TypeOK /\ AtPhase /\ LastStands /\ Backed /\ OnlyStale /\ Unique
      /\ index \subseteq index'
  BY UniqueStep DEF RInv, HInv
<1> USE DEF Ends, Goes, Resolving, Looking
<1>1. CASE UNCHANGED vars
  BY <1>1, <1>t, LastStays DEF vars, local, history
<1>2. ASSUME NEW i \in Editable, NEW v \in Versions, Edit(i, v) PROVE LastStands'
  <2>1. ~(raced') => ~raced
    BY <1>2 DEF Edit
  <2> QED
    BY <1>2, <1>t, <2>1, EditEffect, LastStays
<1>3. ASSUME NEW c \in Callers, Start(c) PROVE LastStands'
  <2>1. CASE verdict = "published"
    <3>1. last' = Meaning /\ pc' = "load" /\ index' = index /\ (raced' <=> raced)
      BY <1>3, <2>1 DEF Start, Meaning, files
    <3>2. ASSUME ~raced, NEW p \in Phases PROVE EntryAs(p, Meaning, outs) \in index
      <4>1. PICK n \in 1..14 : p = Order[n]
        BY OrderFacts
      <4> QED
        BY <1>t, <2>1, <3>2, <4>1 DEF Backed
    <3>3. outs \in Outputs
      BY <1>t DEF TypeOK
    <3>4. ASSUME ~raced
          PROVE  \E lo \in Outputs : \A p \in Phases : EntryAs(p, Meaning, lo) \in index
      BY <3>2, <3>3, <3>4
    <3>5. \A p \in Phases, lo \in Outputs :
            EntryAs(p, last, lo)' = EntryAs(p, Meaning, lo)
      BY <3>1 DEF EntryAs, KeyAs
    <3> QED
      BY <3>1, <3>4, <3>5 DEF LastStands, EntryAs, KeyAs
  <2>2. CASE verdict # "published"
    <3>1. last' = last /\ pc' = "load" /\ (raced' <=> raced)
      BY <1>3, <2>2 DEF Start
    <3> QED
      BY <1>t, <3>1, LastStaysIdle
  <2> QED
    BY <2>1, <2>2
<1>4. CASE Interrupt
  <2>1. last' = last /\ pc' = "idle" /\ (raced' <=> raced)
    BY <1>4 DEF Interrupt, history
  <2> QED
    BY <1>t, <2>1, LastStaysIdle
<1>5. CASE LookupHit
  <2>1. PICK e \in Hits(Order[at]) : Resolves(e.out)
    BY <1>5 DEF LookupHit
  <2>2. last' = last /\ fp' = fp /\ (raced' <=> raced) /\ pc = "lookup"
    BY <1>5 DEF LookupHit, history
  <2>3. ASSUME NEW lo \in Outputs, last # <<>>, ~raced, Order[at] \notin Stale,
               \A p \in Phases : EntryAs(p, last, lo) \in index,
               \A n \in 1..14 : n < at /\ Order[n] \notin Stale
                 => outs[Order[n]] = lo[Order[n]]
        PROVE  e.out = lo[Order[at]]
    <3>1. EntryAs(Order[at], last, lo) \in Hits(Order[at])
      BY <2>2, <2>3, StaleOrFound
    <3>2. e = EntryAs(Order[at], last, lo)
      BY <1>t, <3>1 DEF Hits, Unique
    <3> QED
      BY <3>2 DEF EntryAs
  <2> QED
    BY <1>t, <2>1, <2>2, <2>3, LastStaysResolved
<1>6. CASE StoreOutput
  <2>1. last' = last /\ fp' = fp /\ (raced' <=> raced) /\ pc = "store" /\ Resolves(product)
    BY <1>6 DEF StoreOutput, history
  <2>2. (last # <<>> /\ ~raced) => Order[at] \in Stale
    BY <1>t, <2>1 DEF OnlyStale
  <2> QED
    BY <1>t, <2>1, <2>2, LastStaysResolved
<1>7. CASE Damage \/ LookupMiss \/ CheckEnvironment \/ PrepareWorkRoot \/ RunProducer
           \/ InstallImage \/ WriteStamp
  <2>1. /\ last' = last /\ fp' = fp /\ outs' = outs /\ at' = at /\ (raced' <=> raced)
        /\ pc' \in Resolving => pc \in Resolving
    BY <1>7 DEF Damage, LookupMiss, CheckEnvironment, PrepareWorkRoot, RunProducer,
       InstallImage, WriteStamp, local, history
  <2> QED
    BY <1>t, <2>1, LastStays
<1>8. CASE LoadConfig \/ ComputeFingerprints \/ CheckCurrentImage \/ ResolveCurrentImage
  <2>1. last' = last /\ (raced' <=> raced) /\ (pc' \notin Resolving \/ at' = 1)
    BY <1>8 DEF LoadConfig, ComputeFingerprints, CheckCurrentImage, ResolveCurrentImage,
       history
  <2> QED
    BY <1>t, <2>1, LastStaysIdle
<1> QED
  BY <1>1, <1>2, <1>3, <1>4, <1>5, <1>6, <1>7, <1>8 DEF Next, Step

\* A body runs because its key has no entry, and that of a phase no change
\* reaches has one.
LEMMA OnlyStaleStep == RInv /\ [Next]_vars => OnlyStale'
<1> SUFFICES ASSUME RInv, [Next]_vars PROVE OnlyStale'
  OBVIOUS
<1>t. OnlyStale
  BY DEF RInv
<1> USE DEF Ends, Goes, OnlyStale
<1>1. CASE UNCHANGED vars
  <2>1. Stale' = Stale
    BY <1>1 DEF vars, local, history, Stale, Meant
  <2> QED
    BY <1>1, <1>t, <2>1 DEF vars, local, history
<1>2. ASSUME NEW i \in Editable, NEW v \in Versions, Edit(i, v) PROVE OnlyStale'
  <2>1. ~(raced') => ~raced
    BY <1>2 DEF Edit
  <2>2. fp' = fp /\ last' = last /\ made' = made /\ at' = at /\ pc' = pc
    BY <1>2 DEF Edit, local
  <2>3. Stale' = Stale
    BY <2>2 DEF Stale, Meant
  <2> QED
    BY <1>t, <2>1, <2>2, <2>3
<1>3. CASE \E c \in Callers : Start(c)
  BY <1>3 DEF Start
<1>4. CASE LookupMiss
  <2>1. /\ last' = last /\ fp' = fp /\ made' = made /\ at' = at /\ (raced' <=> raced)
        /\ pc = "lookup" /\ pc' \in {"environment", "produce"}
    BY <1>4 DEF LookupMiss, history
  <2>2. Stale' = Stale
    BY <2>1 DEF Stale, Meant
  <2>3. ASSUME last # <<>>, ~raced PROVE Order[at] \in Stale
    <3>1. PICK lo \in Outputs :
            /\ \A p \in Phases : EntryAs(p, last, lo) \in index
            /\ \A n \in 1..14 : n < at /\ Order[n] \notin Stale
                 => outs[Order[n]] = lo[Order[n]]
      BY <2>1, <2>3 DEF RInv, LastStands, Resolving, Looking
    <3> QED
      BY <1>4, <2>1, <2>3, <3>1, StaleOrFound DEF LookupMiss
  <2> QED
    BY <1>t, <2>1, <2>2, <2>3
<1>5. CASE RunProducer
  <2>1. /\ last' = last /\ fp' = fp /\ at' = at /\ (raced' <=> raced) /\ pc = "produce"
        /\ made' = made \cup {Order[at]} /\ pc' \in {"idle", "store"}
    BY <1>5 DEF RunProducer
  <2>2. Stale' = Stale
    BY <2>1 DEF Stale, Meant
  <2> QED
    BY <1>t, <2>1, <2>2
<1>6. CASE ComputeFingerprints
  <2>1. made' = {} /\ pc' \in {"resolve", "check"}
    BY <1>6, <1>t DEF ComputeFingerprints, history
  <2> QED
    BY <2>1
<1>7. CASE LoadConfig \/ CheckCurrentImage \/ ResolveCurrentImage \/ LookupHit
           \/ StoreOutput \/ InstallImage \/ WriteStamp \/ Interrupt \/ Damage
  <2>1. /\ last' = last /\ fp' = fp /\ made' = made /\ (raced' <=> raced)
        /\ pc' \notin {"environment", "work", "produce", "store"}
    BY <1>7 DEF LoadConfig, CheckCurrentImage, ResolveCurrentImage, LookupHit, StoreOutput,
       Resolves, InstallImage, WriteStamp, Interrupt, Damage, history, local
  <2>2. pc' \in {"load", "fingerprint", "check", "resolve"}
          => pc \in {"load", "fingerprint", "check", "resolve"}
    BY <1>7 DEF LoadConfig, CheckCurrentImage, ResolveCurrentImage, LookupHit, StoreOutput,
       Resolves, InstallImage, WriteStamp, Interrupt, Damage
  <2>3. Stale' = Stale
    BY <2>1 DEF Stale, Meant
  <2> QED
    BY <1>t, <2>1, <2>2, <2>3
<1>8. CASE CheckEnvironment \/ PrepareWorkRoot
  <2>1. /\ last' = last /\ fp' = fp /\ made' = made /\ at' = at /\ (raced' <=> raced)
        /\ pc \in {"environment", "work"} /\ pc' \in {"idle", "work", "produce"}
    BY <1>8 DEF CheckEnvironment, PrepareWorkRoot, history, local
  <2>2. Stale' = Stale
    BY <2>1 DEF Stale, Meant
  <2> QED
    BY <1>t, <2>1, <2>2
<1> QED
  BY <1>1, <1>2, <1>3, <1>4, <1>5, <1>6, <1>7, <1>8 DEF Next, Step

\* The invariant about builds after builds holds in every state.
THEOREM RebuildInvariant == Spec => []RInv
<1>1. Init => RInv
  <2>1. ASSUME Init PROVE /\ Unique /\ KeyIsExact /\ Fresh /\ Backed /\ LastStands /\ OnlyStale
    BY <2>1 DEF Init, Unique, KeyIsExact, Fresh, Backed, LastStands, OnlyStale, Resolving,
       Looking
  <2> QED
    BY <2>1, HonestInit DEF RInv
<1>2. RInv /\ [Next]_vars => RInv'
  <2> SUFFICES ASSUME RInv, [Next]_vars PROVE RInv'
    OBVIOUS
  <2>1. HInv'
    BY HonestStep DEF RInv
  <2>2. Unique' /\ KeyIsExact' /\ Fresh' /\ Backed'
    BY UniqueStep, KeyIsExactStep, FreshStep, BackedStep DEF RInv, HInv
  <2>3. LastStands' /\ OnlyStale'
    BY LastStandsStep, OnlyStaleStep
  <2> QED
    BY <2>1, <2>2, <2>3 DEF RInv
<1> QED
  BY <1>1, <1>2, PTL DEF Spec

\* After a build that published, another one runs no producer body but those
\* the invalidation table gives for the inputs that have changed since,
\* whatever was built, interrupted or damaged in between.
THEOREM BuildRebuildsOnlyWhatChanged == Spec => []RebuildsOnlyWhatChanged
<1>1. RInv => RebuildsOnlyWhatChanged
  BY DEF RInv, OnlyStale, Stale, RebuildsOnlyWhatChanged
<1> QED
  BY RebuildInvariant, <1>1, PTL

==============================================================================
