------------------------- MODULE ArtifactStoreProofs -------------------------
(***************************************************************************)
(* The store on disk implements the cache it should be, for every number   *)
(* of builders and of intents; and builders that race over a file leave it *)
(* whole.  Two worlds are told apart: while no two builders store the same *)
(* thing at once the disk obeys Alone, and until somebody is killed or the *)
(* power fails what is missing from a file is still being written.         *)
(***************************************************************************)
EXTENDS ArtifactStore, TLAPS

Busy(b) == job[b] # None

\* What a builder has left to write, where its handle leads and, from the
\* rename on, that its name exists.
InOrder(b) ==
  Busy(b) =>
    LET j == job[b]
    IN  /\ j.left \subseteq Whole(j.name)
        /\ j.step = "create" => j.left = Whole(j.name)
        /\ j.step = "copy" => j.left # {} /\ (j.name \notin Trees => j.fd # None)
        /\ j.step \in {"sync", "rename", "syncdir"} => j.left = {}
        /\ j.step = "syncdir" => final[j.name] # None
        /\ j.fd = "tmp" => tmp[j.name] # None
        /\ j.fd = "final" => final[j.name] # None

Progress == \A b \in Builders : InOrder(b)

\* A builder alone with its name: what it has written is under the temporary
\* name, and an entry is begun only over an object, its own one synced.
Undisturbed(b) ==
  LET j == job[b]
  IN  /\ j.fd \in {None, "tmp"}
      /\ j.step = "copy" =>
           tmp[j.name] # None /\ tmp[j.name].parts = Whole(j.name) \ j.left
      /\ j.step \in {"sync", "rename"} =>
           tmp[j.name] # None /\ tmp[j.name].parts = Whole(j.name)
      /\ j.step = "rename" => tmp[j.name].synced
      /\ j.name \in Keys =>
           final[Out[j.key]] # None /\ (j.own => Out[j.key] \in linked)

\* No two builders store the same thing.
Apart == \A b, o \in Builders : Busy(b) /\ Busy(o) /\ b # o => job[b].name # job[o].name

\* A name stands for something whole and synced.
Solid == \A n \in Names : final[n] # None => IsWhole(n) /\ final[n].synced

\* What was promised is on the disk.
Kept == \A k \in promised : k \in linked /\ Out[k] \in linked

\* The disk as long as no two builders have met.
Alone ==
  ~rivals => Apart /\ Solid /\ Kept /\ \A b \in Builders : Busy(b) => Undisturbed(b)

Writes(b, n, fd, part) ==
  Busy(b) /\ job[b].name = n /\ job[b].fd = fd /\ part \in job[b].left

\* As long as nobody was cut off, a part that is missing from a file is one
\* that a builder which has the file open has still to write.
Pending ==
  \A d \in Digests \ Trees : \A part \in Whole(d) :
    /\ tmp[d] # None /\ part \notin tmp[d].parts =>
         \E b \in Builders : Writes(b, d, "tmp", part)
    /\ final[d] # None /\ part \notin final[d].parts =>
         \E b \in Builders : Writes(b, d, "final", part)

Met == (rivals => ~cut) /\ (~cut => Pending)

IInv == TypeOK /\ Progress /\ Alone /\ Met

-----------------------------------------------------------------------------
\* What every step below knows of names and parts.
LEMMA NameFacts ==
  /\ \A k \in Keys : Out[k] \in Digests /\ Out[k] \notin Keys
  /\ Trees \subseteq Digests
  /\ \A n \in Names : Whole(n) \in SUBSET {1, 2} /\ Whole(n) # {}
  /\ \A d \in Digests : d \in Names /\ d \notin Keys /\ Whole(d) = {1, 2}
  /\ Keys \subseteq Names
BY OutputsAreDeterministic DEF Names, Digests, Whole

\* The next part to copy is one of those that are left.
LEMMA NextPartIsLeft ==
  ASSUME NEW left \in SUBSET {1, 2}, left # {}
  PROVE  NextPart(left) \in left
<1>1. CASE 1 \in left
  <2>1. \A q \in left : 1 <= q
    OBVIOUS
  <2> QED
    BY <1>1, <2>1 DEF NextPart
<1>2. CASE left = {2}
  <2>1. \A q \in left : 2 <= q
    BY <1>2
  <2> QED
    BY <1>2, <2>1 DEF NextPart
<1> QED
  BY <1>1, <1>2

\* A name to publish is a job.
LEMMA PublishIsJob ==
  ASSUME NEW k \in Keys, NEW n \in Names, NEW own \in BOOLEAN
  PROVE  Publish(k, n, own) \in Jobs
BY NameFacts DEF Publish, Jobs

-----------------------------------------------------------------------------
(* What a step does to the job of its builder, to the files and to the     *)
(* jobs of the others, field by field.                                     *)

\* The builder goes on with the same store.
GoesOn(b, step, left, fd) ==
  /\ job' \in [Builders -> Jobs \cup {None}]
  /\ job[b] \in Jobs /\ Busy(b) /\ Busy(b)'
  /\ job'[b].key = job[b].key /\ job'[b].name = job[b].name /\ job'[b].own = job[b].own
  /\ job'[b].step = step /\ job'[b].left = left /\ job'[b].fd = fd

\* The builder begins to bring in a name.
Begins(b, k, n, own) ==
  /\ job' \in [Builders -> Jobs \cup {None}] /\ Busy(b)'
  /\ job'[b].key = k /\ job'[b].name = n /\ job'[b].own = own
  /\ job'[b].step = "create" /\ job'[b].left = Whole(n) /\ job'[b].fd = None

OthersStay(b) == \A o \in Builders \ {b} : job'[o] = job[o]

\* A file changes in one name, to a given one.
Puts(f, g, n, file) ==
  /\ g \in [Names -> Files \cup {None}] /\ n \in Names
  /\ g[n] = file /\ \A m \in Names \ {n} : g[m] = f[m]

\* A step within a store changes the builder's job and no other.
LEMMA JobGoesOn ==
  ASSUME TypeOK, NEW b \in Builders, Busy(b),
         NEW step \in {"create", "copy", "sync", "rename", "syncdir"},
         NEW left \in SUBSET {1, 2}, NEW fd \in {None, "tmp", "final", "gone"},
         NEW j, j = [job[b] EXCEPT !.step = step, !.left = left, !.fd = fd],
         job' = [job EXCEPT ![b] = j]
  PROVE  GoesOn(b, step, left, fd) /\ OthersStay(b)
<1>1. job[b] \in Jobs
  BY DEF TypeOK, Busy
<1>2. /\ j \in Jobs /\ j.key = job[b].key /\ j.name = job[b].name /\ j.own = job[b].own
      /\ j.step = step /\ j.left = left /\ j.fd = fd
  BY <1>1 DEF Jobs
<1>3. job'[b] = j /\ \A o \in Builders \ {b} : job'[o] = job[o]
  BY DEF TypeOK
<1>4. job' \in [Builders -> Jobs \cup {None}]
  BY <1>2 DEF TypeOK
<1> QED
  BY <1>1, <1>2, <1>3, <1>4, NoneIsNothing DEF GoesOn, OthersStay, Busy

\* Putting one file in place leaves the others.
LEMMA FileIsPut ==
  ASSUME NEW f \in [Names -> Files \cup {None}], NEW n \in Names,
         NEW file \in Files \cup {None}, NEW g, g = [f EXCEPT ![n] = file]
  PROVE  Puts(f, g, n, file)
BY DEF Puts

\* Create empties the file and opens it.
LEMMA CreateEffect ==
  ASSUME TypeOK, NEW b \in Builders, Create(b)
  PROVE  /\ At(b, "create")
         /\ GoesOn(b, "copy", job[b].left, IF job[b].name \in Trees THEN None ELSE "tmp")
         /\ OthersStay(b)
         /\ Puts(tmp, tmp', job[b].name, [parts |-> {}, synced |-> FALSE])
         /\ tmp'[job[b].name] # None
         /\ UNCHANGED <<final, linked, promised, rivals, cut>>
<1> DEFINE fd == IF job[b].name \in Trees THEN None ELSE "tmp"
           j == [job[b] EXCEPT !.step = "copy", !.left = job[b].left, !.fd = fd]
<1>1. job[b] \in Jobs /\ Busy(b)
  BY DEF TypeOK, Create, At, Busy
<1>2. job' = [job EXCEPT ![b] = j]
  BY <1>1 DEF Create, Jobs, TypeOK
<1>3. GoesOn(b, "copy", job[b].left, fd) /\ OthersStay(b)
  <2>1. job[b].left \in SUBSET {1, 2} /\ fd \in {None, "tmp", "final", "gone"}
    BY <1>1 DEF Jobs
  <2> HIDE DEF j, fd
  <2> QED
    BY <1>1, <1>2, <2>1, JobGoesOn DEF j
<1>4. Puts(tmp, tmp', job[b].name, [parts |-> {}, synced |-> FALSE])
  BY <1>1, FileIsPut DEF Create, TypeOK, Jobs, Files
<1>5. [parts |-> {}, synced |-> FALSE] \in Files
  BY DEF Files
<1> QED
  BY <1>3, <1>4, <1>5, NoneIsNothing DEF Create, Puts

\* Store begins with the object, or with the entry when the object is there.
LEMMA StoreEffect ==
  ASSUME TypeOK, NEW b \in Builders, NEW k \in Keys, Store(b, k)
  PROVE  /\ ~Busy(b)
         /\ \/ final[Out[k]] = None /\ Begins(b, k, Out[k], TRUE)
            \/ final[Out[k]] # None /\ Begins(b, k, k, FALSE)
         /\ OthersStay(b) /\ Meets(b)
         /\ UNCHANGED <<tmp, final, linked, promised, cut>>
<1> DEFINE j == IF final[Out[k]] = None THEN Publish(k, Out[k], TRUE)
                                        ELSE Publish(k, k, FALSE)
<1>1. j \in Jobs
  BY NameFacts, PublishIsJob
<1>2. job' = [job EXCEPT ![b] = j]
  BY DEF Store
<1>3. /\ job' \in [Builders -> Jobs \cup {None}] /\ job'[b] = j
      /\ \A o \in Builders \ {b} : job'[o] = job[o]
  <2> HIDE DEF j
  <2> QED
    BY <1>1, <1>2 DEF TypeOK
<1> QED
  BY <1>1, <1>3, NoneIsNothing DEF Store, Begins, OthersStay, Busy, Publish

\* Copy adds the next part to what the builder has open.
LEMMA CopyEffect ==
  ASSUME TypeOK, Progress, NEW b \in Builders, Copy(b)
  PROVE  LET n == job[b].name
             part == NextPart(job[b].left)
             left == job[b].left \ {part}
         IN  /\ At(b, "copy") /\ part \in job[b].left
             /\ GoesOn(b, IF left = {} THEN "sync" ELSE "copy", left, job[b].fd)
             /\ OthersStay(b)
             /\ \/ /\ n \in Trees \/ job[b].fd = "tmp"
                   /\ tmp[n] # None /\ UNCHANGED final
                   /\ Puts(tmp, tmp', n, Grown(tmp[n], part)) /\ tmp'[n] # None
                \/ /\ n \notin Trees /\ job[b].fd = "final"
                   /\ final[n] # None /\ UNCHANGED tmp
                   /\ Puts(final, final', n, Grown(final[n], part)) /\ final'[n] # None
                \/ /\ n \notin Trees /\ job[b].fd \notin {"tmp", "final"}
                   /\ UNCHANGED <<tmp, final>>
             /\ UNCHANGED <<linked, promised, rivals, cut>>
<1> DEFINE n == job[b].name
           part == NextPart(job[b].left)
           left == job[b].left \ {part}
           step == IF left = {} THEN "sync" ELSE "copy"
           j == [job[b] EXCEPT !.step = step, !.left = left, !.fd = job[b].fd]
<1>1. job[b] \in Jobs /\ Busy(b) /\ n \in Names
  BY DEF TypeOK, Copy, At, Busy, Jobs
<1>2. part \in job[b].left /\ part \in {1, 2}
  BY <1>1, NextPartIsLeft DEF Copy, At, Progress, InOrder, Jobs
<1>3. job' = [job EXCEPT ![b] = j]
  BY <1>1 DEF Copy, Jobs, TypeOK
<1>4. GoesOn(b, step, left, job[b].fd) /\ OthersStay(b)
  <2>1. /\ left \in SUBSET {1, 2} /\ job[b].fd \in {None, "tmp", "final", "gone"}
        /\ step \in {"create", "copy", "sync", "rename", "syncdir"}
    BY <1>1 DEF Jobs
  <2> HIDE DEF j, left, step
  <2> QED
    BY <1>1, <1>3, <2>1, JobGoesOn DEF j
<1>5. CASE n \in Trees \/ job[b].fd = "tmp"
  <2>1. tmp[n] # None /\ tmp[n] \in Files
    BY <1>1, <1>5 DEF Copy, Progress, InOrder, TypeOK
  <2>2. Grown(tmp[n], part) \in Files
    BY <1>2, <2>1 DEF Grown, Files
  <2>3. tmp' = [tmp EXCEPT ![n] = Grown(tmp[n], part)] /\ UNCHANGED final
    BY <1>5 DEF Copy
  <2>4. Puts(tmp, tmp', n, Grown(tmp[n], part)) /\ tmp'[n] # None
    BY <1>1, <2>2, <2>3, FileIsPut, NoneIsNothing DEF TypeOK, Puts
  <2> QED
    BY <1>2, <1>4, <1>5, <2>1, <2>3, <2>4 DEF Copy
<1>6. CASE n \notin Trees /\ job[b].fd = "final"
  <2>1. final[n] # None /\ final[n] \in Files
    BY <1>1, <1>6 DEF Progress, InOrder, TypeOK
  <2>2. Grown(final[n], part) \in Files
    BY <1>2, <2>1 DEF Grown, Files
  <2>3. final' = [final EXCEPT ![n] = Grown(final[n], part)] /\ UNCHANGED tmp
    BY <1>6 DEF Copy
  <2>4. Puts(final, final', n, Grown(final[n], part)) /\ final'[n] # None
    BY <1>1, <2>2, <2>3, FileIsPut, NoneIsNothing DEF TypeOK, Puts
  <2> QED
    BY <1>2, <1>4, <1>6, <2>1, <2>3, <2>4 DEF Copy
<1>7. CASE n \notin Trees /\ job[b].fd \notin {"tmp", "final"}
  BY <1>2, <1>4, <1>7 DEF Copy
<1> QED
  BY <1>5, <1>6, <1>7

\* Sync makes what is under the temporary name last.
LEMMA SyncEffect ==
  ASSUME TypeOK, NEW b \in Builders, Sync(b)
  PROVE  LET n == job[b].name
         IN  /\ At(b, "sync") /\ tmp[n] # None
             /\ GoesOn(b, "rename", job[b].left, None) /\ OthersStay(b)
             /\ Puts(tmp, tmp', n, tmp'[n])
             /\ tmp'[n] # None /\ tmp'[n].parts = tmp[n].parts /\ tmp'[n].synced
             /\ UNCHANGED <<final, linked, promised, rivals, cut>>
<1> DEFINE n == job[b].name
           j == [job[b] EXCEPT !.step = "rename", !.left = job[b].left, !.fd = None]
           file == [tmp[n] EXCEPT !.synced = TRUE]
<1>1. job[b] \in Jobs /\ Busy(b) /\ n \in Names
  BY DEF TypeOK, Sync, At, Busy, Jobs
<1>2. job' = [job EXCEPT ![b] = j]
  BY <1>1 DEF Sync, Jobs, TypeOK
<1>3. GoesOn(b, "rename", job[b].left, None) /\ OthersStay(b)
  <2>1. job[b].left \in SUBSET {1, 2}
    BY <1>1 DEF Jobs
  <2> HIDE DEF j
  <2> QED
    BY <1>1, <1>2, <2>1, JobGoesOn DEF j
<1>4. tmp[n] \in Files /\ file \in Files
  BY <1>1, ZenonT(40) DEF Sync, TypeOK, Files
<1>5. file \in Files /\ file.parts = tmp[n].parts /\ file.synced
  BY <1>4 DEF Files
<1>6. Puts(tmp, tmp', n, file)
  <2>1. tmp' = [tmp EXCEPT ![n] = file]
    BY DEF Sync
  <2> HIDE DEF file
  <2> QED
    BY <1>1, <1>5, <2>1, FileIsPut DEF TypeOK
<1> QED
  BY <1>3, <1>5, <1>6, NoneIsNothing DEF Sync, Puts

\* Rename moves the file under its final name, with the handles that others
\* have on it.
LEMMA RenameEffect ==
  ASSUME TypeOK, NEW b \in Builders, Rename(b)
  PROVE  LET n == job[b].name
         IN  /\ At(b, "rename") /\ tmp[n] # None /\ (n \in Trees => final[n] = None)
             /\ GoesOn(b, "syncdir", job[b].left, job[b].fd)
             /\ \A o \in Others(b, n) :
                  GoesOn(o, job[o].step, job[o].left, Moved(job[o].fd))
             /\ \A o \in Builders \ {b} : o \notin Others(b, n) => job'[o] = job[o]
             /\ Puts(final, final', n, tmp[n]) /\ Puts(tmp, tmp', n, None)
             /\ UNCHANGED <<linked, promised, rivals, cut>>
<1> DEFINE n == job[b].name
<1>1. job[b] \in Jobs /\ Busy(b) /\ n \in Names
  BY DEF TypeOK, Rename, At, Busy, Jobs
<1>2. /\ job'[b] = [job[b] EXCEPT !.step = "syncdir"]
      /\ \A o \in Others(b, n) : job'[o] = [job[o] EXCEPT !.fd = Moved(job[o].fd)]
      /\ \A o \in Builders \ {b} : o \notin Others(b, n) => job'[o] = job[o]
      /\ DOMAIN job' = Builders
  BY DEF Rename, Others
<1>3. \A o \in Others(b, n) : job[o] \in Jobs /\ o \in Builders /\ Busy(o)
  BY DEF Others, TypeOK, Busy
<1>4. /\ job'[b] \in Jobs /\ \A o \in Others(b, n) : job'[o] \in Jobs
      /\ \A o \in Builders : job'[o] \in Jobs \cup {None}
      /\ job' = [o \in Builders |-> job'[o]]
  <2>1. job'[b] \in Jobs
    BY <1>1, <1>2 DEF Jobs
  <2>2. ASSUME NEW o \in Others(b, n) PROVE job'[o] \in Jobs
    <3>1. Moved(job[o].fd) \in {None, "tmp", "final", "gone"}
      BY <1>3 DEF Jobs, Moved
    <3>2. job[o] \in Jobs /\ job'[o] = [job[o] EXCEPT !.fd = Moved(job[o].fd)]
      BY <1>2, <1>3
    <3> QED
      BY <3>1, <3>2 DEF Jobs
  <2>3. job' = [o \in Builders |-> job'[o]]
    BY DEF Rename
  <2> QED
    BY <1>2, <2>1, <2>2, <2>3 DEF TypeOK
<1>5. job' \in [Builders -> Jobs \cup {None}]
  BY <1>4
<1>6. GoesOn(b, "syncdir", job[b].left, job[b].fd)
  BY <1>1, <1>2, <1>4, <1>5, NoneIsNothing DEF GoesOn, Busy, Jobs
<1>7. ASSUME NEW o \in Others(b, n)
      PROVE  GoesOn(o, job[o].step, job[o].left, Moved(job[o].fd))
  <2>1. job[o] \in Jobs /\ job'[o] = [job[o] EXCEPT !.fd = Moved(job[o].fd)]
    BY <1>2, <1>3
  <2>2. /\ job'[o].key = job[o].key /\ job'[o].name = job[o].name
        /\ job'[o].own = job[o].own /\ job'[o].step = job[o].step
        /\ job'[o].left = job[o].left /\ job'[o].fd = Moved(job[o].fd)
    BY <2>1 DEF Jobs
  <2> QED
    BY <1>3, <1>4, <1>5, <2>1, <2>2, NoneIsNothing DEF GoesOn, Busy
<1>8. Puts(final, final', n, tmp[n]) /\ Puts(tmp, tmp', n, None)
  BY <1>1, FileIsPut DEF Rename, TypeOK
<1> QED
  BY <1>2, <1>6, <1>7, <1>8 DEF Rename

\* The builder's store is over.
LEMMA EndsEffect ==
  ASSUME TypeOK, NEW b \in Builders, Ends(b)
  PROVE  job' \in [Builders -> Jobs \cup {None}] /\ ~Busy(b)' /\ OthersStay(b)
BY DEF TypeOK, Ends, Busy, OthersStay

\* SyncDir begins with the entry or ends the store, with a promise if the
\* builder has brought in the object itself.
LEMMA SyncDirEffect ==
  ASSUME TypeOK, NEW b \in Builders, SyncDir(b)
  PROVE  LET n == job[b].name
             k == job[b].key
         IN  /\ At(b, "syncdir") /\ Busy(b) /\ job[b] \in Jobs
             /\ \/ /\ n \in Keys /\ ~Busy(b)' /\ job' \in [Builders -> Jobs \cup {None}]
                   /\ promised' = (IF job[b].own THEN promised \cup {k} ELSE promised)
                   /\ UNCHANGED rivals
                \/ /\ n \notin Keys /\ Begins(b, k, k, TRUE) /\ Meets(b)
                   /\ UNCHANGED promised
             /\ OthersStay(b)
             /\ linked \subseteq linked' /\ linked' \subseteq {m \in Names : final[m] # None}
             /\ final[n] # None => n \in linked'
             /\ UNCHANGED <<tmp, final, cut>>
<1> DEFINE n == job[b].name
           k == job[b].key
<1>1. job[b] \in Jobs /\ Busy(b) /\ n \in Names /\ k \in Keys
  BY DEF TypeOK, SyncDir, At, Busy, Jobs
<1>2. /\ linked \subseteq linked' /\ linked' \subseteq {m \in Names : final[m] # None}
      /\ final[n] # None => n \in linked'
  BY <1>1, NameFacts DEF SyncDir, TypeOK, Names
<1>3. CASE n \in Keys
  BY <1>1, <1>2, <1>3, EndsEffect DEF SyncDir
<1>4. CASE n \notin Keys
  <2> DEFINE j == Publish(k, k, TRUE)
  <2>1. j \in Jobs /\ job' = [job EXCEPT ![b] = j]
    BY <1>1, <1>4, NameFacts, PublishIsJob DEF SyncDir
  <2>2. /\ job' \in [Builders -> Jobs \cup {None}] /\ job'[b] = j
        /\ \A o \in Builders \ {b} : job'[o] = job[o]
    <3> HIDE DEF j
    <3> QED
      BY <2>1 DEF TypeOK
  <2>3. Begins(b, k, k, TRUE) /\ OthersStay(b)
    BY <2>1, <2>2, NoneIsNothing DEF Begins, OthersStay, Busy, Publish
  <2> QED
    BY <1>1, <1>2, <1>4, <2>3 DEF SyncDir
<1> QED
  BY <1>3, <1>4

\* After a power cut a name stands for what it stood for, for nothing, or,
\* where that was not synced, for any parts of it.
LEMMA PowerCutEffect ==
  ASSUME TypeOK, PowerCut
  PROVE  /\ final' \in [Names -> Files \cup {None}]
         /\ \A n \in Names : final'[n] # None =>
              final[n] # None /\ (final[n].synced => final'[n] = final[n])
         /\ \A n \in linked : final'[n] # None
         /\ \A b \in Builders : ~Busy(b)'
<1>1. \A n \in Names : final'[n] \in Survivors(n) /\ DOMAIN final' = Names
  BY DEF PowerCut
<1>2. ASSUME NEW n \in Names
      PROVE  /\ Survivors(n) \subseteq Files \cup {None}
             /\ \A f \in Survivors(n) : f # None =>
                  final[n] # None /\ (final[n].synced => f = final[n])
             /\ n \in linked => None \notin Survivors(n)
  <2>1. final[n] \in Files \cup {None} /\ Whole(n) \subseteq {1, 2}
    BY NameFacts DEF TypeOK
  <2>2. \A p \in SUBSET Whole(n) : [parts |-> p, synced |-> TRUE] \in Files
    BY <2>1 DEF Files
  <2>3. n \in linked => final[n] # None
    BY DEF TypeOK
  <2> QED
    BY <2>1, <2>2, <2>3, NoneIsNothing DEF Survivors
<1>3. final' \in [Names -> Files \cup {None}]
  <2>1. final' \in [Names -> UNION {Survivors(n) : n \in Names}]
    BY DEF PowerCut
  <2> QED
    BY <1>1, <1>2, <2>1
<1>4. linked \subseteq Names
  BY DEF TypeOK
<1>5. \A b \in Builders : ~Busy(b)'
  BY DEF PowerCut, Busy
<1> QED
  BY <1>1, <1>2, <1>3, <1>4, <1>5

-----------------------------------------------------------------------------
\* Every variable has its type at first.
LEMMA TypeInit == Init => TypeOK
BY DEF Init, TypeOK, HandleOK

\* A step keeps the types; Copy does because a handle leads to a file.
LEMMA TypeStep == TypeOK /\ Progress /\ [Next]_vars => TypeOK'
<1> SUFFICES ASSUME TypeOK, Progress, [Next]_vars PROVE TypeOK'
  OBVIOUS
<1> USE NameFacts
<1>0. ASSUME NEW o \in Builders, job'[o] = job[o] \/ ~Busy(o)' PROVE HandleOK(o)'
  BY <1>0 DEF TypeOK, HandleOK, Busy
<1>1. CASE UNCHANGED vars
  BY <1>1 DEF vars, TypeOK, HandleOK
<1>2. CASE PowerCut
  <2>1. tmp' \in [Names -> Files \cup {None}]
    BY <1>2 DEF PowerCut
  <2> QED
    BY <1>0, <1>2, <2>1, PowerCutEffect DEF PowerCut, TypeOK
<1>3. ASSUME NEW b \in Builders, NEW k \in Keys, Store(b, k) PROVE TypeOK'
  <2>1. rivals' \in BOOLEAN
    BY <1>3, StoreEffect DEF Meets, TypeOK
  <2>2. HandleOK(b)'
    BY <1>3, StoreEffect, ZenonT(40) DEF Begins, HandleOK
  <2>3. job' \in [Builders -> Jobs \cup {None}] /\ \A o \in Builders \ {b} : HandleOK(o)'
    BY <1>0, <1>3, StoreEffect DEF Begins, OthersStay
  <2> QED
    BY <1>3, <2>1, <2>2, <2>3, StoreEffect DEF TypeOK
<1>4. ASSUME NEW b \in Builders, Create(b) PROVE TypeOK'
  <2>1. HandleOK(b)'
    BY <1>4, CreateEffect DEF TypeOK, HandleOK, GoesOn, Busy
  <2>2. job' \in [Builders -> Jobs \cup {None}] /\ \A o \in Builders \ {b} : HandleOK(o)'
    BY <1>0, <1>4, CreateEffect DEF GoesOn, OthersStay
  <2> QED
    BY <1>4, <2>1, <2>2, CreateEffect DEF TypeOK, Puts
<1>5. ASSUME NEW b \in Builders, Copy(b) PROVE TypeOK'
  <2> DEFINE n == job[b].name
             part == NextPart(job[b].left)
  <2>1. HandleOK(b)'
    BY <1>5, CopyEffect DEF TypeOK, HandleOK, GoesOn, Busy, At
  <2>2. job' \in [Builders -> Jobs \cup {None}] /\ \A o \in Builders \ {b} : HandleOK(o)'
    BY <1>0, <1>5, CopyEffect DEF GoesOn, OthersStay
  <2>3. UNCHANGED <<linked, promised, rivals, cut>>
    BY <1>5, CopyEffect
  <2>4. CASE UNCHANGED final /\ Puts(tmp, tmp', n, Grown(tmp[n], part))
    BY <2>1, <2>2, <2>3, <2>4 DEF TypeOK, Puts
  <2>5. CASE /\ UNCHANGED tmp /\ final'[n] # None
             /\ Puts(final, final', n, Grown(final[n], part))
    BY <2>1, <2>2, <2>3, <2>5 DEF TypeOK, Puts
  <2>6. CASE UNCHANGED <<tmp, final>>
    BY <2>1, <2>2, <2>3, <2>6 DEF TypeOK
  <2> QED
    BY <1>5, <2>4, <2>5, <2>6, CopyEffect
<1>6. ASSUME NEW b \in Builders, Sync(b) PROVE TypeOK'
  <2>1. HandleOK(b)'
    BY <1>6, SyncEffect DEF TypeOK, HandleOK, GoesOn, Busy
  <2>2. job' \in [Builders -> Jobs \cup {None}] /\ \A o \in Builders \ {b} : HandleOK(o)'
    BY <1>0, <1>6, SyncEffect DEF GoesOn, OthersStay
  <2> QED
    BY <1>6, <2>1, <2>2, SyncEffect DEF TypeOK, Puts
<1>7. ASSUME NEW b \in Builders, Rename(b) PROVE TypeOK'
  <2>1. /\ tmp' \in [Names -> Files \cup {None}] /\ final' \in [Names -> Files \cup {None}]
        /\ linked' \subseteq {n \in Names : final'[n] # None}
    BY <1>7, RenameEffect DEF TypeOK, Puts
  <2>2. HandleOK(b)'
    BY <1>7, RenameEffect DEF TypeOK, HandleOK, GoesOn, Busy, At
  <2>3. ASSUME NEW o \in Others(b, job[b].name) PROVE HandleOK(o)'
    <3>1. o \in Builders /\ GoesOn(o, job[o].step, job[o].left, Moved(job[o].fd))
      BY <1>7, RenameEffect DEF Others
    <3>2. Moved(job[o].fd) # None => job[o].fd # None
      BY NoneIsNothing DEF Moved
    <3> QED
      BY <3>1, <3>2 DEF TypeOK, HandleOK, GoesOn, Busy
  <2>4. \A o \in Builders : HandleOK(o)'
    BY <1>0, <1>7, <2>2, <2>3, RenameEffect
  <2> QED
    BY <1>7, <2>1, <2>4, RenameEffect DEF TypeOK, GoesOn
<1>8. ASSUME NEW b \in Builders, SyncDir(b) PROVE TypeOK'
  <2>1. rivals' \in BOOLEAN
    BY <1>8, SyncDirEffect DEF Meets, TypeOK
  <2>2. promised' \subseteq Keys
    <3>1. job[b].key \in Keys
      BY <1>8, SyncDirEffect DEF Jobs
    <3>2. promised' \in {promised, promised \cup {job[b].key}}
      BY <1>8, SyncDirEffect
    <3> QED
      BY <3>1, <3>2 DEF TypeOK
  <2>3. HandleOK(b)'
    BY <1>8, SyncDirEffect DEF Begins, HandleOK, Busy
  <2>4. job' \in [Builders -> Jobs \cup {None}] /\ \A o \in Builders \ {b} : HandleOK(o)'
    BY <1>0, <1>8, SyncDirEffect DEF Begins, OthersStay
  <2> QED
    BY <1>8, <2>1, <2>2, <2>3, <2>4, SyncDirEffect DEF TypeOK
<1>9. ASSUME NEW b \in Builders, LosesOut(b) \/ Killed(b) PROVE TypeOK'
  <2>1. Ends(b) /\ UNCHANGED <<tmp, final, linked, promised, rivals>> /\ cut' \in {cut, TRUE}
    BY <1>9 DEF LosesOut, Killed
  <2> QED
    BY <1>0, <2>1, EndsEffect DEF TypeOK, OthersStay
<1> QED
  BY <1>1, <1>2, <1>3, <1>4, <1>5, <1>6, <1>7, <1>8, <1>9 DEF Next

\* Nobody has a store at first.
LEMMA ProgressInit == Init => Progress
BY DEF Init, Progress, InOrder, Busy

\* No step but a rename takes a name away from a file.
NamesStay ==
  \A n \in Names : (tmp[n] # None => tmp'[n] # None) /\ (final[n] # None => final'[n] # None)

\* A step keeps what a builder has left in line with where it is.
LEMMA ProgressStep == TypeOK /\ Progress /\ [Next]_vars => Progress'
<1> SUFFICES ASSUME TypeOK, Progress, [Next]_vars PROVE Progress'
  OBVIOUS
<1>a. \A o \in Builders : InOrder(o) /\ (Busy(o) => job[o] \in Jobs /\ job[o].name \in Names)
  BY DEF Progress, TypeOK, Busy, Jobs
<1>b. ASSUME NEW o \in Builders, job'[o] = job[o], NamesStay PROVE InOrder(o)'
  BY <1>a, <1>b DEF InOrder, Busy, NamesStay
<1>c. ASSUME NEW o \in Builders, ~Busy(o)' PROVE InOrder(o)'
  BY <1>c DEF InOrder
<1>1. CASE UNCHANGED vars
  BY <1>1, <1>b DEF vars, Progress, NamesStay
<1>2. CASE PowerCut
  BY <1>2, <1>c, PowerCutEffect DEF Progress
<1>3. ASSUME NEW b \in Builders, NEW k \in Keys, Store(b, k) PROVE Progress'
  <2>1. InOrder(b)'
    BY <1>3, StoreEffect, NoneIsNothing DEF Begins, InOrder
  <2>2. \A o \in Builders \ {b} : InOrder(o)'
    BY <1>3, <1>b, StoreEffect DEF OthersStay, NamesStay
  <2> QED
    BY <2>1, <2>2 DEF Progress
<1>4. ASSUME NEW b \in Builders, Create(b) PROVE Progress'
  <2>1. tmp'[job[b].name] # None /\ NamesStay
    BY <1>4, CreateEffect DEF Puts, NamesStay
  <2>2. job[b].left # {}
    BY <1>4, <1>a, NameFacts, CreateEffect DEF InOrder, At, GoesOn
  <2>3. InOrder(b)'
    BY <1>4, <1>a, <2>1, <2>2, CreateEffect, NoneIsNothing DEF GoesOn, InOrder
  <2>4. \A o \in Builders \ {b} : InOrder(o)'
    BY <1>4, <1>b, <2>1, CreateEffect DEF OthersStay
  <2> QED
    BY <2>3, <2>4 DEF Progress
<1>5. ASSUME NEW b \in Builders, Copy(b) PROVE Progress'
  <2>1. NamesStay
    BY <1>5, CopyEffect DEF Puts, NamesStay
  <2>2. InOrder(b)'
    BY <1>5, <1>a, <2>1, CopyEffect DEF GoesOn, InOrder, At, NamesStay
  <2>3. \A o \in Builders \ {b} : InOrder(o)'
    BY <1>5, <1>b, <2>1, CopyEffect DEF OthersStay
  <2> QED
    BY <2>2, <2>3 DEF Progress
<1>6. ASSUME NEW b \in Builders, Sync(b) PROVE Progress'
  <2>1. NamesStay
    BY <1>6, SyncEffect DEF Puts, NamesStay
  <2>2. InOrder(b)'
    BY <1>6, <1>a, <2>1, SyncEffect, NoneIsNothing DEF GoesOn, InOrder, At, NamesStay
  <2>3. \A o \in Builders \ {b} : InOrder(o)'
    BY <1>6, <1>b, <2>1, SyncEffect DEF OthersStay
  <2> QED
    BY <2>2, <2>3 DEF Progress
<1>7. ASSUME NEW b \in Builders, Rename(b) PROVE Progress'
  <2> DEFINE n == job[b].name
  <2>1. /\ final'[n] # None /\ \A m \in Names : final[m] # None => final'[m] # None
        /\ \A m \in Names \ {n} : tmp'[m] = tmp[m]
    BY <1>7, RenameEffect DEF Puts
  <2>2. InOrder(b)'
    <3>1. job[b].fd = None
      BY <1>7, RenameEffect DEF TypeOK, HandleOK, At
    <3> QED
      BY <1>7, <1>a, <2>1, <3>1, RenameEffect, NoneIsNothing DEF GoesOn, InOrder, At
  <2>3. ASSUME NEW o \in Others(b, n) PROVE InOrder(o)'
    <3>1. /\ o \in Builders /\ Busy(o) /\ job[o].name = n
          /\ GoesOn(o, job[o].step, job[o].left, Moved(job[o].fd))
      BY <1>7, RenameEffect DEF Others, Busy
    <3>2. Moved(job[o].fd) # "tmp" /\ (job[o].fd # None => Moved(job[o].fd) # None)
      BY NoneIsNothing DEF Moved
    <3> QED
      BY <1>a, <2>1, <3>1, <3>2 DEF GoesOn, InOrder
  <2>4. ASSUME NEW o \in Builders \ {b}, o \notin Others(b, n) PROVE InOrder(o)'
    <3>1. job'[o] = job[o] /\ (Busy(o) => job[o].name # n)
      BY <1>7, <2>4, RenameEffect DEF Others, Busy
    <3> QED
      BY <1>a, <2>1, <3>1 DEF InOrder, Busy
  <2> QED
    BY <2>2, <2>3, <2>4 DEF Progress
<1>8. ASSUME NEW b \in Builders, SyncDir(b) PROVE Progress'
  <2>1. InOrder(b)'
    BY <1>8, SyncDirEffect, NoneIsNothing DEF Begins, InOrder
  <2>2. \A o \in Builders \ {b} : InOrder(o)'
    BY <1>8, <1>b, SyncDirEffect DEF OthersStay, NamesStay
  <2> QED
    BY <2>1, <2>2 DEF Progress
<1>9. ASSUME NEW b \in Builders, LosesOut(b) \/ Killed(b) PROVE Progress'
  <2>1. Ends(b) /\ NamesStay
    BY <1>9 DEF LosesOut, Killed, NamesStay
  <2> QED
    BY <1>b, <1>c, <2>1, EndsEffect DEF OthersStay, Progress
<1> QED
  BY <1>1, <1>2, <1>3, <1>4, <1>5, <1>6, <1>7, <1>8, <1>9 DEF Next

\* Nothing is there at first.
LEMMA AloneInit == Init => Alone
BY DEF Init, Alone, Apart, Solid, Kept, Busy

\* A builder is not disturbed by a step that leaves its own names alone.
LEMMA UndisturbedStays ==
  ASSUME TypeOK, NEW o \in Builders, Busy(o), Undisturbed(o), job'[o] = job[o],
         tmp'[job[o].name] = tmp[job[o].name],
         \A m \in Names : final[m] # None => final'[m] # None, linked \subseteq linked'
  PROVE  Undisturbed(o)'
<1>1. job[o].key \in Keys /\ Out[job[o].key] \in Names
  BY NameFacts DEF TypeOK, Busy, Jobs
<1> QED
  BY <1>1 DEF Undisturbed

\* A step that lets nobody meet keeps the disk so.
LEMMA AloneStep == TypeOK /\ Progress /\ Alone /\ [Next]_vars => Alone'
<1> SUFFICES ASSUME TypeOK, Progress, Alone, [Next]_vars, ~rivals' PROVE Alone'
  BY DEF Alone
<1>a. \A o \in Builders : InOrder(o) /\ (Busy(o) => job[o] \in Jobs /\ job[o].name \in Names)
  BY DEF Progress, TypeOK, Busy, Jobs
<1>b. ~rivals => /\ Apart /\ Solid /\ Kept
                 /\ \A b \in Builders : Busy(b) => Undisturbed(b)
  BY DEF Alone
<1>1. CASE UNCHANGED vars
  BY <1>1, <1>b DEF vars, Alone, Apart, Solid, Kept, Undisturbed, Busy, IsWhole
<1>2. CASE PowerCut
  <2>1. ~rivals
    BY <1>2 DEF PowerCut
  <2>2. Solid'
    BY <1>2, <1>b, <2>1, PowerCutEffect DEF Solid, IsWhole
  <2>3. Kept'
    <3>1. \A n \in linked : n \in linked'
      BY <1>2, PowerCutEffect DEF PowerCut, TypeOK
    <3> QED
      BY <1>2, <1>b, <2>1, <3>1 DEF Kept, PowerCut
  <2> QED
    BY <1>2, <2>2, <2>3, PowerCutEffect DEF Alone, Apart
<1>3. ASSUME NEW b \in Builders, NEW k \in Keys, Store(b, k) PROVE Alone'
  <2>1. ~rivals /\ \A o \in Builders \ {b} : Busy(o) => job[o].name # job'[b].name
    BY <1>3, StoreEffect DEF Meets, Others, Busy
  <2>2. Apart'
    <3>1. Apart /\ OthersStay(b)
      BY <1>3, <1>b, <2>1, StoreEffect
    <3> QED
      BY <2>1, <3>1 DEF Apart, OthersStay, Busy
  <2>3. Solid' /\ Kept'
    BY <1>3, <1>b, <2>1, StoreEffect DEF Solid, Kept, IsWhole
  <2>4. Undisturbed(b)'
    BY <1>3, NameFacts, StoreEffect, ZenonT(40) DEF Begins, Undisturbed
  <2>5. ASSUME NEW o \in Builders \ {b}, Busy(o)' PROVE Undisturbed(o)'
    BY <1>3, <1>b, <2>1, <2>5, UndisturbedStays, StoreEffect DEF OthersStay, Busy
  <2> QED
    BY <2>2, <2>3, <2>4, <2>5 DEF Alone
<1>4. ASSUME NEW b \in Builders, Create(b) PROVE Alone'
  <2>1. ~rivals
    BY <1>4, CreateEffect
  <2>2. Apart'
    BY <1>4, <1>b, <2>1, CreateEffect DEF Apart, OthersStay, GoesOn, Busy
  <2>3. Solid' /\ Kept'
    BY <1>4, <1>b, <2>1, CreateEffect DEF Solid, Kept, IsWhole
  <2>4. Undisturbed(b)'
    <3>1. /\ tmp'[job[b].name] # None
          /\ tmp'[job[b].name].parts = Whole(job[b].name) \ job[b].left
      BY <1>4, <1>a, CreateEffect DEF Puts, InOrder, At, GoesOn
    <3> QED
      BY <1>4, <1>b, <2>1, <3>1, CreateEffect DEF Undisturbed, GoesOn
  <2>5. ASSUME NEW o \in Builders \ {b}, Busy(o)' PROVE Undisturbed(o)'
    <3>1. Busy(o) /\ job'[o] = job[o] /\ job[o].name \in Names \ {job[b].name}
      BY <1>4, <1>a, <1>b, <2>1, <2>5, CreateEffect DEF OthersStay, Busy, Apart, GoesOn
    <3> QED
      BY <1>4, <1>b, <2>1, <3>1, UndisturbedStays, CreateEffect DEF Puts
  <2> QED
    BY <2>2, <2>3, <2>4, <2>5 DEF Alone
<1>5. ASSUME NEW b \in Builders, Copy(b) PROVE Alone'
  <2> DEFINE n == job[b].name
             part == NextPart(job[b].left)
  <2>1. ~rivals /\ Busy(b) /\ n \in Names
    BY <1>5, <1>a, CopyEffect DEF GoesOn
  <2>2. Apart'
    BY <1>5, <1>b, <2>1, CopyEffect DEF Apart, OthersStay, GoesOn, Busy
  <2>3. /\ tmp[n] # None /\ UNCHANGED final
        /\ Puts(tmp, tmp', n, Grown(tmp[n], part)) /\ tmp'[n] # None
    <3>1. n \notin Trees => job[b].fd = "tmp"
      BY <1>5, <1>a, <1>b, <2>1, CopyEffect DEF InOrder, Undisturbed, At
    <3> QED
      BY <1>5, <3>1, CopyEffect
  <2>4. Solid' /\ Kept'
    BY <1>5, <1>b, <2>1, <2>3, CopyEffect DEF Solid, Kept, IsWhole
  <2>5. Undisturbed(b)'
    <3>1. tmp'[n].parts = tmp[n].parts \cup {part}
      BY <2>3 DEF Puts, Grown
    <3>2. part \in job[b].left /\ job[b].left \subseteq Whole(n)
      BY <1>5, <1>a, <2>1, CopyEffect DEF InOrder
    <3>3. tmp[n].parts = Whole(n) \ job[b].left
      BY <1>5, <1>b, <2>1, CopyEffect DEF Undisturbed, At
    <3>4. tmp'[n].parts = Whole(n) \ (job[b].left \ {part})
      BY <3>1, <3>2, <3>3
    <3> QED
      BY <1>5, <1>b, <2>1, <2>3, <3>4, CopyEffect DEF Undisturbed, GoesOn
  <2>6. ASSUME NEW o \in Builders \ {b}, Busy(o)' PROVE Undisturbed(o)'
    <3>1. Busy(o) /\ job'[o] = job[o] /\ job[o].name \in Names \ {n}
      BY <1>5, <1>a, <1>b, <2>1, <2>6, CopyEffect DEF OthersStay, Busy, Apart
    <3> QED
      BY <1>5, <1>b, <2>1, <2>3, <3>1, UndisturbedStays, CopyEffect DEF Puts
  <2> QED
    BY <2>2, <2>4, <2>5, <2>6 DEF Alone
<1>6. ASSUME NEW b \in Builders, Sync(b) PROVE Alone'
  <2>1. ~rivals /\ Busy(b)
    BY <1>6, SyncEffect DEF GoesOn
  <2>2. Apart'
    BY <1>6, <1>b, <2>1, SyncEffect DEF Apart, OthersStay, GoesOn, Busy
  <2>3. Solid' /\ Kept'
    BY <1>6, <1>b, <2>1, SyncEffect DEF Solid, Kept, IsWhole
  <2>4. Undisturbed(b)'
    BY <1>6, <1>b, <2>1, SyncEffect DEF Undisturbed, GoesOn, At
  <2>5. ASSUME NEW o \in Builders \ {b}, Busy(o)' PROVE Undisturbed(o)'
    <3>1. Busy(o) /\ job'[o] = job[o] /\ job[o].name \in Names \ {job[b].name}
      BY <1>6, <1>a, <1>b, <2>1, <2>5, SyncEffect DEF OthersStay, Busy, Apart
    <3> QED
      BY <1>6, <1>b, <2>1, <3>1, UndisturbedStays, SyncEffect DEF Puts
  <2> QED
    BY <2>2, <2>3, <2>4, <2>5 DEF Alone
<1>7. ASSUME NEW b \in Builders, Rename(b) PROVE Alone'
  <2> DEFINE n == job[b].name
  <2>1. ~rivals /\ Busy(b) /\ n \in Names
    BY <1>7, <1>a, RenameEffect DEF GoesOn
  <2>2. \A o \in Builders \ {b} : job'[o] = job[o] /\ (Busy(o) => job[o].name # n)
    BY <1>7, <1>b, <2>1, RenameEffect DEF Apart, Others, Busy
  <2>3. Apart'
    BY <1>7, <1>b, <2>1, <2>2, RenameEffect DEF Apart, GoesOn, Busy
  <2>4. Solid'
    <3>1. tmp[n] # None /\ tmp[n].synced /\ tmp[n].parts = Whole(n)
      BY <1>7, <1>b, <2>1, RenameEffect DEF Undisturbed, At
    <3> QED
      BY <1>7, <1>b, <2>1, <3>1, RenameEffect DEF Solid, IsWhole, Puts
  <2>5. Kept'
    BY <1>7, <1>b, <2>1, RenameEffect DEF Kept
  <2>6. Undisturbed(b)'
    <3>1. job[b].key \in Keys /\ Out[job[b].key] \in Names
      BY <1>a, <2>1, NameFacts DEF Jobs
    <3>2. \A m \in Names : final[m] # None => final'[m] # None
      BY <1>7, RenameEffect DEF Puts
    <3>3. Undisturbed(b) /\ linked' = linked
      BY <1>7, <1>b, <2>1, RenameEffect
    <3> QED
      BY <1>7, <3>1, <3>2, <3>3, RenameEffect DEF Undisturbed, GoesOn
  <2>7. ASSUME NEW o \in Builders \ {b}, Busy(o)' PROVE Undisturbed(o)'
    BY <1>7, <1>a, <1>b, <2>1, <2>2, <2>7, UndisturbedStays, RenameEffect DEF Puts, Busy
  <2> QED
    BY <2>3, <2>4, <2>5, <2>6, <2>7 DEF Alone
<1>8. ASSUME NEW b \in Builders, SyncDir(b) PROVE Alone'
  <2> DEFINE n == job[b].name
             k == job[b].key
  <2>1. ~rivals /\ Busy(b) /\ n \in Names /\ k \in Keys
    BY <1>8, <1>a, SyncDirEffect DEF Meets, Jobs
  <2>2. final[n] # None /\ n \in linked'
    BY <1>8, <1>a, <2>1, SyncDirEffect DEF InOrder, At
  <2>3. n \in Keys => n = k
    BY <1>a, <2>1, NameFacts DEF TypeOK, HandleOK, Busy
  <2>4. n \notin Keys => n = Out[k]
    BY <1>a, <2>1, NameFacts DEF TypeOK, HandleOK, Busy
  <2>5. Apart'
    <3>1. Busy(b)' => \A o \in Builders \ {b} : Busy(o) => job[o].name # job'[b].name
      BY <1>8, SyncDirEffect DEF Meets, Others, Busy
    <3> QED
      BY <1>8, <1>b, <2>1, <3>1, SyncDirEffect, ZenonT(40) DEF Apart, OthersStay, Busy
  <2>6. Solid'
    BY <1>8, <1>b, <2>1, SyncDirEffect DEF Solid, IsWhole
  <2>7. Kept'
    <3>1. n \in Keys /\ job[b].own => Out[k] \in linked
      BY <1>b, <2>1 DEF Undisturbed
    <3>2. \A m \in promised' : m \in promised \/ (m = k /\ n \in Keys /\ job[b].own)
      BY <1>8, SyncDirEffect
    <3> QED
      BY <1>8, <1>b, <2>1, <2>2, <2>3, <3>1, <3>2, SyncDirEffect DEF Kept
  <2>8. Busy(b)' => Undisturbed(b)'
    BY <1>8, <2>1, <2>2, <2>4, SyncDirEffect DEF Undisturbed, Begins
  <2>9. ASSUME NEW o \in Builders \ {b}, Busy(o)' PROVE Undisturbed(o)'
    BY <1>8, <1>b, <2>1, <2>9, UndisturbedStays, SyncDirEffect DEF OthersStay, Busy
  <2> QED
    BY <2>5, <2>6, <2>7, <2>8, <2>9 DEF Alone
<1>9. ASSUME NEW b \in Builders, LosesOut(b) \/ Killed(b) PROVE Alone'
  <2>1. Ends(b) /\ UNCHANGED <<tmp, final, linked, promised, rivals>>
    BY <1>9 DEF LosesOut, Killed
  <2>2. ~Busy(b)' /\ OthersStay(b)
    BY <2>1, EndsEffect
  <2>3. Apart' /\ Solid' /\ Kept'
    BY <1>b, <2>1, <2>2 DEF Apart, Solid, Kept, IsWhole, OthersStay, Busy
  <2>4. ASSUME NEW o \in Builders \ {b}, Busy(o)' PROVE Undisturbed(o)'
    BY <1>b, <2>1, <2>2, <2>4, UndisturbedStays DEF OthersStay, Busy
  <2> QED
    BY <2>1, <2>2, <2>3, <2>4 DEF Alone
<1> QED
  BY <1>1, <1>2, <1>3, <1>4, <1>5, <1>6, <1>7, <1>8, <1>9 DEF Next

-----------------------------------------------------------------------------
\* Nobody writes at first, and nothing is missing.
LEMMA MetInit == Init => Met
BY NameFacts DEF Init, Met, Pending

\* A step that cuts nobody off leaves a writer for every part missing from a
\* file: the one that stops writing has nothing left to write.
LEMMA PendingStep ==
  TypeOK /\ Progress /\ Pending /\ [Next]_vars /\ ~cut' => Pending'
<1> SUFFICES ASSUME TypeOK, Progress, Pending, [Next]_vars, ~cut',
                    NEW d \in Digests \ Trees, NEW part \in Whole(d)
             PROVE  /\ tmp'[d] # None /\ part \notin tmp'[d].parts =>
                         \E o \in Builders : Writes(o, d, "tmp", part)'
                    /\ final'[d] # None /\ part \notin final'[d].parts =>
                         \E o \in Builders : Writes(o, d, "final", part)'
  BY DEF Pending, Whole
<1> DEFINE Goal == /\ tmp'[d] # None /\ part \notin tmp'[d].parts =>
                         \E o \in Builders : Writes(o, d, "tmp", part)'
                   /\ final'[d] # None /\ part \notin final'[d].parts =>
                         \E o \in Builders : Writes(o, d, "final", part)'
<1>a. \A o \in Builders : InOrder(o) /\ HandleOK(o)
                          /\ (Busy(o) => job[o] \in Jobs /\ job[o].name \in Names)
  BY DEF Progress, TypeOK, Busy, Jobs
<1>b. /\ tmp[d] # None /\ part \notin tmp[d].parts =>
           \E o \in Builders : Writes(o, d, "tmp", part)
      /\ final[d] # None /\ part \notin final[d].parts =>
           \E o \in Builders : Writes(o, d, "final", part)
  BY DEF Pending
<1>c. d \in Names /\ d \notin Keys /\ d \notin Trees
  BY NameFacts
<1>d. ASSUME NEW b \in Builders, OthersStay(b), UNCHANGED final,
             \/ UNCHANGED tmp
             \/ tmp'[d] # None => tmp[d] # None /\ tmp'[d].parts = tmp[d].parts,
             \A fd \in {"tmp", "final"} : ~Writes(b, d, fd, part)
      PROVE  Goal
  BY <1>b, <1>d DEF OthersStay, Writes, Busy
<1>1. CASE UNCHANGED vars
  BY <1>1, <1>b DEF vars, Writes, Busy
<1>2. CASE PowerCut
  BY <1>2 DEF PowerCut
<1>3. ASSUME NEW b \in Builders, NEW k \in Keys, Store(b, k) PROVE Goal
  <2>1. ~Busy(b) /\ OthersStay(b) /\ UNCHANGED <<tmp, final>>
    BY <1>3, StoreEffect
  <2> QED
    BY <1>d, <2>1 DEF Writes
<1>4. ASSUME NEW b \in Builders, Create(b) PROVE Goal
  <2>1. job[b].fd = None
    BY <1>4, <1>a, CreateEffect DEF HandleOK, At
  <2>2. ~Writes(b, d, "tmp", part) /\ ~Writes(b, d, "final", part)
    BY <2>1, NoneIsNothing DEF Writes
  <2>3. CASE job[b].name = d
    <3>1. Writes(b, d, "tmp", part)'
      BY <1>4, <1>a, <1>c, <2>3, CreateEffect DEF Writes, GoesOn, InOrder, At
    <3>2. UNCHANGED final /\ OthersStay(b)
      BY <1>4, CreateEffect
    <3> QED
      BY <1>b, <2>2, <3>1, <3>2 DEF OthersStay, Writes, Busy
  <2>4. CASE job[b].name # d
    <3>1. tmp'[d] = tmp[d] /\ UNCHANGED final /\ OthersStay(b)
      BY <1>4, <1>c, <2>4, CreateEffect DEF Puts
    <3> QED
      BY <1>d, <2>2, <3>1
  <2> QED
    BY <2>3, <2>4
<1>5. ASSUME NEW b \in Builders, Copy(b) PROVE Goal
  <2> DEFINE n == job[b].name
             new == NextPart(job[b].left)
  <2>1. /\ GoesOn(b, job'[b].step, job[b].left \ {new}, job[b].fd) /\ OthersStay(b)
        /\ new \in job[b].left
    BY <1>5, CopyEffect DEF GoesOn
  <2>2. ASSUME NEW fd, NEW o \in Builders, Writes(o, d, fd, part),
               o = b => part # new
        PROVE  Writes(o, d, fd, part)'
    BY <2>1, <2>2 DEF GoesOn, OthersStay, Writes, Busy
  <2>3. CASE UNCHANGED final /\ Puts(tmp, tmp', n, Grown(tmp[n], new)) /\ tmp[n] # None
             /\ (n \in Trees \/ job[b].fd = "tmp")
    <3>1. /\ tmp'[d] # None => tmp[d] # None /\ tmp[d].parts \subseteq tmp'[d].parts
          /\ d = n => new \in tmp'[d].parts
      BY <1>c, <2>3 DEF Puts, Grown
    <3>2. \A fd : Writes(b, d, fd, part) => d = n /\ fd = "tmp"
      BY <1>c, <2>3 DEF Writes
    <3> QED
      BY <1>b, <2>2, <2>3, <3>1, <3>2
  <2>4. CASE UNCHANGED tmp /\ Puts(final, final', n, Grown(final[n], new)) /\ final[n] # None
             /\ job[b].fd = "final"
    <3>1. /\ final'[d] # None => final[d] # None /\ final[d].parts \subseteq final'[d].parts
          /\ d = n => new \in final'[d].parts
      BY <1>c, <2>4 DEF Puts, Grown
    <3>2. \A fd : Writes(b, d, fd, part) => d = n /\ fd = "final"
      BY <2>4 DEF Writes
    <3> QED
      BY <1>b, <2>2, <2>4, <3>1, <3>2
  <2>5. CASE UNCHANGED <<tmp, final>> /\ job[b].fd \notin {"tmp", "final"}
    <3>1. \A fd \in {"tmp", "final"} : ~Writes(b, d, fd, part)
      BY <2>5 DEF Writes
    <3> QED
      BY <1>d, <2>1, <2>5, <3>1
  <2> QED
    BY <1>5, <2>3, <2>4, <2>5, CopyEffect
<1>6. ASSUME NEW b \in Builders, Sync(b) PROVE Goal
  <2>1. \A fd : ~Writes(b, d, fd, part)
    BY <1>6, <1>a, SyncEffect DEF Writes, InOrder, At
  <2>2. tmp'[d] # None => tmp[d] # None /\ tmp'[d].parts = tmp[d].parts
    BY <1>6, <1>c, SyncEffect DEF Puts
  <2> QED
    BY <1>6, <1>d, <2>1, <2>2, SyncEffect
<1>7. ASSUME NEW b \in Builders, Rename(b) PROVE Goal
  <2> DEFINE n == job[b].name
  <2>1. \A fd : ~Writes(b, d, fd, part)
    BY <1>7, <1>a, RenameEffect DEF Writes, InOrder, At
  <2>2. CASE n = d
    <3>1. tmp'[d] = None /\ final'[d] = tmp[d] /\ tmp[d] # None
      BY <1>7, <2>2, RenameEffect DEF Puts
    <3>2. ASSUME NEW o \in Builders, Writes(o, d, "tmp", part)
          PROVE  Writes(o, d, "final", part)'
      <4>1. o \in Others(b, n)
        BY <2>1, <2>2, <3>2 DEF Writes, Others, Busy
      <4>2. Moved(job[o].fd) = "final"
        BY <3>2 DEF Writes, Moved
      <4> QED
        BY <1>7, <2>2, <3>2, <4>1, <4>2, RenameEffect DEF Writes, GoesOn
    <3> QED
      BY <1>b, <3>1, <3>2
  <2>3. CASE n # d
    <3>1. tmp'[d] = tmp[d] /\ final'[d] = final[d]
      BY <1>7, <1>c, <2>3, RenameEffect DEF Puts
    <3>2. ASSUME NEW o \in Builders, NEW fd, Writes(o, d, fd, part)
          PROVE  Writes(o, d, fd, part)'
      <4>1. o \in Builders \ {b} /\ o \notin Others(b, n)
        BY <2>1, <2>3, <3>2 DEF Writes, Others
      <4> QED
        BY <1>7, <3>2, <4>1, RenameEffect DEF Writes, Busy
    <3> QED
      BY <1>b, <3>1, <3>2
  <2> QED
    BY <2>2, <2>3
<1>8. ASSUME NEW b \in Builders, SyncDir(b) PROVE Goal
  <2>1. \A fd : ~Writes(b, d, fd, part)
    BY <1>8, <1>a, SyncDirEffect DEF Writes, InOrder, At
  <2> QED
    BY <1>8, <1>d, <2>1, SyncDirEffect
<1>9. ASSUME NEW b \in Builders, LosesOut(b) PROVE Goal
  <2>1. Busy(b) /\ (job[b].name \in Trees \/ job[b].step \in {"sync", "rename"})
    BY <1>9 DEF LosesOut, At, Busy
  <2>2. \A fd : ~Writes(b, d, fd, part)
    BY <1>a, <1>c, <2>1 DEF Writes, InOrder
  <2>3. OthersStay(b) /\ UNCHANGED <<tmp, final>>
    BY <1>9, EndsEffect DEF LosesOut
  <2> QED
    BY <1>d, <2>2, <2>3
<1>10. ASSUME NEW b \in Builders, Killed(b) PROVE Goal
  BY <1>10 DEF Killed
<1> QED
  BY <1>1, <1>2, <1>3, <1>4, <1>5, <1>6, <1>7, <1>8, <1>9, <1>10 DEF Next

\* Builders meet only if nobody was cut off, and nobody is once they have met.
LEMMA MetStep == TypeOK /\ Progress /\ Met /\ [Next]_vars => Met'
<1> SUFFICES ASSUME TypeOK, Progress, Met, [Next]_vars PROVE Met'
  OBVIOUS
<1>1. rivals' => ~cut'
  BY DEF Met, Next, vars, PowerCut, Store, Create, Copy, Sync, Rename, SyncDir, LosesOut,
     Killed, Meets
<1>2. ~cut' => ~cut
  BY DEF Next, vars, PowerCut, Store, Create, Copy, Sync, Rename, SyncDir, LosesOut, Killed
<1> QED
  BY <1>1, <1>2, PendingStep DEF Met

-----------------------------------------------------------------------------
\* The inductive invariant holds in every state of every instance.
THEOREM StoreInvariant == Spec => []IInv
<1>1. Init => IInv
  BY TypeInit, ProgressInit, AloneInit, MetInit DEF IInv
<1>2. IInv /\ [Next]_vars => IInv'
  BY TypeStep, ProgressStep, AloneStep, MetStep DEF IInv
<1> QED
  BY <1>1, <1>2, PTL DEF Spec

\* Every variable has its type; no builder has a file open past its sync and
\* none has a tree open (store_file_cache, store_tree_cache).
THEOREM StoreTypeCorrect == Spec => []TypeOK
<1>1. IInv => TypeOK
  BY DEF IInv
<1> QED
  BY <1>1, StoreInvariant, PTL

\* When nobody is at work, a file that a restore gives is whole, however many
\* builders have written into it at once.
THEOREM RivalsLeaveFiles == Spec => []RivalsLeaveWholeFiles
<1>1. ASSUME IInv PROVE RivalsLeaveWholeFiles
  <2> SUFFICES ASSUME \A b \in Builders : ~Busy(b),
                      NEW k \in Keys, Hit(k), Out[k] \notin Trees
               PROVE  IsWhole(Out[k])
    BY <1>1 DEF RivalsLeaveWholeFiles, Answer, Busy
  <2>1. final[Out[k]] # None /\ Out[k] \in Digests \ Trees /\ Out[k] \in Names
    BY NameFacts DEF Hit
  <2>2. CASE cut
    BY <1>1, <2>1, <2>2 DEF IInv, Met, Alone, Solid
  <2>3. CASE ~cut
    <3>1. Whole(Out[k]) \subseteq final[Out[k]].parts
      BY <1>1, <2>1, <2>3 DEF IInv, Met, Pending, Writes
    <3>2. final[Out[k]].parts \subseteq {1, 2} /\ Whole(Out[k]) = {1, 2}
      BY <1>1, <2>1, NameFacts DEF IInv, TypeOK, Files
    <3> QED
      BY <2>1, <3>1, <3>2 DEF IsWhole
  <2> QED
    BY <2>2, <2>3
<1> QED
  BY <1>1, StoreInvariant, PTL

-----------------------------------------------------------------------------
(* The store implements ArtifactCache.                                     *)

There(k) == final[k] # None /\ final[Out[k]] # None

\* While no builders have met, what is there is right.
LEMMA AnswerIsRight ==
  ASSUME TypeOK, Alone, ~rivals, NEW k \in Keys
  PROVE  Answer(k) = IF There(k) THEN "right" ELSE "miss"
BY NameFacts DEF Alone, Solid, Answer, Hit, There, IsWhole

\* What a step does in the terms of ArtifactCache.
AbstractStep == [Cache!Next]_<<[k \in Keys |-> Answer(k)], promised, rivals>>

\* A step that takes no file away is one of Learn, or nothing.
LEMMA LearnStep ==
  ASSUME TypeOK, Alone, ~rivals, TypeOK', Alone', ~rivals', UNCHANGED promised,
         \A n \in Names : final[n] # None => final'[n] # None
  PROVE  AbstractStep
<1> DEFINE known == {k \in Keys : There(k)'}
<1>1. \A k \in Keys : Answer(k)' = IF k \in known THEN "right" ELSE Answer(k)
  <2> SUFFICES ASSUME NEW k \in Keys
               PROVE  Answer(k)' = IF k \in known THEN "right" ELSE Answer(k)
    OBVIOUS
  <2>1. There(k) => There(k)'
    BY NameFacts DEF There
  <2>2. Answer(k)' = IF There(k)' THEN "right" ELSE "miss"
    BY NameFacts DEF Alone, Solid, Answer, Hit, There, IsWhole
  <2> QED
    BY <2>1, <2>2, AnswerIsRight
<1>2. [k \in Keys |-> Answer(k)]'
        = [k \in Keys |-> IF k \in known THEN "right" ELSE [q \in Keys |-> Answer(q)][k]]
  BY <1>1
<1>3. known \in SUBSET Keys /\ UNCHANGED <<promised, rivals>>
  BY DEF TypeOK
<1>4. Cache!Learn
  <2> HIDE DEF known
  <2> QED
    BY <1>2, <1>3 DEF Cache!Learn
<1> QED
  BY <1>4 DEF AbstractStep, Cache!Next

\* A power cut is a step of Forget: what was promised is not forgotten.
LEMMA ForgetStep ==
  ASSUME TypeOK, Alone, TypeOK', Alone', PowerCut
  PROVE  AbstractStep
<1> DEFINE lost == {k \in Keys : ~There(k)'}
<1>1. ~rivals /\ ~rivals' /\ UNCHANGED promised
  BY DEF PowerCut
<1>2. lost \in SUBSET (Keys \ promised)
  <2>1. \A k \in promised : final'[k] # None /\ final'[Out[k]] # None
    BY <1>1, PowerCutEffect DEF Alone, Kept
  <2> QED
    BY <2>1 DEF There
<1>3. \A k \in Keys : Answer(k)' = IF k \in lost THEN "miss" ELSE Answer(k)
  <2> SUFFICES ASSUME NEW k \in Keys
               PROVE  Answer(k)' = IF k \in lost THEN "miss" ELSE Answer(k)
    OBVIOUS
  <2>1. There(k)' => There(k)
    BY NameFacts, PowerCutEffect DEF There
  <2>2. Answer(k)' = IF There(k)' THEN "right" ELSE "miss"
    BY <1>1, NameFacts DEF Alone, Solid, Answer, Hit, There, IsWhole
  <2> QED
    BY <1>1, <2>1, <2>2, AnswerIsRight
<1>4. [k \in Keys |-> Answer(k)]'
        = [k \in Keys |-> IF k \in lost THEN "miss" ELSE [q \in Keys |-> Answer(q)][k]]
  BY <1>3
<1>5. UNCHANGED <<promised, rivals>>
  BY DEF PowerCut
<1>6. Cache!Forget
  <2> HIDE DEF lost
  <2> QED
    BY <1>2, <1>4, <1>5 DEF Cache!Forget
<1> QED
  BY <1>6 DEF AbstractStep, Cache!Next

\* The end of a store is a step of Promise, or nothing.
LEMMA PromiseStep ==
  ASSUME TypeOK, Progress, Alone, TypeOK', Alone', ~rivals', NEW b \in Builders, SyncDir(b)
  PROVE  AbstractStep
<1> DEFINE n == job[b].name
           k == job[b].key
<1>1. ~rivals /\ UNCHANGED final /\ job[b] \in Jobs /\ Busy(b) /\ k \in Keys
  BY SyncDirEffect DEF Meets, Jobs
<1>2. [q \in Keys |-> Answer(q)]' = [q \in Keys |-> Answer(q)]
  BY <1>1 DEF Answer, Hit, IsWhole
<1>r. UNCHANGED rivals
  BY <1>1 DEF TypeOK
<1>3. CASE UNCHANGED promised
  BY <1>2, <1>r, <1>3 DEF AbstractStep
<1>4. CASE n \in Keys /\ promised' = promised \cup {k}
  <2>1. n = k
    BY <1>1, <1>4, NameFacts DEF TypeOK, HandleOK, Busy
  <2>2. final[n] # None
    BY <1>1, SyncDirEffect DEF Progress, InOrder, At
  <2>3. final[Out[k]] # None
    BY <1>1, <1>4 DEF Alone, Undisturbed
  <2>4. Answer(k) = "right"
    BY <1>1, <2>1, <2>2, <2>3, AnswerIsRight DEF There
  <2>5. [q \in Keys |-> Answer(q)][k] = "right"
    BY <1>1, <2>4
  <2>6. Cache!Promise
    BY <1>1, <1>2, <1>r, <1>4, <2>5 DEF Cache!Promise
  <2> QED
    BY <2>6 DEF AbstractStep, Cache!Next
<1> QED
  BY <1>3, <1>4, SyncDirEffect

\* Every step of the store is one of the cache, or none.
LEMMA EveryStepIsAbstract == IInv /\ IInv' /\ [Next]_vars => AbstractStep
<1> SUFFICES ASSUME IInv, IInv', [Next]_vars PROVE AbstractStep
  OBVIOUS
<1>a. TypeOK /\ Progress /\ Alone /\ TypeOK' /\ Alone'
  BY DEF IInv
<1>1. CASE rivals'
  BY <1>1 DEF AbstractStep, Cache!Next, Cache!NoPromise
<1>2. CASE ~rivals' /\ UNCHANGED vars
  BY <1>2 DEF AbstractStep, vars, Answer, Hit, IsWhole
<1>3. CASE PowerCut
  BY <1>a, <1>3, ForgetStep
<1>4. ASSUME NEW b \in Builders, ~rivals',
             \/ \E k \in Keys : Store(b, k)
             \/ Create(b) \/ Copy(b) \/ Sync(b) \/ Rename(b) \/ LosesOut(b) \/ Killed(b)
      PROVE  AbstractStep
  <2>1. ~rivals
    BY <1>4 DEF Store, Create, Copy, Sync, Rename, LosesOut, Killed, Meets
  <2>u. UNCHANGED promised
    BY <1>4 DEF Store, Create, Copy, Sync, Rename, LosesOut, Killed
  <2>2. ASSUME NEW n \in Names, final[n] # None PROVE final'[n] # None
    <3>1. CASE Copy(b)
      BY <1>a, <2>2, <3>1, CopyEffect DEF Puts
    <3>2. CASE Rename(b)
      BY <1>a, <2>2, <3>2, RenameEffect DEF Puts
    <3> QED
      BY <1>4, <2>2, <3>1, <3>2 DEF Store, Create, Sync, LosesOut, Killed
  <2> QED
    BY <1>a, <1>4, <2>1, <2>u, <2>2, LearnStep
<1>5. ASSUME NEW b \in Builders, ~rivals', SyncDir(b) PROVE AbstractStep
  BY <1>a, <1>5, PromiseStep
<1> QED
  BY <1>1, <1>2, <1>3, <1>4, <1>5 DEF Next

\* Through kills and power cuts the store is the cache: what it answers with
\* is whole, and a key stored from beginning to end is never lost.
THEOREM StoreImplementsCache == Spec => ImplementsCache
<1>1. Init => Cache!Init
  BY DEF Init, Cache!Init, Answer, Hit, IsWhole, Names
<1>2. IInv /\ IInv' /\ [Next]_vars => AbstractStep
  BY EveryStepIsAbstract
<1> QED
  BY <1>1, <1>2, StoreInvariant, PTL DEF Spec, ImplementsCache, Cache!Spec, AbstractStep

==============================================================================
