---------------------------- MODULE ArtifactStore ----------------------------
(***************************************************************************)
(* The content-addressed cache on disk (yaoshi-build cache.rs): objects    *)
(* under their digests, index entries under their keys, each brought in    *)
(* through a temporary name, by builders that may be killed, on a disk     *)
(* that may lose what was not synced.                                      *)
(*                                                                         *)
(* A file or tree is the set of its parts that are there.  A temporary     *)
(* name depends only on the final one, so builders that store the same     *)
(* thing share it; nothing locks it.                                       *)
(***************************************************************************)
EXTENDS Naturals, FiniteSets

CONSTANTS
    None,       \* nothing
    Builders,   \* processes that use the cache
    Keys,       \* intents, each a name in the index
    Out,        \* the digest of what an intent produces
    Trees       \* digests of trees; the others are files or composites

Digests == {Out[k] : k \in Keys}

ASSUME OutputsAreDeterministic ==
    /\ DOMAIN Out = Keys /\ Keys \cap Digests = {}
    /\ Trees \subseteq Digests

Names == Keys \cup Digests
Whole(n) == IF n \in Keys THEN {1} ELSE {1, 2}

Files == [parts : SUBSET {1, 2}, synced : BOOLEAN]
Jobs == [key : Keys, name : Names, step : {"create", "copy", "sync", "rename", "syncdir"},
         left : SUBSET {1, 2}, fd : {None, "tmp", "final", "gone"}, own : BOOLEAN]

ASSUME NoneIsNothing == None \notin Files \cup Jobs \cup {"tmp", "final", "gone"}

VARIABLES
    tmp, final,  \* what is under a name, temporary or final, or None
    linked,      \* final names that are on the disk
    job,         \* for each builder the store it is in, or None
    promised,    \* keys stored from beginning to end
    rivals,      \* two builders have stored the same thing at once
    cut          \* a builder was killed, or the power failed

vars == <<tmp, final, linked, job, promised, rivals, cut>>

-----------------------------------------------------------------------------
IsWhole(n) == final[n] # None /\ final[n].parts = Whole(n)

(* restore_file_cache, restore_tree_cache, restore_composite_cache: a well *)
(* formed entry and an object of that name; nothing reads the object.      *)
Hit(k) == IsWhole(k) /\ final[Out[k]] # None

Others(b, n) == {o \in Builders \ {b} : job[o] # None /\ job[o].name = n}

(* Two builders come together.  Nothing is promised once that has happened *)
(* and a builder or the power was cut off: the model ends there.           *)
Meets(b) == /\ rivals' = (rivals \/ Others(b, job'[b].name) # {})
            /\ ~(rivals' /\ cut)

(* Set about bringing in a name.                                           *)
Publish(k, n, own) ==
    [key |-> k, name |-> n, step |-> "create", left |-> Whole(n), fd |-> None, own |-> own]

Ends(b) == job' = [job EXCEPT ![b] = None]

(* store_*_cache: an object that is there is not written again.            *)
Store(b, k) ==
    LET d == Out[k]
    IN  /\ job[b] = None /\ ~Hit(k)
        /\ job' = [job EXCEPT ![b] = IF final[d] = None THEN Publish(k, d, TRUE)
                                     ELSE Publish(k, k, FALSE)]
        /\ Meets(b)
        /\ UNCHANGED <<tmp, final, linked, promised, cut>>

At(b, step) == job[b] # None /\ job[b].step = step

(* A tree is held by a handle, as a file is.                               *)
Create_HoldsTrees(b) ==
    /\ At(b, "create")
    /\ tmp' = [tmp EXCEPT ![job[b].name] = [parts |-> {}, synced |-> FALSE]]
    /\ job' = [job EXCEPT ![b].step = "copy", ![b].fd = "tmp"]
    /\ UNCHANGED <<final, linked, promised, rivals, cut>>

(* A file is opened and emptied, a tree removed and made anew.             *)
Create(b) ==
    LET n == job[b].name
    IN  /\ At(b, "create")
        /\ tmp' = [tmp EXCEPT ![n] = [parts |-> {}, synced |-> FALSE]]
        /\ job' = [job EXCEPT ![b].step = "copy", ![b].fd = IF n \in Trees THEN None ELSE "tmp"]
        /\ UNCHANGED <<final, linked, promised, rivals, cut>>

Grown(file, part) == [parts |-> file.parts \cup {part}, synced |-> FALSE]
NextPart(left) == CHOOSE p \in left : \A q \in left : p <= q

(* The copy stops, and the store with it, once the object is there.        *)
Copy_StopsWhenThere(b) ==
    LET n == job[b].name
        part == NextPart(job[b].left)
        left == job[b].left \ {part}
    IN  /\ At(b, "copy")
        /\ IF final[n] # None
           THEN Ends(b) /\ UNCHANGED tmp
           ELSE /\ tmp' = [tmp EXCEPT ![n] = Grown(@, part)]
                /\ job' = [job EXCEPT ![b].left = left,
                                      ![b].step = IF left = {} THEN "sync" ELSE "copy"]
        /\ UNCHANGED <<final, linked, promised, rivals, cut>>

(* The next part, into the open file wherever it is now, or into the tree  *)
(* that is under the temporary name.                                       *)
Copy(b) ==
    LET n == job[b].name
        part == NextPart(job[b].left)
        left == job[b].left \ {part}
    IN  /\ At(b, "copy")
        /\ n \in Trees => tmp[n] # None
        /\ IF n \in Trees \/ job[b].fd = "tmp"
           THEN tmp' = [tmp EXCEPT ![n] = Grown(@, part)] /\ UNCHANGED final
           ELSE IF job[b].fd = "final"
                THEN final' = [final EXCEPT ![n] = Grown(@, part)] /\ UNCHANGED tmp
                ELSE UNCHANGED <<tmp, final>>
        /\ job' = [job EXCEPT ![b].left = left, ![b].step = IF left = {} THEN "sync" ELSE "copy"]
        /\ UNCHANGED <<linked, promised, rivals, cut>>

(* The file is not synced before it gets its name.                         *)
Sync_Not(b) ==
    /\ At(b, "sync") /\ tmp[job[b].name] # None
    /\ job' = [job EXCEPT ![b].step = "rename", ![b].fd = None]
    /\ UNCHANGED <<tmp, final, linked, promised, rivals, cut>>

(* It is opened again by its name and synced.                              *)
Sync(b) ==
    LET n == job[b].name
    IN  /\ At(b, "sync") /\ tmp[n] # None
        /\ tmp' = [tmp EXCEPT ![n].synced = TRUE]
        /\ job' = [job EXCEPT ![b].step = "rename", ![b].fd = None]
        /\ UNCHANGED <<final, linked, promised, rivals, cut>>

(* What others have open under the temporary name is now under the final   *)
(* one, and what they have open there has no name.                         *)
Moved(fd) == CASE fd = "tmp" -> "final" [] fd = "final" -> "gone" [] OTHER -> fd

(* A file replaces the one of that name, a tree does not.                  *)
Rename(b) ==
    LET n == job[b].name
    IN  /\ At(b, "rename") /\ tmp[n] # None /\ (n \in Trees => final[n] = None)
        /\ final' = [final EXCEPT ![n] = tmp[n]]
        /\ tmp' = [tmp EXCEPT ![n] = None]
        /\ job' = [o \in Builders |->
                     IF o = b THEN [job[b] EXCEPT !.step = "syncdir"]
                     ELSE IF o \in Others(b, n) THEN [job[o] EXCEPT !.fd = Moved(@)]
                     ELSE job[o]]
        /\ UNCHANGED <<linked, promised, rivals, cut>>

(* The directory is synced, which keeps all names in it.  After the object *)
(* the entry, after the entry the caller goes on.                          *)
SyncDir(b) ==
    LET n == job[b].name
        k == job[b].key
        dir == IF n \in Keys THEN Keys ELSE IF n \in Trees THEN Trees ELSE Digests \ Trees
    IN  /\ At(b, "syncdir")
        /\ linked' = linked \cup {m \in dir : final[m] # None}
        /\ IF n \in Keys
           THEN Ends(b) /\ promised' = (IF job[b].own THEN promised \cup {k} ELSE promised)
                        /\ UNCHANGED rivals
           ELSE job' = [job EXCEPT ![b] = Publish(k, k, TRUE)]
                /\ Meets(b) /\ UNCHANGED promised
        /\ UNCHANGED <<tmp, final, cut>>

(* A rival has taken the temporary name away, or put its tree in place:    *)
(* the build ends with an error.                                           *)
LosesOut(b) ==
    LET n == job[b].name
    IN  /\ \/ At(b, "copy") /\ n \in Trees /\ tmp[n] = None
           \/ job[b] # None /\ job[b].step \in {"sync", "rename"} /\ tmp[n] = None
           \/ At(b, "rename") /\ n \in Trees /\ final[n] # None
        /\ Ends(b)
        /\ UNCHANGED <<tmp, final, linked, promised, rivals, cut>>

-----------------------------------------------------------------------------
(* The builder is killed, or a call of it fails.                           *)
Killed(b) ==
    /\ ~rivals /\ job[b] # None /\ Ends(b) /\ cut' = TRUE
    /\ UNCHANGED <<tmp, final, linked, promised, rivals>>

(* What is synced stays; of the rest any parts.  A name that is not linked *)
(* may be lost; one that was replaced may come back.                       *)
Survivors(n) ==
    (IF n \in linked /\ final[n] # None THEN {} ELSE {None})
    \cup (IF final[n] = None THEN {}
          ELSE IF final[n].synced THEN {final[n]}
          ELSE {[parts |-> p, synced |-> TRUE] : p \in SUBSET Whole(n)})

PowerCut ==
    /\ ~rivals
    /\ final' \in {f \in [Names -> UNION {Survivors(n) : n \in Names}] :
                      \A n \in Names : f[n] \in Survivors(n)}
    /\ linked' = {n \in Names : final'[n] # None}
    /\ tmp' \in [Names -> {None}]
    /\ job' = [b \in Builders |-> None] /\ cut' = TRUE
    /\ UNCHANGED <<promised, rivals>>

Init ==
    /\ tmp = [n \in Names |-> None] /\ final = [n \in Names |-> None] /\ linked = {}
    /\ job = [b \in Builders |-> None] /\ promised = {} /\ rivals = FALSE /\ cut = FALSE

Next ==
    \/ PowerCut
    \/ \E b \in Builders :
          \/ \E k \in Keys : Store(b, k)
          \/ Create(b) \/ Copy(b) \/ Sync(b) \/ Rename(b) \/ SyncDir(b)
          \/ LosesOut(b) \/ Killed(b)

Spec == Init /\ [][Next]_vars

-----------------------------------------------------------------------------
(* A builder has a file open at most until it has synced it, and a tree    *)
(* never: it goes by the path.  What it brings in is its key or the object.*)
HandleOK(b) ==
    job[b] # None =>
        /\ job[b].fd # None => job[b].name \notin Trees /\ job[b].step \in {"copy", "sync"}
        /\ job[b].name \in {job[b].key, Out[job[b].key]}

(* Every variable holds a value of its kind, and handles are held as the   *)
(* code holds them.                                                        *)
TypeOK ==
    /\ tmp \in [Names -> Files \cup {None}] /\ final \in [Names -> Files \cup {None}]
    /\ linked \subseteq {n \in Names : final[n] # None}
    /\ job \in [Builders -> Jobs \cup {None}] /\ \A b \in Builders : HandleOK(b)
    /\ promised \subseteq Keys /\ rivals \in BOOLEAN /\ cut \in BOOLEAN

Answer(k) == IF ~Hit(k) THEN "miss" ELSE IF IsWhole(Out[k]) THEN "right" ELSE "wrong"

Cache == INSTANCE ArtifactCache WITH answer <- [k \in Keys |-> Answer(k)]

(* Through kills and power cuts the store is the cache it should be: what  *)
(* a restore gives is whole, and a key that was stored from the copy of    *)
(* its object to the sync of its entry is never lost.                      *)
ImplementsCache == Cache!Spec

(* Two builders that store the same files at once may make each other      *)
(* fail, but if none is killed they leave whole objects: the writes of the *)
(* one go on into what the other has given its name.  (Trees do not: see   *)
(* the README.)                                                            *)
RivalsLeaveWholeFiles ==
    (\A b \in Builders : job[b] = None) =>
        \A k \in Keys : Hit(k) /\ Out[k] \notin Trees => Answer(k) = "right"
=============================================================================
