---------------------------- MODULE ArtifactCache ----------------------------
(***************************************************************************)
(* What the artifact cache promises: asked for a key it says nothing or    *)
(* gives what was stored, and it does not forget a key that was stored     *)
(* from beginning to end.  Two builders that store the same thing at once  *)
(* are promised nothing.                                                   *)
(***************************************************************************)
CONSTANT Keys

VARIABLES
    answer,    \* for each key "miss", "right" or "wrong"
    promised,  \* keys that are not forgotten
    rivals     \* two builders have stored the same thing at once

Init == answer = [k \in Keys |-> "miss"] /\ promised = {} /\ rivals = FALSE

(* Keys with the same content may become known together.                   *)
Learn == /\ \E known \in SUBSET Keys :
               answer' = [k \in Keys |-> IF k \in known THEN "right" ELSE answer[k]]
         /\ UNCHANGED <<promised, rivals>>

Promise == /\ \E k \in Keys : answer[k] = "right" /\ promised' = promised \cup {k}
           /\ UNCHANGED <<answer, rivals>>

(* A power cut may take everything that was not promised.                  *)
Forget == /\ \E lost \in SUBSET (Keys \ promised) :
                answer' = [k \in Keys |-> IF k \in lost THEN "miss" ELSE answer[k]]
          /\ UNCHANGED <<promised, rivals>>

NoPromise == rivals'

Next == Learn \/ Promise \/ Forget \/ NoPromise

Spec == Init /\ [][Next]_<<answer, promised, rivals>>
=============================================================================
