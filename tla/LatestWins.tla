----------------------------- MODULE LatestWins -----------------------------
(***************************************************************************)
(* What the scan scheduler of the language server promises to its callers, *)
(* without queues, timers, slots or priorities.  A caller asks for a key   *)
(* (a project and a file scope) to be scanned.  Per key only the newest    *)
(* request is wanted; it is wanted until its scan ended, a newer request   *)
(* took its place, its project was cancelled or the scheduler was closed.  *)
(* Only a wanted request is ever answered, and never twice.                *)
(***************************************************************************)
EXTENDS Naturals

CONSTANTS Project, \* project directories
          Key      \* pairs <<project, files>>

VARIABLES issued,    \* the highest generation handed out
          wanted,    \* key -> generation of the wanted request, 0 when none
          delivered, \* key -> generation of the last answer, 0 before one
          ended,     \* generations whose scan ran to its end
          closed     \* the scheduler was disposed

vars == <<issued, wanted, delivered, ended, closed>>

Init == /\ issued = 0
        /\ wanted = [k \in Key |-> 0]
        /\ delivered = [k \in Key |-> 0]
        /\ ended = {}
        /\ closed = FALSE

Ask(k) == /\ ~closed
          /\ issued' = issued + 1
          /\ wanted' = [wanted EXCEPT ![k] = issued']
          /\ UNCHANGED <<delivered, ended, closed>>

Withdraw(p) == /\ issued' \in Nat /\ issued' >= issued
               /\ wanted' = [k \in Key |-> IF k[1] = p THEN 0 ELSE wanted[k]]
               /\ UNCHANGED <<delivered, ended, closed>>

(* The scan of the wanted request ended; it is answered when it has a result. *)
Conclude(k, answered) ==
  /\ wanted[k] # 0
  /\ ended' = ended \union {wanted[k]}
  /\ wanted' = [wanted EXCEPT ![k] = 0]
  /\ delivered' = IF answered THEN [delivered EXCEPT ![k] = wanted[k]]
                              ELSE delivered
  /\ UNCHANGED <<issued, closed>>

(* A scan nobody wants any more ended: its result is dropped. *)
Discard == /\ \E g \in 1..issued : /\ g \notin ended
                                   /\ \A k \in Key : wanted[k] # g
                                   /\ ended' = ended \union {g}
           /\ UNCHANGED <<issued, wanted, delivered, closed>>

Close == /\ closed' = TRUE
         /\ wanted' = [k \in Key |-> 0]
         /\ UNCHANGED <<issued, delivered, ended>>

Next == \/ \E k \in Key : Ask(k)
        \/ \E p \in Project : Withdraw(p)
        \/ \E k \in Key, answered \in BOOLEAN : Conclude(k, answered)
        \/ Discard
        \/ Close

Settles(k) == \E answered \in BOOLEAN : Conclude(k, answered)

(* What is promised at every step, without the answer coming eventually.    *)
Safety == Init /\ [][Next]_vars

Spec == Safety /\ \A k \in Key : WF_vars(Settles(k))
=============================================================================
