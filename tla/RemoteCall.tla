----------------------------- MODULE RemoteCall -----------------------------
(***************************************************************************)
(* What the cross-processor call interface (lib/x86/smp.h) promises,       *)
(* without mailbox, lock or interrupts: a posted call is run once, by the  *)
(* CPU it was posted to, which runs one call at a time; a call that asked  *)
(* to wait returns to its caller only after it was run.                    *)
(***************************************************************************)
CONSTANT CPU

VARIABLES posted,     \* calls made: records with at least fields to and sync
          running,    \* per CPU: the set of calls being run, at most one
          ended,      \* calls that were run
          returned    \* calls that have returned to their caller

vars == <<posted, running, ended, returned>>

Init ==
  /\ posted = {} /\ ended = {} /\ returned = {}
  /\ running = [c \in CPU |-> {}]

Post ==
  \E k \in posted' \ posted :
    /\ k.to \in CPU
    /\ posted' = posted \cup {k}
    /\ UNCHANGED <<running, ended, returned>>

Start(c) ==
  /\ running[c] = {}
  /\ \E k \in posted \ ended :
       /\ k.to = c
       /\ running' = [running EXCEPT ![c] = {k}]
  /\ UNCHANGED <<posted, ended, returned>>

Finish(c) ==
  /\ running[c] # {}
  /\ ended' = ended \cup running[c]
  /\ running' = [running EXCEPT ![c] = {}]
  /\ UNCHANGED <<posted, returned>>

Return ==
  \E k \in posted \ returned :
    /\ k.sync => k \in ended
    /\ returned' = returned \cup {k}
    /\ UNCHANGED <<posted, running, ended>>

Next == Post \/ Return \/ \E c \in CPU : Start(c) \/ Finish(c)

Spec == Init /\ [][Next]_vars
=============================================================================
