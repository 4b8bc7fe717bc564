----------------------------- MODULE AsyncCall -----------------------------
(***************************************************************************)
(* What the page's NaClModule promises its callers, with no browser, no    *)
(* channels and no native module: the id of a call is its place in the     *)
(* order of calls, a call is completed at most once and by a callback that *)
(* it passed, and calls complete in the order they were made.  Every       *)
(* invocation of a callback is a step of its own, so a second one for the  *)
(* same call is a step this specification does not allow.  A call may stay *)
(* pending for ever: the native module can crash, and a caller need not    *)
(* pass callbacks.                                                         *)
(***************************************************************************)
EXTENDS Naturals, Sequences

VARIABLES
  made,           \* the callbacks passed with each call; the id of a call is its index
  completed       \* the completions [id, fn], in the order they happened

Outcomes == {"onSuccess", "onError"}

Init == made = <<>> /\ completed = <<>>

Call(callbacks) ==
  /\ made' = Append(made, callbacks)
  /\ UNCHANGED completed

Complete(id, fn) ==
  /\ fn \in made[id]
  /\ \A i \in DOMAIN completed : completed[i].id < id
  /\ completed' = Append(completed, [id |-> id, fn |-> fn])
  /\ UNCHANGED made

Next ==
  \/ \E callbacks \in SUBSET Outcomes : Call(callbacks)
  \/ \E id \in DOMAIN made, fn \in Outcomes : Complete(id, fn)

Spec == Init /\ [][Next]_<<made, completed>>
=============================================================================
