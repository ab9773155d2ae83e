-------------------------- MODULE ApprovalContract --------------------------
(***************************************************************************)
(* What the approval gate promises, with no journal, thread or clock in    *)
(* it: a remediation runs at most once, only after it was approved, and    *)
(* its recorded status never claims more or less than what has happened.   *)
(***************************************************************************)
EXTENDS Naturals

CONSTANT Actions

VARIABLES state,   \* the status every reader of the record agrees on
          ran      \* how many times the operation was performed

Pending == {"proposed", "posted"}

Init == /\ state = [a \in Actions |-> "absent"]
        /\ ran   = [a \in Actions |-> 0]

Move(a, from, to) == /\ state[a] \in from
                     /\ state' = [state EXCEPT ![a] = to]
                     /\ UNCHANGED ran

Propose(a)  == Move(a, {"absent"}, "proposed")
Announce(a) == Move(a, {"proposed"}, "posted")
Approve(a)  == Move(a, Pending, "approved")
Deny(a)     == Move(a, Pending, "denied")
Expire(a)   == Move(a, {"approved"}, "expired")
Consume(a)  == Move(a, {"approved"}, "executing")

Perform(a)  == /\ state[a] = "executing"
               /\ ran[a] = 0
               /\ ran' = [ran EXCEPT ![a] = 1]
               /\ UNCHANGED state

Finish(a)   == /\ ran[a] = 1
               /\ \E result \in {"done", "failed"} : Move(a, {"executing"}, result)

Next == \E a \in Actions : \/ Propose(a) \/ Announce(a)
                           \/ Approve(a) \/ Deny(a) \/ Expire(a)
                           \/ Consume(a) \/ Perform(a) \/ Finish(a)

Spec == Init /\ [][Next]_<<state, ran>>
=============================================================================
