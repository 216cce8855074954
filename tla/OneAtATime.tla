----------------------------- MODULE OneAtATime ------------------------------
(***************************************************************************)
(* What the task runtime promises of the heavy operations: at most one has *)
(* the machine to itself, a request is refused only while another one has, *)
(* and an operation whose work is over leaves the machine to the next.     *)
(***************************************************************************)
CONSTANT Operations

VARIABLES status, open   \* open: the application accepts and serves requests

Statuses == {"waiting", "running", "finishing", "over", "refused"}

Occupants(st) == {o \in Operations : st[o] \in {"running", "finishing"}}

Init ==
  /\ status = [o \in Operations |-> "waiting"]
  /\ open = TRUE

Move(o, from, to) ==
  /\ open
  /\ status[o] = from
  /\ status' = [status EXCEPT ![o] = to]
  /\ UNCHANGED open

Begin(o)  == Occupants(status) = {} /\ Move(o, "waiting", "running")
Abort(o)  == Occupants(status) = {} /\ Move(o, "waiting", "over")
Refuse(o) == Occupants(status) # {} /\ Move(o, "waiting", "refused")
Finish(o) == Move(o, "running", "finishing")
Retire(o) == Move(o, "finishing", "over")

Shut == open /\ open' = FALSE /\ UNCHANGED status

Next ==
  \/ \E o \in Operations : Begin(o) \/ Abort(o) \/ Refuse(o) \/ Finish(o) \/ Retire(o)
  \/ Shut

vars == <<status, open>>

Safety == Init /\ [][Next]_vars

Spec == Safety /\ \A o \in Operations : WF_vars(Retire(o))
=============================================================================
