------------------------------ MODULE VmRequests ------------------------------
(***************************************************************************)
(* What the durable operation queue promises to those who call it, with    *)
(* no queue, worker, lease, attempt or task in it: a request is pending    *)
(* until it ends for good; it succeeds only when its goal is visible in    *)
(* Proxmox; a guest comes into being only for a pending create.            *)
(***************************************************************************)
CONSTANTS OpId, Vm

VARIABLES
  goal,     \* what each request asks for: an operation type and a VM
  request,  \* none, pending, succeeded, failed or cancelled
  guests    \* the guest of each VM in Proxmox

vars == <<goal, request, guests>>

Init ==
  /\ request = [o \in OpId |-> "none"]
  /\ guests = [v \in Vm |-> "absent"]

Wants(o, type) == request[o] = "pending" /\ goal[o].type = type

Visible(o) ==
  LET guest == guests[goal[o].vm] IN
    \/ goal[o].type = "create" /\ guest # "absent"
    \/ goal[o].type \in {"start", "reboot"} /\ guest = "running"
    \/ goal[o].type = "stop" /\ guest = "stopped"
    \/ goal[o].type = "delete" /\ guest = "absent"

\* A handler asks for one thing, or for one thing of several VMs at once.
Ask(asked) ==
  /\ \A o \in asked : request[o] = "none"
  /\ request' = [o \in OpId |-> IF o \in asked THEN "pending" ELSE request[o]]
  /\ \A o \in OpId \ asked : goal'[o] = goal[o]
  /\ UNCHANGED guests

End(o, outcome) ==
  /\ request[o] = "pending"
  /\ outcome = "succeeded" => Visible(o)
  /\ request' = [request EXCEPT ![o] = outcome]
  /\ UNCHANGED goal

\* A guest appears only while someone waits for it to be created; the call
\* that makes it appear may also be the request's last.
Appear(v) ==
  /\ guests[v] = "absent"
  /\ guests' = [guests EXCEPT ![v] = "stopped"]
  /\ \E o \in OpId :
       /\ Wants(o, "create") /\ goal[o].vm = v
       /\ \/ UNCHANGED <<goal, request>>
          \/ End(o, "failed")

\* Guests start, stop and go on their own account and other people's.
Evolve(v) ==
  /\ guests[v] # "absent"
  /\ \E g \in {"absent", "stopped", "running"} : guests' = [guests EXCEPT ![v] = g]
  /\ UNCHANGED <<goal, request>>

Next ==
  \/ \E asked \in (SUBSET OpId) \ {{}} : Ask(asked)
  \/ \E o \in OpId, outcome \in {"succeeded", "failed", "cancelled"} :
       End(o, outcome) /\ UNCHANGED guests
  \/ \E v \in Vm : Appear(v) \/ Evolve(v)

Spec == Init /\ [][Next]_vars

LiveSpec ==
  /\ Spec
  /\ \A o \in OpId : WF_vars(\E outcome \in {"succeeded", "failed", "cancelled"} :
                               End(o, outcome) /\ UNCHANGED guests)
===============================================================================
