------------------------------ MODULE MCLocks -------------------------------
(***************************************************************************)
(* Each behaviour is one of the modules alone, chosen by part: they share  *)
(* no state, so side by side they are checked by one run. Threads behind a *)
(* mutex: the control channel of a backend and the grants file.            *)
(***************************************************************************)
EXTENDS BackendControl, Grants

VARIABLE part   \* the module whose turn it is in this behaviour

ControlAtRest == want = [c \in Callers |-> "m1"] /\ context = [u \in Users |-> 1]

MCInit == /\ part \in {"control", "grants"}
          /\ ControlInit
          /\ GrantsInit
          /\ part # "control" => ControlAtRest

MCNext == \/ /\ part = "control"
             /\ ControlNext
             /\ UNCHANGED <<part, grantsVars>>
          \/ /\ part = "grants"
             /\ GrantsNext
             /\ UNCHANGED <<part, controlVars>>

mcVars == <<part, controlVars, grantsVars>>

MCSpec == MCInit /\ [][MCNext]_mcVars
=============================================================================
