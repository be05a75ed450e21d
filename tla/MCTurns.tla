------------------------------ MODULE MCTurns -------------------------------
(***************************************************************************)
(* Each behaviour is one of the modules alone, chosen by part: they share  *)
(* no state, so side by side they are checked by one run. The decode slots *)
(* that turns wait for, their cancellation, and the questions to polkit.   *)
(* What is not chosen has nothing to do, so the fairness of it asks for    *)
(* nothing.                                                                *)
(***************************************************************************)
EXTENDS Scheduler, Cancellation, Unblock

VARIABLE part   \* the module whose turn it is in this behaviour

UnblockAtRest == /\ task = [c \in BusCalls |-> "done"]
                 /\ thread = [c \in Asking |-> "gone"]
                 /\ result = [c \in Asking |-> "none"]
                 /\ waker = {} /\ mutex = Nobody /\ replies = {} /\ heard = {}

MCInit == /\ part \in {"scheduler", "cancellation", "unblock"}
          /\ Init
          /\ Unused /\ worker = (IF part = "cancellation" THEN "top" ELSE "receiving")
          /\ IF part = "unblock" THEN UnblockInit ELSE UnblockAtRest

MCNext == \/ /\ part = "scheduler"
             /\ Next
             /\ UNCHANGED <<part, cancelVars, unblockVars>>
          \/ /\ part = "cancellation"
             /\ CancelNext
             /\ UNCHANGED <<part, vars, unblockVars>>
          \/ /\ part = "unblock"
             /\ UnblockNext
             /\ UNCHANGED <<part, vars, cancelVars>>

mcVars == <<part, vars, cancelVars, unblockVars>>

MCSpec == /\ MCInit /\ [][MCNext]_mcVars
          /\ Fairness
          /\ CancelFair
          /\ UnblockFair
=============================================================================
