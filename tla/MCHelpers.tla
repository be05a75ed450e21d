----------------------------- MODULE MCHelpers ------------------------------
(***************************************************************************)
(* Each behaviour is one of the modules alone, chosen by part: they share  *)
(* no state, so side by side they are checked by one run. The cache        *)
(* budget, what a backend does with a request, and the decode helper. What *)
(* is not chosen has nothing to do, so the fairness of it asks for         *)
(* nothing.                                                                *)
(***************************************************************************)
EXTENDS KvBudget, Generation, DecodeHelper

VARIABLE part   \* the module whose turn it is in this behaviour

MCLines == [p \in {"llamacpp", "remote", "remote again", "mock"} |->
              IF p = "remote again" THEN 0 ELSE 2]

MCPrograms == {<<"llamacpp", {"r1"}>>, <<"llamacpp", {"r2"}>>, <<"mock", {"r1"}>>,
               <<"mock", {"r2"}>>, <<"remote", {"r1"}>>, <<"remote", {"r2"}>>,
               <<"remote again", {"r1", "r2"}>>}

MCInit == /\ part \in {"kv", "generation", "decode"}
          /\ KvInit
          /\ GenerationInit
          /\ DecodeInit
          /\ part # "generation" => program = "mock" /\ step["r1"] = "none"
          /\ part # "decode" => kind = "absent" /\ size = 0

MCNext == \/ /\ part = "kv"
             /\ KvNext
             /\ UNCHANGED <<part, generationVars, decodeVars>>
          \/ /\ part = "generation"
             /\ GenerationNext
             /\ UNCHANGED <<part, kvVars, decodeVars>>
          \/ /\ part = "decode"
             /\ DecodeNext
             /\ UNCHANGED <<part, kvVars, generationVars>>

mcVars == <<part, kvVars, generationVars, decodeVars>>

MCSpec == /\ MCInit /\ [][MCNext]_mcVars
          /\ KvFair
          /\ GenerationFair
          /\ DecodeFair
=============================================================================
