------------------------------ MODULE MCSafety ------------------------------
(***************************************************************************)
(* Each behaviour is one of the modules alone, chosen by part: they share  *)
(* no state, so side by side they are checked by one run. A session as its *)
(* client and the HTTP shim see it, what the daemon keeps account of, and  *)
(* the decisions that are only computed.                                   *)
(***************************************************************************)
EXTENDS SessionProtocol, Shim, Metering, AuditLog, ModelStore, Portal, Algorithms, TLC

VARIABLE part   \* the module whose turn it is in this behaviour

MCBatches == {<<0>>, <<1>>, <<2>>, <<1, 2>>, <<2, 1>>, <<0, 1>>, <<1, 1, 2>>}

MCStarts == {<<"bound", "bound", "absent">>, <<"error", "bound", "absent">>,
             <<"bound", "error", "absent">>, <<"off", "bound", "unreadable">>,
             <<"bound", "off", "names required">>, <<"off", "off", "names">>}

\* Two names of one digest, and a remote model.
MCJobOf == "i1" :> [name |-> "x", want |-> "dx"] @@ "i2" :> [name |-> "y", want |-> "dx"]
             @@ "i3" :> [name |-> "z", want |-> "remote"]

PortalAtRest == /\ process = [start |-> 1, sandbox |-> "bare", app |-> ""]
                /\ method = [name |-> "identify", claims |-> FALSE]

MCInit == /\ part \in {"protocol", "shim", "metering", "audit", "store", "portal", "algorithms"}
          /\ ProtocolInit
          /\ ShimInit
          /\ MeterInit
          /\ AuditInit
          /\ StoreInit
          /\ PortalInit
          /\ AlgorithmsInit
          /\ part # "portal" => PortalAtRest

MCNext == \/ /\ part = "protocol"
             /\ ProtocolNext
             /\ UNCHANGED <<part, shimVars, meterVars, auditVars, storeVars, portalVars, input>>
          \/ /\ part = "shim"
             /\ ShimNext
             /\ UNCHANGED <<part, protocolVars, meterVars, auditVars, storeVars, portalVars, input>>
          \/ /\ part = "metering"
             /\ MeterNext
             /\ UNCHANGED <<part, protocolVars, shimVars, auditVars, storeVars, portalVars, input>>
          \/ /\ part = "audit"
             /\ AuditNext
             /\ UNCHANGED <<part, protocolVars, shimVars, meterVars, storeVars, portalVars, input>>
          \/ /\ part = "store"
             /\ StoreNext
             /\ UNCHANGED <<part, protocolVars, shimVars, meterVars, auditVars, portalVars, input>>
          \/ /\ part = "portal"
             /\ PortalNext
             /\ UNCHANGED <<part, protocolVars, shimVars, meterVars, auditVars, storeVars, input>>
          \/ /\ part = "algorithms"
             /\ AlgorithmsNext
             /\ UNCHANGED <<part, protocolVars, shimVars, meterVars, auditVars, storeVars, portalVars>>

mcVars == <<part, protocolVars, shimVars, meterVars, auditVars, storeVars, portalVars, input>>

MCSpec == MCInit /\ [][MCNext]_mcVars
=============================================================================
