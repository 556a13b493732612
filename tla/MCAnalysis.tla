----------------------------- MODULE MCAnalysis -----------------------------
(* The registry hands Pending runs to the delivery and shares no other state with it: *)
(* each behaviour of this instance explores one of the two, from its initial states.  *)
EXTENDS AnalysisDelivery, AnalysisRegistry, TLC

VARIABLE part   \* the component that takes steps

AnalysisParts == {"delivery", "registry"}

\* The other component stays in one initial state.
AnalysisInit ==
    /\ part \in AnalysisParts
    /\ DeliveryInit
    /\ part # "delivery" =>
           weights /\ eligible = {} /\ kind = [r \in Runs |-> "lineage"]
    /\ RegistryInit
    /\ part # "registry" => born = [x \in Documents |-> 0]

DeliveryStep == part = "delivery" /\ DeliveryNext /\ UNCHANGED <<part, registryVars>>
RegistryStep == part = "registry" /\ RegistryNext /\ UNCHANGED <<part, deliveryVars>>

\* Types of both components.
AnalysisTypeOK == DeliveryTypeOK /\ RegistryTypeOK

AnalysisSpec ==
    /\ AnalysisInit
    /\ [][DeliveryStep \/ RegistryStep]_<<part, deliveryVars, registryVars>>
    /\ DeliveryFairness
=============================================================================
