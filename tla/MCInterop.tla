------------------------------ MODULE MCInterop ------------------------------
(* Interop with the scenarios, time limits and failures of the run.        *)
EXTENDS Interop

AllScenarios == {"two-node", "cold-inbound", "page-fetch", "link-inbound"} \cup LxmfScenarios

\* The scripts' own limits are 40 and, for link-inbound, 100 seconds.
Limits == [s \in AllScenarios |-> CASE s = "link-inbound" -> 48
                                    [] s \in {"page-fetch", "cold-inbound"} -> 20 [] OTHER -> 12]

Switches == [s \in AllScenarios |-> CASE s = "cold-inbound" -> {"none", "payload", "coldness", "hops"}
                                      [] s = "link-inbound" -> {"none", "payload", "nocut"}
                                      [] s \in {"two-node", "lxmf-inbound"} -> {"none", "payload"}
                                      [] OTHER -> {"none"}]

FaultLimits ==
  [s \in AllScenarios |-> IF s \in {"link-inbound", "page-fetch", "cold-inbound"} THEN 1 ELSE 2]
=============================================================================
