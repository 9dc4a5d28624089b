------------------------------- MODULE Interop -------------------------------
(***************************************************************************)
(* The suite: run_all.sh runs one scenario at a time on the bench.         *)
(***************************************************************************)
EXTENDS TwoNode, ColdInbound, LxmfInbound, LinkInbound, PageFetch

vars == <<bench, twoNode, coldInbound, lxmfInbound, linkInbound, pageFetch>>

Init ==
  /\ BenchInit
  /\ TwoNodeInit /\ ColdInit /\ LxmfInit /\ LinkInit /\ FetchInit

Driver ==
  /\ (\E s \in Sides : Launch(s) \/ Stall(s)) \/ Resume \/ Judge \/ Tick
  /\ UNCHANGED <<twoNode, coldInbound, lxmfInbound, linkInbound, pageFetch>>

Peer ==
  \/ Receiver /\ UNCHANGED <<coldInbound, lxmfInbound, linkInbound, pageFetch>>
  \/ ColdSender /\ UNCHANGED <<twoNode, lxmfInbound, linkInbound, pageFetch>>
  \/ LxmfSender /\ UNCHANGED <<twoNode, coldInbound, linkInbound, pageFetch>>
  \/ LinkInitiator /\ UNCHANGED <<twoNode, coldInbound, lxmfInbound, pageFetch>>
  \/ FetchServer /\ UNCHANGED <<twoNode, coldInbound, lxmfInbound, linkInbound>>

Cpp ==
  \/ Originator /\ UNCHANGED <<coldInbound, lxmfInbound, linkInbound, pageFetch>>
  \/ ColdReceiver /\ UNCHANGED <<twoNode, lxmfInbound, linkInbound, pageFetch>>
  \/ LxmfReceiver /\ UNCHANGED <<twoNode, coldInbound, linkInbound, pageFetch>>
  \/ LinkResponder /\ UNCHANGED <<twoNode, coldInbound, lxmfInbound, pageFetch>>
  \/ FetchLoop /\ UNCHANGED <<twoNode, coldInbound, lxmfInbound, linkInbound>>

Next == Driver \/ Peer \/ Cpp

Spec == Init /\ [][Next]_vars

-----------------------------------------------------------------------------
\* Properties.

Earned == CASE scenario = "two-node" -> TwoNodeEarned
            [] scenario = "cold-inbound" -> ColdEarned
            [] scenario \in LxmfScenarios -> LxmfEarned
            [] scenario = "link-inbound" -> LinkEarned
            [] scenario = "page-fetch" -> FetchEarned

\* driver.sh: "A scenario PASSES iff BOTH sides exit 0 AND BOTH logs contain
\* SUCCESS".  A pass is earned: the right payload was read and proved, the cold
\* packet came from a peer that had announced nothing, each page answered the
\* request for it, the link's silence was real, whatever was lost or late; and
\* none is given to a run that was broken on purpose.  In three cases the code
\* gives a pass that its own words do not cover, and the property says no more
\* than is true: an over-cap message that the sender's router gave up without an
\* answer (LxmfEarned), an over-cap page whose request ran out of time
\* (FetchEarned), a link that died of a process held up (LinkEarned).
PassIsEarned == verdict = "pass" => Earned

\* A run in which nothing failed passes: no race between the two starts, the
\* announces, the lingering and the deadlines fails a scenario by itself.
CalmRunPasses == verdict = "fail" => ~Calm

=============================================================================
