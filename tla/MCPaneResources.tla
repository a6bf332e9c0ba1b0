-------------------------- MODULE MCPaneResources ---------------------------
EXTENDS PaneResources

Scene(use, patient, drops, auto, cap) ==
  [use |-> use, patient |-> patient, drops |-> drops, auto |-> auto, cap |-> cap,
   panes |-> Panes]

OnePane(s) == [s EXCEPT !.panes = {Any(Panes)}]

(* Each service with a patient user, with a hasty one and with dropping    *)
(* links; recordings with auto-record, behind an auto-start and with a cap.*)
MCScenes ==
  { Scene({"tunnels"}, pt, dr, FALSE, 0) : pt \in BOOLEAN, dr \in BOOLEAN }
  \cup { OnePane(Scene({"tunnels", "recordings"}, TRUE, FALSE, TRUE, 0)) }
  \cup { Scene({"recordings"}, TRUE, TRUE, au, 0) : au \in BOOLEAN }
  \cup { Scene({"recordings"}, FALSE, FALSE, TRUE, 1) }
  \cup { Scene({"files"}, TRUE, dr, FALSE, 0) : dr \in BOOLEAN }
  \cup { OnePane(Scene({"files"}, FALSE, dr, FALSE, 0)) : dr \in BOOLEAN }
  \cup { Scene({"stats"}, FALSE, TRUE, FALSE, 0) }
=============================================================================
