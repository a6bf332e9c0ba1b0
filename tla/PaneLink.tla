------------------------------ MODULE PaneLink ------------------------------
(***************************************************************************)
(* What the services of a pane stand on: the pane's connection in          *)
(* ConnectionManager, the SSH client behind it, and the tab the user looks *)
(* at. How a pane is connected and closed is PaneClient's and SshConnect's;*)
(* here a connection is there or not, and the renderer knows at once.      *)
(***************************************************************************)
EXTENDS Naturals, Sequences, FiniteSets

CONSTANTS
  Panes,       (* one pane per tab, each of the same saved SSH session     *)
  Links,       (* ssh2 clients: bounds the number of connections made      *)
  None,
  Scenes       (* what may happen: see SceneAssumption                     *)

(* use: the service that is used. patient: the user waits for what is under*)
(* way. drops: links drop. auto: recording.autoRecord, tunnels auto_start. *)
(* cap: recording.maxStorageMb, in recordings (0: no cap). panes: the panes *)
(* that are opened.                                                        *)
Services == {"tunnels", "recordings", "files", "stats"}
ASSUME SceneAssumption ==
  Scenes \subseteq [use : SUBSET Services, patient : BOOLEAN, drops : BOOLEAN,
                    auto : BOOLEAN, cap : Nat,
                    panes : SUBSET Panes]
ASSUME NoneAssumption == None \notin Panes \cup Links

VARIABLES
  scene,       (* the scene, which never changes                           *)
  conn,        (* entries: the client of each pane's connection            *)
  up,          (* the clients that are connected                           *)
  used,        (* the clients made so far                                  *)
  closed,      (* the panes that were closed                               *)
  active       (* the active tab's pane; None: a tab with a local shell    *)

lvars == <<scene, conn, up, used, closed, active>>

LinkInit ==
  /\ scene \in Scenes
  /\ conn = [p \in Panes |-> None]
  /\ up = {} /\ used = {} /\ closed = {}
  /\ active = None

Any(S) == CHOOSE x \in S : TRUE

(* spawnTerminal: a client, and its entry.                                 *)
Connect(p) ==
  /\ p \in scene.panes /\ conn[p] = None /\ p \notin closed /\ used # Links
  /\ LET l == Any(Links \ used)
     IN /\ conn' = [conn EXCEPT ![p] = l]
        /\ up' = up \cup {l} /\ used' = used \cup {l}
  /\ UNCHANGED <<scene, closed, active>>

(* The link drops: pushExit deletes the entry. Nothing else is told.       *)
Drop(p) ==
  /\ scene.drops /\ conn[p] # None
  /\ up' = up \ {conn[p]}
  /\ conn' = [conn EXCEPT ![p] = None]
  /\ UNCHANGED <<scene, used, closed, active>>

(* terminal:kill, at the end: the pane is gone, the next tab is active.    *)
CloseLink(p) ==
  /\ p \notin closed
  /\ closed' = closed \cup {p}
  /\ up' = up \ {conn[p]}
  /\ conn' = [conn EXCEPT ![p] = None]
  /\ active' = IF active = p THEN None ELSE active
  /\ UNCHANGED <<scene, used>>

Activate(p) ==
  /\ active # p /\ p \notin closed
  /\ active' = p
  /\ UNCHANGED <<scene, conn, up, used, closed>>

LinkTypeOK ==
  /\ scene \in Scenes
  /\ conn \in [Panes -> Links \cup {None}]
  /\ up \subseteq used /\ used \subseteq Links
  /\ closed \subseteq Panes /\ active \in (Panes \ closed) \cup {None}
  /\ up = {conn[p] : p \in {q \in Panes : conn[q] # None}}
=============================================================================
