--------------------------- MODULE RemoteDesktop ----------------------------
(***************************************************************************)
(* Remote desktop panes: RemoteDesktopPane in the renderer, the VNC bridge *)
(* and the RDP gateway in the main process, the handlers of ipc/remote with*)
(* their connection log, and the hand-off to the system's own client. Each *)
(* run of the pane's effect (a mount, or a reconnect) is a Run; its token  *)
(* is named after it. What is drawn and typed is left out.                 *)
(***************************************************************************)
EXTENDS VncHandshake

CONSTANTS
  Panes,
  Runs,        (* effects mounted: bounds them                             *)
  None,
  Scenes       (* what may happen: see SceneAssumption                     *)

(* vnc: else RDP. patient: the user waits for a connection. started: the   *)
(* bridge or the gateway was opened before. changes: guacd is set anew.    *)
(* windows: on Windows. cands: native clients to try. server: the server.  *)
(* panes, runs: how many are opened, and mounted.                          *)
ASSUME SceneAssumption ==
  \A s \in Scenes :
    /\ DOMAIN s = {"vnc", "patient", "started", "changes", "windows", "cands", "server",
                 "panes", "runs"}
    /\ {s.vnc, s.patient, s.started, s.changes, s.windows} \subseteq BOOLEAN
    /\ {s.cands, s.runs} \subseteq Nat /\ s.panes \subseteq Panes
    /\ s.server.types \subseteq Nat /\ s.server.subs \subseteq Nat

(* The steps of an effect; it has a viewer in the last three.              *)
Viewing == {"live", "asked", "on"}
RunSteps == {"vault", "probe", "launch", "opening", "refused", "opened", "importing", "over"}
            \cup Viewing
RunRecords == [pane : Panes, step : RunSteps, disposed : BOOLEAN, cands : Nat]
ASSUME NoneAssumption == None \notin Runs /\ None \notin RunRecords

VARIABLES
  scene,       (* the scene, which never changes                           *)
  status,      (* status of each pane; none: not there yet; closed         *)
  cur,         (* the run of each pane                                     *)
  run,         (* each run: its pane, step, whether it is disposed of, and *)
               (* the native clients left to try                           *)
  host,        (* the loopback server: down, starting, up, failed          *)
  builtFor,    (* builtFor: the guacd the gateway was started for          *)
  guacd,       (* rdp.guacdHost, rdp.guacdPort                             *)
  waiting,     (* each pane's last open() call that waits for it           *)
  targets,     (* targets: the tokens                                      *)
  byTab,       (* byTab                                                    *)
  pending,     (* pendingCert                                              *)
  link,        (* each run's socket, and the bridge behind it              *)
  pinned,      (* the known_hosts row: none, another type's, a certificate *)
  logs,        (* logIds                                                   *)
  rows         (* the rows of the connection log that have no end          *)

mainvars == <<host, builtFor, guacd, waiting, targets, byTab, pending, pinned, logs, rows>>
vars == <<scene, status, cur, run, link, mainvars>>

Init ==
  /\ scene \in Scenes
  /\ status = [p \in Panes |-> "none"] /\ cur = [p \in Panes |-> None]
  /\ run = [n \in Runs |-> None]
  /\ host = (IF scene.started THEN "up" ELSE "down")
  /\ builtFor = (IF scene.started THEN "g1" ELSE "none") /\ guacd = "g1"
  /\ waiting = [p \in Panes |-> None] /\ targets = {}
  /\ byTab = [p \in Panes |-> None] /\ pending = [p \in Panes |-> None]
  /\ link = [n \in Runs |-> Cut(NewLink)]
  /\ pinned \in IF NeedsBridge(scene.server.types) THEN {"none", "ssh", "old"} ELSE {"none"}
  /\ logs = [p \in Panes |-> None] /\ rows = {}

-----------------------------------------------------------------------------
(* The main process.                                                       *)

In(n, step) == run[n] # None /\ run[n].step = step

CutAll(S) == [n \in Runs |-> IF n \in S THEN Cut(link[n]) ELSE link[n]]

(* VncBridgeService.close: a waiting prompt is refused, the token is       *)
(* forgotten and its sockets are closed. The pane's cleanup has            *)
(* disconnected its own viewer before.                                     *)
CloseBridge(p) ==
  /\ link' = CutAll({byTab[p], pending[p], cur[p]})
  /\ pending' = [pending EXCEPT ![p] = None]
  /\ targets' = targets \ {byTab[p]}
  /\ byTab' = [byTab EXCEPT ![p] = None]

(* endLog                                                                  *)
EndLog(p) ==
  /\ rows' = rows \ {logs[p]}
  /\ logs' = [logs EXCEPT ![p] = None]

(* startLog: a row before it is ended.                                     *)
StartLog(n) ==
  LET p == run[n].pane
  IN /\ rows' = (rows \ {logs[p]}) \cup {n}
     /\ logs' = [logs EXCEPT ![p] = n]

Resumed(S, step) ==
  [n \in Runs |-> IF n \in S THEN [run[n] EXCEPT !.step = step] ELSE run[n]]

(* ensureServer has to be awaited. A start that failed is never tried again.*)
Waits(n) ==
  /\ IF host = "failed" THEN run' = Resumed({n}, "refused") /\ UNCHANGED waiting
     ELSE run' = Resumed({n}, "opening") /\ waiting' = [waiting EXCEPT ![run[n].pane] = n]
  /\ UNCHANGED <<logs, rows>>

(* open: close(), then ensureServer(), and a token when that has answered. *)
OpenVnc(n) ==
  LET p == run[n].pane
  IN /\ link' = CutAll({byTab[p], pending[p]})
     /\ pending' = [pending EXCEPT ![p] = None]
     /\ IF host = "up"
        THEN /\ targets' = (targets \ {byTab[p]}) \cup {n}
             /\ byTab' = [byTab EXCEPT ![p] = n]
             /\ run' = Resumed({n}, "opened")
             /\ StartLog(n)
             /\ UNCHANGED <<host, waiting>>
        ELSE /\ targets' = targets \ {byTab[p]}
             /\ byTab' = [byTab EXCEPT ![p] = None]
             /\ host' = IF host = "down" THEN "starting" ELSE host
             /\ Waits(n)
     /\ UNCHANGED builtFor

(* builtFor, as a start sets it.                                           *)
BuiltFor(stale) == IF stale \/ host = "down" THEN guacd ELSE builtFor

(* Rdp's ensureServer: a gateway that was built for another guacd is shut  *)
(* down, with the sessions on it.                                          *)
OpenRdp(n) ==
  LET stale == host = "up" /\ builtFor # guacd
  IN /\ link' = IF stale THEN CutAll(Runs) ELSE link
     /\ IF host = "up" /\ ~stale
        THEN /\ run' = Resumed({n}, "opened") /\ StartLog(n)
             /\ UNCHANGED <<host, builtFor, waiting>>
        ELSE /\ host' = IF host = "failed" THEN host ELSE "starting"
             /\ builtFor' = BuiltFor(stale)
             /\ Waits(n)
     /\ UNCHANGED <<targets, byTab, pending>>

(* listen() has an answer: those who waited go on in turn, the pane there  *)
(* or not. Of several calls for one pane the last has its token and its row*)
(* in the end.                                                             *)
Waiters == {n \in Runs : In(n, "opening")}
Heard(f) == [p \in Panes |-> IF waiting[p] = None THEN f[p] ELSE waiting[p]]

Listens ==
  /\ host = "starting"
  /\ host' = "up"
  /\ run' = Resumed(Waiters, "opened")
  /\ targets' = (IF scene.vnc THEN targets \cup Waiters ELSE targets)
  /\ byTab' = (IF scene.vnc THEN Heard(byTab) ELSE byTab)
  /\ logs' = Heard(logs)
  /\ rows' = (rows \ {logs[p] : p \in {q \in Panes : waiting[q] # None}})
             \cup ({waiting[p] : p \in Panes} \ {None})
  /\ waiting' = [p \in Panes |-> None]
  /\ UNCHANGED <<scene, status, cur, link, builtFor, guacd, pending, pinned>>

ListenFails ==
  /\ host = "starting"
  /\ host' = "failed"
  /\ run' = Resumed(Waiters, "refused")
  /\ waiting' = [p \in Panes |-> None]
  /\ UNCHANGED <<scene, status, cur, link, builtFor, guacd, targets, byTab, pending,
                 pinned, logs, rows>>

SetGuacd ==
  /\ scene.changes /\ guacd = "g1"
  /\ guacd' = "g2"
  /\ UNCHANGED <<scene, status, cur, run, link, host, builtFor, waiting, targets, byTab,
                 pending, pinned, logs, rows>>

-----------------------------------------------------------------------------
(* RemoteDesktopPane.                                                      *)

(* Those not mounted yet, as many as the scene has.                        *)
Fresh == LET left == {n \in Runs : run[n] = None}
         IN IF Cardinality(Runs \ left) < scene.runs THEN left ELSE {}

(* update, which every callback of the effect guards with 'disposed'.      *)
Update(n, s) == status' = IF run[n].disposed THEN status ELSE [status EXCEPT ![run[n].pane] = s]
Goes(n, step) == run' = [run EXCEPT ![n].step = step]

NewRun(p) == [pane |-> p, step |-> "vault", disposed |-> FALSE, cands |-> scene.cands]

(* The effect's cleanup: the viewer is disconnected, if there is one yet,  *)
(* and remote:close is sent.                                               *)
Disposed(n) ==
  [run EXCEPT ![n].disposed = TRUE, ![n].step = IF @ \in Viewing THEN "over" ELSE @]

Mount(p) ==
  /\ p \in scene.panes /\ status[p] = "none" /\ Fresh # {}
  /\ LET n == CHOOSE f \in Fresh : TRUE
     IN cur' = [cur EXCEPT ![p] = n] /\ run' = [run EXCEPT ![n] = NewRun(p)]
  /\ status' = [status EXCEPT ![p] = "connecting"]
  /\ UNCHANGED <<scene, link, mainvars>>

Busy(p) == status[p] \in {"connecting", "credentials"}

ClosePane(p) ==
  /\ status[p] \notin {"none", "closed"} /\ (scene.patient => ~Busy(p))
  /\ run' = Disposed(cur[p])
  /\ CloseBridge(p) /\ EndLog(p)
  /\ status' = [status EXCEPT ![p] = "closed"]
  /\ cur' = [cur EXCEPT ![p] = None]
  /\ UNCHANGED <<scene, host, builtFor, guacd, waiting, pinned>>

Reconnect(p) ==
  /\ status[p] \notin {"none", "closed"} /\ (scene.patient => ~Busy(p))
  /\ Fresh # {}
  /\ LET n == CHOOSE f \in Fresh : TRUE
     IN cur' = [cur EXCEPT ![p] = n] /\ run' = [Disposed(cur[p]) EXCEPT ![n] = NewRun(p)]
  /\ CloseBridge(p) /\ EndLog(p)
  /\ status' = [status EXCEPT ![p] = "connecting"]
  /\ UNCHANGED <<scene, host, builtFor, guacd, waiting, pinned>>

VaultRefused(n) ==
  /\ In(n, "vault")
  /\ Goes(n, "over") /\ Update(n, "error")
  /\ UNCHANGED <<scene, cur, link, mainvars>>

(* The vault is open. On Windows, RDP is not embedded.                     *)
Unlocked(n) ==
  /\ In(n, "vault")
  /\ IF run[n].disposed THEN Goes(n, "over") /\ UNCHANGED <<link, mainvars>>
     ELSE IF scene.vnc THEN OpenVnc(n) /\ UNCHANGED <<guacd, pinned>>
     ELSE Goes(n, IF scene.windows THEN "launch" ELSE "probe") /\ UNCHANGED <<link, mainvars>>
  /\ UNCHANGED <<scene, status, cur>>

(* guacdStatus answers.                                                    *)
Probed(n) ==
  /\ In(n, "probe")
  /\ IF run[n].disposed THEN Goes(n, "over") /\ UNCHANGED <<link, mainvars>>
     ELSE \/ OpenRdp(n) /\ UNCHANGED <<guacd, pinned>>
          \/ Goes(n, "launch") /\ UNCHANGED <<link, mainvars>>
  /\ UNCHANGED <<scene, status, cur>>

(* trySpawn: a client that is not installed; one that runs after 400 ms;   *)
(* one that cannot be run, or none left.                                   *)
ClientMissing(n) ==
  /\ In(n, "launch") /\ run[n].cands > 0
  /\ run' = [run EXCEPT ![n].cands = @ - 1]
  /\ UNCHANGED <<scene, status, cur, link, mainvars>>

ClientStarts(n) ==
  /\ In(n, "launch") /\ run[n].cands > 0
  /\ Goes(n, "over") /\ Update(n, "native")
  /\ UNCHANGED <<scene, cur, link, mainvars>>

LaunchFails(n) ==
  /\ In(n, "launch")
  /\ Goes(n, "over") /\ Update(n, "error")
  /\ UNCHANGED <<scene, cur, link, mainvars>>

(* Mutant of Replied: a cleanup in between goes unnoticed.                 *)
RepliedAnyway(n) ==
  /\ In(n, "opened")
  /\ Goes(n, "importing")
  /\ UNCHANGED <<scene, status, cur, link, mainvars>>

(* The reply of openVnc or openRdp.                                        *)
Replied(n) ==
  /\ In(n, "opened")
  /\ Goes(n, IF run[n].disposed THEN "over" ELSE "importing")
  /\ UNCHANGED <<scene, status, cur, link, mainvars>>

OpenRefused(n) ==
  /\ In(n, "refused")
  /\ Goes(n, "over") /\ Update(n, "error")
  /\ UNCHANGED <<scene, cur, link, mainvars>>

(* The viewer's library is there; 'disposed' is not looked at again.       *)
Imported(n) ==
  /\ In(n, "importing")
  /\ Goes(n, "live")
  /\ link' = [link EXCEPT ![n] = NewLink]
  /\ UNCHANGED <<scene, status, cur, mainvars>>

(* wss.on('connection'): a token that is gone is refused. A gateway of     *)
(* before the last change has another port.                                *)
WsConnects(n) ==
  /\ link[n].step = "ws"
  /\ \/ /\ IF scene.vnc THEN n \in targets ELSE host = "up"
        /\ link' = [link EXCEPT ![n] = At(@, "dial")]
     \/ /\ IF scene.vnc THEN n \notin targets ELSE host # "up" \/ scene.changes
        /\ link' = [link EXCEPT ![n] = Cut(@)]
  /\ UNCHANGED <<scene, status, cur, run, mainvars>>

(* bridge and handshake; guacd is as good as a server that takes anyone.   *)
Bridges(n) ==
  /\ \E l \in IF scene.vnc THEN After(link[n], scene.server, pinned)
               ELSE IF link[n].step = "dial" THEN {Piped(link[n], 1, 1)} ELSE {} :
       /\ link' = [link EXCEPT ![n] = l]
       /\ pending' = IF l.step = "prompt" THEN [pending EXCEPT ![run[n].pane] = n]
                     ELSE pending
  /\ UNCHANGED <<scene, status, cur, run, host, builtFor, guacd, waiting, targets, byTab,
                 pinned, logs, rows>>

(* respondHostKey. The prompt outlives a connection that drops.            *)
Answers(p, d) ==
  /\ pending[p] # None
  /\ LET n == pending[p]
         held == link[n].step = "prompt"
     IN link' = [link EXCEPT ![n] = IF ~held THEN @ ELSE IF d = "reject" THEN Cut(@)
                                   ELSE [@ EXCEPT !.step = "offer", !.said = TRUE]]
  /\ pending' = [pending EXCEPT ![p] = None]
  /\ pinned' = IF d = "always" THEN scene.server.cert ELSE pinned
  /\ UNCHANGED <<scene, status, cur, run, host, builtFor, guacd, waiting, targets, byTab,
                 logs, rows>>

(* A socket closes, the server's or the viewer's, at any time.             *)
Drops(n) ==
  /\ Open(link[n])
  /\ link' = [link EXCEPT ![n] = Cut(@)]
  /\ UNCHANGED <<scene, status, cur, run, mainvars>>

Piping(n) == In(n, "live") /\ link[n].step = "piped"

ViewerConnects(n) ==
  /\ Piping(n)
  /\ Goes(n, "on") /\ Update(n, "connected")
  /\ UNCHANGED <<scene, cur, link, mainvars>>

(* 'credentialsrequired', and the form.                                    *)
ViewerAsks(n) ==
  /\ Piping(n) /\ scene.vnc
  /\ Goes(n, IF run[n].disposed THEN "live" ELSE "asked") /\ Update(n, "credentials")
  /\ UNCHANGED <<scene, cur, link, mainvars>>

Submits(p) ==
  /\ status[p] = "credentials"
  /\ Goes(cur[p], "live")
  /\ status' = [status EXCEPT ![p] = "connecting"]
  /\ UNCHANGED <<scene, cur, link, mainvars>>

(* 'securityfailure', after which 'disconnect' says nothing.               *)
Denied(n) ==
  /\ Piping(n) /\ scene.vnc
  /\ Goes(n, "over") /\ Update(n, "error")
  /\ link' = [link EXCEPT ![n] = Cut(@)]
  /\ UNCHANGED <<scene, cur, mainvars>>

(* Mutant of Told: only a viewer that was connected says so.               *)
ToldConnected(n) ==
  /\ In(n, "on") /\ link[n].step = "cut"
  /\ Goes(n, "over")
  /\ \E s \in {"disconnected", "error"} : Update(n, s)
  /\ UNCHANGED <<scene, cur, link, mainvars>>

(* 'disconnect'.                                                           *)
Told(n) ==
  /\ run[n] # None /\ run[n].step \in Viewing /\ link[n].step = "cut"
  /\ Goes(n, "over")
  /\ \E s \in {"disconnected", "error"} : Update(n, s)
  /\ UNCHANGED <<scene, cur, link, mainvars>>

-----------------------------------------------------------------------------

Decisions == {"accept", "always", "reject"}

Advances(n) ==
  \/ VaultRefused(n) \/ Unlocked(n) \/ Probed(n) \/ ClientMissing(n) \/ ClientStarts(n)
  \/ LaunchFails(n) \/ Replied(n) \/ OpenRefused(n) \/ Imported(n) \/ WsConnects(n)
  \/ Bridges(n) \/ ViewerConnects(n) \/ ViewerAsks(n) \/ Denied(n) \/ Told(n)

Next ==
  \/ \E p \in Panes : Mount(p) \/ ClosePane(p) \/ Reconnect(p) \/ Submits(p)
  \/ \E p \in Panes, d \in Decisions : Answers(p, d)
  \/ \E n \in Runs : Advances(n) \/ Drops(n)
  \/ Listens \/ ListenFails \/ SetGuacd

(* The event loops run, listen() answers, a server says something or goes, *)
(* and the user answers what is asked.                                     *)
Fairness ==
  /\ \A n \in Runs : WF_vars(Advances(n))
  /\ WF_vars(Listens \/ ListenFails)
  /\ WF_vars(\E p \in Panes, d \in Decisions : Answers(p, d))

Spec == Init /\ [][Next]_vars /\ Fairness

-----------------------------------------------------------------------------

TypeOK ==
  /\ scene \in Scenes /\ host \in {"down", "starting", "up", "failed"}
  /\ \A p \in Panes :
       /\ status[p] \in {"none", "connecting", "connected", "disconnected", "error",
                         "native", "credentials", "closed"}
       /\ cur[p] # None => run[cur[p]].pane = p /\ ~run[cur[p]].disposed
       /\ (cur[p] = None) = (status[p] \in {"none", "closed"})
       /\ byTab[p] # None => byTab[p] \in targets
       /\ waiting[p] # None => waiting[p] \in Waiters /\ run[waiting[p]].pane = p
  /\ \A n \in Runs : run[n] # None => run[n] \in RunRecords
  /\ \A n \in Waiters : ~run[n].disposed => waiting[run[n].pane] = n
  /\ \A n \in Runs : link[n].step \in Steps

(* A token is good for the pane's present attempt only, if the bridge is   *)
(* there already or the user waits while it starts (VncBridgeService.open, *)
(* which closes before it awaits and registers after).                     *)
TargetsAreOwned ==
  scene.started \/ scene.patient =>
    \A n \in targets : cur[run[n].pane] = n /\ byTab[run[n].pane] = n

(* A row of the connection log is open for a pane that is there, and one   *)
(* row at most, under the same condition (startLog after the await, endLog *)
(* of remote:close).                                                       *)
LogsAreOwned ==
  (scene.started /\ ~scene.changes) \/ scene.patient =>
    \A n \in rows : cur[run[n].pane] = n /\ logs[run[n].pane] = n

(* No connection runs for an attempt that was given up: what a VNC pane    *)
(* leaves behind, at any point of its connect(), is refused by the bridge; *)
(* an RDP gateway refuses nobody, so there the user has to wait.           *)
NoGhosts ==
  scene.vnc \/ scene.patient =>
    \A n \in Runs : run[n] # None /\ run[n].disposed => ~Open(link[n])

(* The modal is the present attempt's, and an answer to it is never of a   *)
(* pane that is gone (pendingCert, close).                                 *)
PromptIsLive ==
  \A p \in Panes : pending[p] # None => pending[p] = cur[p] /\ byTab[p] = cur[p]

(* A pane that says it is connected has a viewer that was (update).        *)
ConnectedIsOn ==
  \A p \in Panes : status[p] = "connected" => In(cur[p], "on")

(* What runs in TLS was looked at: the certificate is an authority's, the  *)
(* pinned one, or the user said yes to it; an anonymous subtype is never   *)
(* taken (vencrypt.ts, confirmCertificate).                                *)
TlsIsTrusted ==
  \A n \in Runs : scene.vnc /\ link[n].step = "piped" /\ link[n].sub # 0 =>
    /\ link[n].sub \in {260, 261, 262}
    /\ scene.server.ca \/ link[n].said \/ pinned = scene.server.cert

(* Viewer and server run the same authentication, each with its half of    *)
(* the handshake behind it (handshake, innerAuth).                         *)
AuthAgrees ==
  \A n \in Runs : link[n].step = "piped" => link[n].viewer = link[n].server

(* A gateway that was named in a reply still listens when the viewer comes,*)
(* while guacd is left alone (RdpGatewayService.ensureServer).             *)
GatewayStays ==
  ~scene.changes /\ ~scene.vnc =>
    \A n \in Runs : run[n] # None /\ (run[n].step \in {"opened", "importing"} \/ link[n].step = "ws")
      => host = "up"

(* A pane does not connect for ever, if its user waits and answers.        *)
ConnectSettles ==
  \A p \in Panes : scene.patient /\ status[p] = "connecting" ~> status[p] # "connecting"

(* Whatever a pane's attempts did in which order, what is open is of its   *)
(* present one: tokens, log rows, prompts, viewers and the gateway.        *)
NothingIsLeft ==
  /\ TypeOK /\ TargetsAreOwned /\ LogsAreOwned /\ PromptIsLive
  /\ NoGhosts /\ GatewayStays /\ ConnectedIsOn

(* The bridge puts together two halves of one handshake, over a certificate*)
(* somebody vouched for.                                                   *)
HandshakeIsSound == TlsIsTrusted /\ AuthAgrees
=============================================================================
