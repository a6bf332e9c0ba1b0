---------------------------- MODULE PaneTunnels -----------------------------
(***************************************************************************)
(* Port forwards: TunnelService over the pane's client, the handlers of    *)
(* ipc/tunnels, the dialog and panel that call them, and the auto-start of *)
(* spawnTerminal. A start is an object (RunningTunnel) that is in the map  *)
(* 'running' until it is stopped, and lives on while its start awaits.     *)
(* Bytes are not counted; a local and a dynamic forward listen alike.      *)
(***************************************************************************)
EXTENDS PaneLink

CONSTANTS
  Tunnels,     (* rows of the tunnels table                                *)
  Remote,      (* those of type 'remote'                                   *)
  Starts       (* RunningTunnel objects alive at a time                    *)

StartRecords == [tun : Tunnels, pane : Panes, link : Links,
                 status : {"pending", "active", "failed"},
                 server : BOOLEAN, handler : BOOLEAN, auto : BOOLEAN]

ASSUME TunnelAssumption ==
  /\ Remote \subseteq Tunnels
  /\ None \notin Starts \cup StartRecords /\ \A T \in SUBSET Tunnels : T # None

VARIABLES
  saved,       (* the rows                                                 *)
  rt,          (* each RunningTunnel: its tunnel, pane and client, status, *)
               (* whether its server listens (or its port is forwarded),   *)
               (* whether its 'tcp connection' handler is on the client and*)
               (* whether autoStartTunnels awaits it                       *)
  running,     (* running: the start each tunnel has                       *)
  starting     (* autoStartTunnels: the tunnels each pane has yet to start,*)
               (* None when it has no such loop                            *)

tunvars == <<saved, rt, running, starting>>

TunnelInit ==
  /\ saved = Tunnels
  /\ rt = [s \in Starts |-> None]
  /\ running = [t \in Tunnels |-> None]
  /\ starting = [p \in Panes |-> None]

Held(s) == rt[s].server \/ (rt[s].handler /\ rt[s].link \in up)
Free == {s \in Starts : rt[s] = None \/ (/\ \A t \in Tunnels : running[t] # s
                                         /\ rt[s].status # "pending" /\ ~Held(s))}

Pending(s) == rt[s] # None /\ rt[s].status = "pending"

(* server.close(), unforwardIn, removeListener, which a dead client's      *)
(* unforwardIn skips by throwing.                                          *)
Released(s) ==
  [rt[s] EXCEPT !.server = FALSE, !.handler = @ /\ rt[s].link \notin up]

(* start: what may be refused is refused before anything changes; a failed *)
(* one is stopped first.                                                   *)
MayStart(t, p) ==
  /\ t \in saved /\ conn[p] # None /\ Free # {}
  /\ running[t] # None => rt[running[t]].status = "failed"

StartTunnel(t, p, auto) ==
  LET s == Any(Free)
      old == running[t]
      swept == IF old = None THEN rt ELSE [rt EXCEPT ![old] = Released(old)]
  IN /\ MayStart(t, p)
     /\ rt' = [swept EXCEPT ![s] = [tun |-> t, pane |-> p, link |-> conn[p],
                                    status |-> "pending", server |-> FALSE,
                                    handler |-> t \in Remote, auto |-> auto]]
     /\ running' = [running EXCEPT ![t] = s]

(* TunnelDialog's and TunnelsPanel's Start, on a connected pane: in a scene*)
(* of its own, without auto-start.                                         *)
UserStarts(t, p) ==
  /\ ~scene.auto
  /\ StartTunnel(t, p, FALSE)
  /\ UNCHANGED <<saved, starting>>

(* One turn of autoStartTunnels. The loop goes on when start() throws, or  *)
(* returns what is there; else it awaits.                                  *)
AutoStart(p) ==
  /\ starting[p] \notin {None, {}}
  /\ ~\E s \in Starts : Pending(s) /\ rt[s].auto /\ rt[s].pane = p
  /\ LET t == Any(starting[p])
     IN /\ starting' = [starting EXCEPT ![p] = @ \ {t}]
        /\ \/ StartTunnel(t, p, TRUE)
           \/ ~MayStart(t, p) /\ UNCHANGED <<rt, running>>
  /\ UNCHANGED saved

(* listen() succeeds: the port is free.                                    *)
Listening(s) ==
  /\ rt[s].tun \notin Remote
  /\ \A o \in Starts : rt[o] # None /\ rt[o].tun = rt[s].tun => ~rt[o].server

(* forwardIn succeeds. A stop in between has sent its cancel after it.     *)
Forwarded(s) == rt[s].tun \in Remote /\ rt[s].link \in up

Opens(s) ==
  /\ Pending(s) /\ (Listening(s) \/ Forwarded(s))
  /\ rt' = [rt EXCEPT ![s].status = "active",
                      ![s].server = rt[s].tun \notin Remote \/ running[rt[s].tun] = s]
  /\ UNCHANGED <<saved, running, starting>>

(* The port is taken or refused, the link is gone.                         *)
Fails(s) ==
  /\ Pending(s)
  /\ rt' = [rt EXCEPT ![s].status = "failed"]
  /\ UNCHANGED <<saved, running, starting>>

(* Mutant of Stopped: the listener is left open.                           *)
StoppedUnreleased(S) ==
  /\ running' = [t \in Tunnels |-> IF running[t] \in S THEN None ELSE running[t]]
  /\ UNCHANGED rt

(* stop, of some of the running ones.                                      *)
Stopped(S) ==
  /\ rt' = [s \in Starts |-> IF s \in S THEN Released(s) ELSE rt[s]]
  /\ running' = [t \in Tunnels |-> IF running[t] \in S THEN None ELSE running[t]]

Waits(t) == scene.patient /\ running[t] # None => ~Pending(running[t])

StopTunnel(t) ==
  /\ running[t] # None
  /\ Waits(t)
  /\ Stopped({running[t]})
  /\ UNCHANGED <<saved, starting>>

(* tunnels:delete                                                          *)
DeleteTunnel(t) ==
  /\ t \in saved /\ Waits(t)
  /\ Stopped({running[t]} \ {None})
  /\ saved' = saved \ {t}
  /\ UNCHANGED starting

(* stopForTab                                                              *)
StopForTab(p) ==
  Stopped({s \in Starts : /\ \E t \in Tunnels : running[t] = s
                          /\ rt[s].pane = p})

-----------------------------------------------------------------------------

TunnelTypeOK ==
  /\ saved \subseteq Tunnels
  /\ rt \in [Starts -> StartRecords \cup {None}]
  /\ \A s \in Starts : rt[s] # None =>
       rt[s].link \in used /\ (rt[s].server => rt[s].status = "active")
  /\ running \in [Tunnels -> Starts \cup {None}]
  /\ \A t \in Tunnels : running[t] # None => rt[running[t]].tun = t /\ t \in saved
  /\ starting \in [Panes -> (SUBSET Tunnels) \cup {None}]

(* Every open port can be closed: what listens, or takes a forwarded       *)
(* connection, is the start the map holds for its tunnel, if nobody stops a*)
(* tunnel while it starts (TunnelService.stop, stopForTab, start).         *)
PortsAreOwned ==
  scene.patient => \A s \in Starts : rt[s] # None /\ Held(s) => running[rt[s].tun] = s

(* No tunnel in the list outlives its pane (terminal:kill, stopForTab).    *)
TunnelsEndWithPane ==
  \A t \in Tunnels : running[t] # None => rt[running[t]].pane \notin closed

(* A tunnel shown as active carries something: its client is connected,    *)
(* unless a link has dropped (no handler of the end of a connection tells  *)
(* TunnelService).                                                         *)
ActiveTunnelIsLive ==
  ~scene.drops => \A t \in Tunnels :
    running[t] # None /\ rt[running[t]].status = "active" => rt[running[t]].link \in up
=============================================================================
