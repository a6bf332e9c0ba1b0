---------------------------- MODULE PhoneTunnel -----------------------------
(***************************************************************************)
(* Phone access, the way in: MobileService's HTTP server, the cloudflared  *)
(* processes that publish it, and CloudflaredService's download of the     *)
(* binary. Servers and processes are objects: a call that resumes after an *)
(* await, a timer or a late event may meet another one than it began with. *)
(***************************************************************************)
EXTENDS Naturals, FiniteSets

CONSTANTS
  Servers,     (* HTTP servers that may be made                            *)
  Procs,       (* cloudflared processes that may be spawned                *)
  None,        (* null                                                     *)
  Scenarios    (* what may happen: records of [patient, lingers, servers,  *)
               (* procs, codes, socks]                                     *)

ASSUME NoneAssumption == None \notin Servers \cup Procs

(* patient: the user waits for one button's call to end before the next.   *)
(* lingers: a killed cloudflared may print its address before it is gone.  *)
(* The sets bound what a behaviour of the scenario may use up.             *)
ASSUME ScenarioAssumption ==
  \A s \in Scenarios :
    /\ s.patient \in BOOLEAN /\ s.lingers \in BOOLEAN
    /\ s.servers \subseteq Servers /\ s.procs \subseteq Procs /\ IsFiniteSet(s.procs)

(* Objects are alike: which unused one is taken does not matter.           *)
Any(S) == CHOOSE x \in S : TRUE

VARIABLES
  scene,          (* the scenario, which never changes                     *)
  srv,            (* each server: new, binding, listening, closing, closed *)
  http,           (* this.http                                             *)
  stops,          (* stop() calls that wait for a server to close          *)
  install,        (* doInstall: idle, fetching, or checking the binary     *)
  file,           (* the managed binary: none, good, or bad                *)
  waiting,        (* does a startTunnel() call wait for the install?       *)
  tunnelStarting, (* this.tunnelStarting                                   *)
  proc,           (* each process: none, run, dud, killed, gone            *)
  tunnel,         (* this.tunnel                                           *)
  tunnelUrl,      (* the process whose address is this.tunnelUrl           *)
  tunnelTimeout,  (* the process of the timer in this.tunnelTimeout        *)
  timers          (* processes whose 30 s timer is scheduled               *)

server  == <<srv, http, stops>>
binary  == <<install, file, waiting>>
tunnels == <<tunnelStarting, proc, tunnel, tunnelUrl, tunnelTimeout, timers>>
way     == <<scene, server, binary, tunnels>>

(* A binary that a crash left unchecked may be bad.                        *)
TunnelInit ==
  /\ scene \in Scenarios
  /\ srv = [s \in Servers |-> "new"] /\ http = None
  /\ stops = [s \in Servers |-> 0]
  /\ install = "idle" /\ waiting = FALSE
  /\ file \in (IF scene.procs = {} THEN {"good"} ELSE {"none", "good", "bad"})
  /\ tunnelStarting = FALSE
  /\ proc = [p \in Procs |-> "none"]
  /\ tunnel = None /\ tunnelUrl = None /\ tunnelTimeout = None /\ timers = {}

Alive(p) == proc[p] \in {"run", "dud"}

(* Calls of the desktop that have not come back.                           *)
Pending ==
  \/ install # "idle" \/ waiting
  \/ \E s \in Servers : srv[s] = "binding" \/ stops[s] > 0

(* The panel's buttons are disabled while its call runs, unless the panel  *)
(* was left and opened again or Unlink, which is never disabled, was used. *)
MayPress == scene.patient => ~Pending

-----------------------------------------------------------------------------
(* The server.                                                             *)

(* start, up to its await: with a server there it only reports.            *)
Start ==
  LET new == {s \in scene.servers : srv[s] = "new"}
  IN /\ MayPress /\ http = None /\ new # {}
     /\ srv' = [srv EXCEPT ![Any(new)] = "binding"]
     /\ UNCHANGED <<scene, http, stops, binary, tunnels>>

Listens(s) ==
  /\ srv[s] = "binding"
  /\ srv' = [srv EXCEPT ![s] = "listening"] /\ http' = s
  /\ UNCHANGED <<scene, stops, binary, tunnels>>

(* EADDRINUSE, EACCES: start rejects.                                      *)
Refused(s) ==
  /\ srv[s] = "binding"
  /\ srv' = [srv EXCEPT ![s] = "closed"]
  /\ UNCHANGED <<scene, http, stops, binary, tunnels>>

(* Bound: at most two calls wait for the same server.                      *)
MayStop == \A s \in Servers : stops[s] < 2

Kill(p) == [proc EXCEPT ![p] = IF Alive(p) THEN "killed" ELSE @]

(* stopTunnel: the timer that the handle names is cleared.                 *)
ClearTunnel ==
  /\ tunnelStarting' = FALSE
  /\ proc' = IF tunnel = None THEN proc ELSE Kill(tunnel)
  /\ tunnel' = None /\ tunnelUrl' = None
  /\ timers' = timers \ {tunnelTimeout} /\ tunnelTimeout' = None

(* stop, up to its await, but for the phones' part of it.                  *)
CloseServer ==
  /\ ClearTunnel
  /\ IF http = None THEN UNCHANGED server
     ELSE /\ srv' = [srv EXCEPT ![http] = "closing"]
          /\ stops' = [stops EXCEPT ![http] = @ + 1]
          /\ UNCHANGED http
  /\ UNCHANGED <<scene, binary>>

(* The last connection is over (busy: the server still has sockets).       *)
Closed(s, busy) ==
  /\ srv[s] = "closing" /\ ~busy
  /\ srv' = [srv EXCEPT ![s] = "closed"]
  /\ UNCHANGED <<scene, http, stops, binary, tunnels>>

(* stop resumes and forgets whatever server is there by now. Closing a     *)
(* server twice calls back at once.                                        *)
StopReturns(s) ==
  /\ stops[s] > 0 /\ (srv[s] = "closed" \/ stops[s] > 1)
  /\ stops' = [stops EXCEPT ![s] = @ - 1] /\ http' = None
  /\ UNCHANGED <<scene, srv, binary, tunnels>>

-----------------------------------------------------------------------------
(* The binary.                                                             *)

(* install: callers share one download.                                    *)
Install ==
  /\ MayPress /\ file = "none" /\ install = "idle" /\ scene.procs # {}
  /\ install' = "fetching"
  /\ UNCHANGED <<scene, server, file, waiting, tunnels>>

(* The download is renamed into place and made executable, unchecked.      *)
Fetched(q) ==
  /\ install = "fetching"
  /\ install' = "checking" /\ file' = q
  /\ UNCHANGED <<scene, server, waiting, tunnels>>

Unused == {p \in scene.procs : proc[p] = "none"}

(* spawn(binary), the new this.tunnel, and its 30 s timer.                 *)
Spawn ==
  LET p == Any(Unused)
  IN /\ Unused # {}
     /\ proc' = [proc EXCEPT ![p] = IF file = "good" THEN "run" ELSE "dud"]
     /\ tunnel' = p /\ tunnelTimeout' = p /\ timers' = timers \cup {p}
     /\ UNCHANGED tunnelUrl

(* The call that waited for the binary goes on, if the server is there.    *)
Resumed ==
  /\ waiting' = FALSE
  /\ \/ ~waiting /\ UNCHANGED tunnels
     \/ /\ waiting /\ http = None
        /\ tunnelStarting' = FALSE
        /\ UNCHANGED <<proc, tunnel, tunnelUrl, tunnelTimeout, timers>>
     \/ waiting /\ http # None /\ Spawn /\ UNCHANGED tunnelStarting

CheckPasses ==
  /\ install = "checking" /\ file = "good"
  /\ install' = "idle" /\ Resumed
  /\ UNCHANGED <<scene, server, file>>

(* The download fails, or what it brought does not run and is removed.     *)
InstallFails ==
  /\ install # "idle"
  /\ install' = "idle" /\ file' = "none" /\ waiting' = FALSE
  /\ tunnelStarting' = (tunnelStarting /\ ~waiting)
  /\ UNCHANGED <<scene, server, proc, tunnel, tunnelUrl, tunnelTimeout, timers>>

Uninstall ==
  /\ MayPress /\ file # "none" /\ install = "idle" /\ scene.procs # {}
  /\ file' = "none"
  /\ UNCHANGED <<scene, server, install, waiting, tunnels>>

-----------------------------------------------------------------------------
(* The tunnel.                                                             *)

(* resolve: a managed binary counts as found as soon as it is executable.  *)
Found == file # "none"

(* startTunnel: ensure() finds a binary or waits for the download. The     *)
(* button is disabled while one is under way.                              *)
StartTunnel ==
  /\ MayPress /\ http # None /\ tunnel = None /\ ~tunnelStarting
  /\ install = "idle"
  /\ tunnelStarting' = TRUE
  /\ IF Found THEN Spawn /\ UNCHANGED <<install, waiting>>
     ELSE /\ Unused # {}
          /\ waiting' = TRUE /\ install' = "fetching"
          /\ UNCHANGED <<proc, tunnel, tunnelUrl, tunnelTimeout, timers>>
  /\ UNCHANGED <<scene, server, file>>

StopTunnel ==
  /\ MayPress /\ tunnelUrl # None
  /\ ClearTunnel
  /\ UNCHANGED <<scene, server, binary>>

(* scan: the first address printed is taken, whichever process prints it.  *)
Prints(p) ==
  /\ tunnelUrl = None
  /\ proc[p] = "run" \/ (proc[p] = "killed" /\ scene.lingers)
  /\ tunnelUrl' = p /\ tunnelStarting' = FALSE
  /\ timers' = timers \ {tunnelTimeout} /\ tunnelTimeout' = None
  /\ UNCHANGED <<scene, server, binary, proc, tunnel>>

(* Mutant of TimesOut: the process is forgotten without being killed.      *)
TimesOutUnkilled(p) ==
  /\ p \in timers
  /\ timers' = timers \ {p} /\ tunnelTimeout' = None
  /\ IF tunnel = p /\ tunnelUrl = None
     THEN tunnel' = None /\ tunnelStarting' = FALSE
     ELSE UNCHANGED <<tunnel, tunnelStarting>>
  /\ UNCHANGED <<scene, server, binary, tunnelUrl, proc>>

(* 30 s without an address. The handle is dropped whosever timer it is.    *)
TimesOut(p) ==
  /\ p \in timers
  /\ timers' = timers \ {p} /\ tunnelTimeout' = None
  /\ IF tunnel = p /\ tunnelUrl = None
     THEN tunnel' = None /\ tunnelStarting' = FALSE /\ proc' = Kill(p)
     ELSE UNCHANGED <<tunnel, tunnelStarting, proc>>
  /\ UNCHANGED <<scene, server, binary, tunnelUrl>>

(* 'error': cloudflared could not be launched.                             *)
LaunchFails(p) ==
  /\ proc[p] = "dud"
  /\ proc' = [proc EXCEPT ![p] = "gone"]
  /\ timers' = timers \ {tunnelTimeout} /\ tunnelTimeout' = None
  /\ tunnel' = None /\ tunnelUrl' = None /\ tunnelStarting' = FALSE
  /\ UNCHANGED <<scene, server, binary>>

(* 'exit': only the current process's counts.                              *)
Exits(p) ==
  /\ proc[p] \in {"run", "killed"}
  /\ proc' = [proc EXCEPT ![p] = "gone"]
  /\ IF tunnel = p
     THEN /\ tunnel' = None /\ tunnelUrl' = None /\ tunnelStarting' = FALSE
          /\ timers' = timers \ {tunnelTimeout} /\ tunnelTimeout' = None
     ELSE UNCHANGED <<tunnel, tunnelUrl, tunnelStarting, timers, tunnelTimeout>>
  /\ UNCHANGED <<scene, server, binary>>

Buttons == Install \/ Uninstall \/ StartTunnel \/ StopTunnel

WayNext ==
  \/ \E s \in Servers : Listens(s) \/ Refused(s)
  \/ CheckPasses \/ InstallFails
  \/ \E q \in {"good", "bad"} : Fetched(q)
  \/ \E p \in Procs : Prints(p) \/ TimesOut(p) \/ LaunchFails(p) \/ Exits(p)

-----------------------------------------------------------------------------
(* Properties.                                                             *)

WayTypeOK ==
  /\ scene \in Scenarios
  /\ srv \in [Servers -> {"new", "binding", "listening", "closing", "closed"}]
  /\ http \in Servers \cup {None} /\ stops \in [Servers -> Nat]
  /\ install \in {"idle", "fetching", "checking"} /\ file \in {"none", "good", "bad"}
  /\ waiting \in BOOLEAN /\ tunnelStarting \in BOOLEAN
  /\ proc \in [Procs -> {"none", "run", "dud", "killed", "gone"}]
  /\ {tunnel, tunnelUrl, tunnelTimeout} \subseteq Procs \cup {None}
  /\ timers \subseteq Procs

(* No cloudflared runs that the service has lost: with a user who waits    *)
(* for each call, every process that has not been killed is this.tunnel,   *)
(* and publishes a server that is there (startTunnel, its await and the    *)
(* 30 s timer against stop and start).                                     *)
TunnelIsOwned ==
  scene.patient =>
    /\ \A p \in Procs : Alive(p) => tunnel = p
    /\ tunnel # None => http # None

(* The address on show is that of the running tunnel, so a phone that      *)
(* scans it reaches this program (scan, 'exit' and stopTunnel), as long as *)
(* a killed process prints nothing more.                                   *)
UrlIsTunnels ==
  scene.patient /\ ~scene.lingers => tunnelUrl \in {None, tunnel}

(* "Starting" ends, whatever the user does (the download, the timer and the*)
(* processes' events reset tunnelStarting), as long as a killed process    *)
(* prints nothing more: its late address would disarm the next start.      *)
StartingEnds == (tunnelStarting /\ ~scene.lingers) ~> ~tunnelStarting

(* No server is up that stop can no longer reach (start and stop both      *)
(* write this.http after an await).                                        *)
ServerIsReachable ==
  scene.patient => \A s \in Servers : srv[s] = "listening" => http = s
=============================================================================
