---------------------------- MODULE Connections -----------------------------
(***************************************************************************)
(* The main process's registry of live terminal connections:               *)
(* ConnectionManager, spawnTerminal (SpawnService) and the exits of the    *)
(* SSH, Telnet and local backends. Its callers, renderer windows and the   *)
(* phone, are the environment: they may call at any time, as any IPC       *)
(* message may arrive at any time (PaneClient adds the renderer).          *)
(*                                                                         *)
(* A step is a run of code between two suspensions of the main process.    *)
(***************************************************************************)
EXTENDS FiniteSets

CONSTANTS
  Panes,       (* pane ids (the code's tabId)                              *)
  Windows,     (* webContents ids                                          *)
  Backends,    (* one per connection attempt: bounds how many are made     *)
  Telnet,      (* panes whose session is a Telnet one                      *)
  Local,       (* panes that run a local shell                             *)
  None         (* null                                                     *)

ASSUME KindsAssumption ==
  /\ Telnet \subseteq Panes /\ Local \subseteq Panes
  /\ Telnet \cap Local = {}
ASSUME NoneAssumption == None \notin Panes \cup Windows \cup Backends

VARIABLES
  entry,       (* ConnectionManager.entries: the backend of a pane         *)
  owner,       (* Entry.owner: the window responsible for it               *)
  conn,        (* each backend's transport                                 *)
  paneOf,      (* the tabId a backend reports its output and exit under    *)
  askedBy,     (* the owner its spawn call was made with                   *)
  log          (* connection_log: the row register() starts for a backend  *)

cvars == <<entry, owner, conn, paneOf, askedBy, log>>

(* A transport is connecting until its spawn call resumes, up while the    *)
(* peer is there, closing from kill() until its 'close' event, then closed.*)
Transports == {"unused", "connecting", "up", "closing", "closed"}

Owners == Windows \cup {None}

CInit ==
  /\ entry = [p \in Panes |-> None]
  /\ owner = [p \in Panes |-> None]
  /\ conn = [b \in Backends |-> "unused"]
  /\ paneOf = [b \in Backends |-> None]
  /\ askedBy = [b \in Backends |-> None]
  /\ log = [b \in Backends |-> "none"]

-----------------------------------------------------------------------------
(* ConnectionManager's own operations on one pane.                         *)

(* finishLog(p): ends the log row of whatever entry p has now.             *)
FinishLog(p) ==
  log' = IF entry[p] = None THEN log ELSE [log EXCEPT ![entry[p]] = "ended"]

(* The entry goes, and its owner field with it.                            *)
DropEntry(p) ==
  /\ entry' = [entry EXCEPT ![p] = None]
  /\ owner' = [owner EXCEPT ![p] = None]

(* pushExit(p): ends the row and drops the entry p has, without asking     *)
(* which backend is exiting.                                               *)
PushExit(p) ==
  /\ FinishLog(p)
  /\ DropEntry(p)

(* register(p, backend, ..., owner): replaces whatever entry p has.        *)
Register(p, b, o) ==
  /\ log' = [log EXCEPT ![b] = "open"]
  /\ entry' = [entry EXCEPT ![p] = b]
  /\ owner' = [owner EXCEPT ![p] = o]

-----------------------------------------------------------------------------
(* spawnTerminal({tabId: p}, o).                                           *)

(* The pane is live: a window takes it over, nothing is reconnected.       *)
SpawnAdopt(p, o) ==
  /\ entry[p] # None
  /\ owner' = IF o # None THEN [owner EXCEPT ![p] = o] ELSE owner
  /\ UNCHANGED <<entry, conn, paneOf, askedBy, log>>

(* A local shell is spawned and registered without a suspension.           *)
SpawnLocal(p, o, b) ==
  /\ p \in Local /\ entry[p] = None /\ conn[b] = "unused"
  /\ conn' = [conn EXCEPT ![b] = "up"]
  /\ paneOf' = [paneOf EXCEPT ![b] = p]
  /\ askedBy' = [askedBy EXCEPT ![b] = o]
  /\ Register(p, b, o)

(* Mutant of SpawnBegin: a pane that is live is connected once more.       *)
SpawnBeginBlind(p, o, b) ==
  /\ p \notin Local /\ conn[b] = "unused"
  /\ conn' = [conn EXCEPT ![b] = "connecting"]
  /\ paneOf' = [paneOf EXCEPT ![b] = p]
  /\ askedBy' = [askedBy EXCEPT ![b] = o]
  /\ UNCHANGED <<entry, owner, log>>

(* SSH, Telnet, serial: the call suspends until the transport is there.    *)
SpawnBegin(p, o, b) ==
  /\ p \notin Local /\ entry[p] = None /\ conn[b] = "unused"
  /\ conn' = [conn EXCEPT ![b] = "connecting"]
  /\ paneOf' = [paneOf EXCEPT ![b] = p]
  /\ askedBy' = [askedBy EXCEPT ![b] = o]
  /\ UNCHANGED <<entry, owner, log>>

(* The call resumes: register() with the arguments it was made with,       *)
(* whatever happened to the pane meanwhile.                                *)
Established(b) ==
  /\ conn[b] = "connecting"
  /\ conn' = [conn EXCEPT ![b] = "up"]
  /\ Register(paneOf[b], b, askedBy[b])
  /\ UNCHANGED <<paneOf, askedBy>>

(* The call is rejected. A Telnet socket that fails to connect also emits  *)
(* 'close' before the event loop turns; its handler, already installed,    *)
(* calls pushExit.                                                         *)
ConnectFails(b) ==
  /\ conn[b] = "connecting"
  /\ conn' = [conn EXCEPT ![b] = "closed"]
  /\ IF paneOf[b] \in Telnet
     THEN PushExit(paneOf[b])
     ELSE UNCHANGED <<entry, owner, log>>
  /\ UNCHANGED <<paneOf, askedBy>>

(* A backend's 'close' / onExit: the peer went away, the link dropped, or  *)
(* kill() took effect.                                                     *)
Exit(b) ==
  /\ conn[b] \in {"up", "closing"}
  /\ conn' = [conn EXCEPT ![b] = "closed"]
  /\ PushExit(paneOf[b])
  /\ UNCHANGED <<paneOf, askedBy>>

(* What kill() does to the transports of the panes in S.                   *)
Killed(S) ==
  [b \in Backends |->
     IF \E p \in S : entry[p] = b THEN "closing" ELSE conn[b]]

(* kill(p) for every p in S: terminal:kill has one pane, a window that     *)
(* closes those it owns, before-quit all of them.                          *)
KillPanes(S) ==
  /\ conn' = Killed(S)
  /\ log' = [b \in Backends |->
               IF \E p \in S : entry[p] = b THEN "ended" ELSE log[b]]
  /\ entry' = [p \in Panes |-> IF p \in S THEN None ELSE entry[p]]
  /\ owner' = [p \in Panes |-> IF p \in S THEN None ELSE owner[p]]
  /\ UNCHANGED <<paneOf, askedBy>>

(* idsOwnedBy(w).                                                          *)
IdsOwnedBy(w) == {p \in Panes : entry[p] # None /\ owner[p] = w}

-----------------------------------------------------------------------------

CNext ==
  \/ \E p \in Panes, o \in Owners :
       \/ SpawnAdopt(p, o)
       \/ \E b \in Backends : SpawnLocal(p, o, b) \/ SpawnBegin(p, o, b)
  \/ \E b \in Backends : Established(b) \/ ConnectFails(b) \/ Exit(b)
  \/ \E p \in Panes : KillPanes({p})
  \/ \E w \in Windows : KillPanes(IdsOwnedBy(w))

CSpec == CInit /\ [][CNext]_cvars

-----------------------------------------------------------------------------

(* The shape of the state: an attempt has a pane, and only an entry has an *)
(* owner.                                                                  *)
CTypeOK ==
  /\ entry \in [Panes -> Backends \cup {None}]
  /\ owner \in [Panes -> Owners]
  /\ conn \in [Backends -> Transports]
  /\ paneOf \in [Backends -> Panes \cup {None}]
  /\ askedBy \in [Backends -> Owners]
  /\ log \in [Backends -> {"none", "open", "ended"}]
  /\ \A b \in Backends : conn[b] # "unused" => paneOf[b] # None
  /\ \A p \in Panes : entry[p] = None => owner[p] = None

(***************************************************************************)
(* What the registry lists is alive and is the pane's own: spawnTerminal   *)
(* adopts an existing entry instead of connecting, so a dead one would     *)
(* leave the pane "connected" to nothing (the comment in pushExit). The    *)
(* row of a listed connection is open.                                     *)
(***************************************************************************)
ListedIsLive ==
  \A p \in Panes : entry[p] # None =>
    /\ conn[entry[p]] = "up"
    /\ paneOf[entry[p]] = p
    /\ log[entry[p]] = "open"

(***************************************************************************)
(* "Every connect/disconnect is logged" (README.md): the row of a          *)
(* connection that is over has been ended. (Of Telnet panes, see           *)
(* PaneClient, this is not claimed.)                                       *)
(***************************************************************************)
ClosedIsLogged ==
  \A b \in Backends : conn[b] = "closed" /\ paneOf[b] \notin Telnet => log[b] # "open"

=============================================================================
