----------------------------- MODULE PaneClient -----------------------------
(***************************************************************************)
(* The renderer side of a terminal pane over the main process's registry   *)
(* (Connections): useTerminal's mount effect with its reconnect timers,    *)
(* tab tear-off (TabBar, useTabStore.detachTab, App, main.ts) and the      *)
(* teardown of panes and windows.                                          *)
(*                                                                         *)
(* Calls to the main process take effect at once (one renderer's IPC is    *)
(* FIFO and the main process runs one message at a time); what comes back, *)
(* events and replies, queues in the inbox of the pane's view. Every tab   *)
(* has one pane. Each spawnConnection that has yet to call the main        *)
(* process, behind its timer or behind the vault's gate, is counted in     *)
(* pending: delays are left out, so any of them may be next.               *)
(***************************************************************************)
EXTENDS Connections, Integers, Sequences

CONSTANTS
  MaxRetries,  (* general.autoReconnectRetries, 0 when autoReconnect is off *)
  Hasty        (* may a user reconnect or tear off a pane, or close the     *)
               (* window it came from, while an attempt, a retry or a       *)
               (* hand-over of it is under way? and may its far end hang up *)
               (* after its new window has mounted it and before it calls?  *)

ASSUME MaxRetriesAssumption == MaxRetries \in Nat
ASSUME HastyAssumption == Hasty \in BOOLEAN

VARIABLES
  wins,        (* each window: not yet created, open or closed             *)
  view,        (* the window whose useTerminal instance shows the pane     *)
  moving,      (* pendingTearoffs: the window the pane's tab is handed to  *)
  state,       (* Pane.state                                               *)
  pending,     (* spawnConnection calls of the instance still to be made   *)
  attempts,    (* reconnectAttempts of the instance                        *)
  inbox        (* events and replies on their way to the instance          *)

rvars == <<wins, view, moving, state, pending, attempts, inbox>>
clientvars == <<cvars, rvars>>

(* "new" and "gone" are the panes with no tab: not yet opened, closed.     *)
States == {"new", "connecting", "connected", "disconnected", "error", "gone"}

PaneStatuses == {"connecting", "connected", "disconnected", "error"}

Messages == PaneStatuses                             (* terminal:status     *)
            \cup {"exitClean", "exitLost"}           (* terminal:exit       *)
            \cup {"ok", "failed"}                    (* terminal:spawn      *)

ClientInit ==
  /\ CInit
  /\ \E w \in Windows : wins = [x \in Windows |-> IF x = w THEN "open" ELSE "new"]
  /\ view = [p \in Panes |-> None]
  /\ moving = [p \in Panes |-> None]
  /\ state = [p \in Panes |-> "new"]
  /\ pending = [p \in Panes |-> 0]
  /\ attempts = [p \in Panes |-> 0]
  /\ inbox = [p \in Panes |-> <<>>]

(* What the pane's view will receive; without a view nobody listens.       *)
Sent(p, msgs) ==
  IF view[p] = None THEN inbox ELSE [inbox EXCEPT ![p] = @ \o msgs]

Connecting(p) == \E b \in Backends : conn[b] = "connecting" /\ paneOf[b] = p

(* Nothing is under way for p that a user or the far end could cut across. *)
AtRest(p) ==
  /\ ~Connecting(p) /\ pending[p] = 0 /\ moving[p] = None /\ inbox[p] = <<>>
  /\ \A b \in Backends : paneOf[b] = p => conn[b] # "closing"

-----------------------------------------------------------------------------
(* The instance's calls.                                                   *)

(* A new pane opens in an open window: its effect calls spawnConnection.   *)
Mount(p, w) ==
  /\ state[p] = "new" /\ wins[w] = "open"
  /\ view' = [view EXCEPT ![p] = w]
  /\ state' = [state EXCEPT ![p] = "connecting"]
  /\ pending' = [pending EXCEPT ![p] = 1]
  /\ UNCHANGED <<cvars, wins, moving, attempts, inbox>>

(* Ctrl+R: offered in two states, and blind to a timer that is running.    *)
CtrlR(p) ==
  /\ view[p] # None /\ state[p] \in {"disconnected", "error"}
  /\ Hasty \/ AtRest(p)
  /\ attempts' = [attempts EXCEPT ![p] = 0]
  /\ state' = [state EXCEPT ![p] = "connecting"]
  /\ pending' = [pending EXCEPT ![p] = @ + 1]
  /\ UNCHANGED <<cvars, wins, view, moving, inbox>>

(* doSpawn: the terminal:spawn call, for the window that shows the pane.   *)
DoSpawn(p) ==
  /\ pending[p] > 0
  /\ pending' = [pending EXCEPT ![p] = @ - 1]
  /\ \/ /\ SpawnAdopt(p, view[p])
        /\ inbox' = Sent(p, <<"connected", "ok">>)
     \/ \E b \in Backends :
          \/ /\ SpawnLocal(p, view[p], b)
             /\ inbox' = Sent(p, <<"connected", "ok">>)
          \/ /\ SpawnBegin(p, view[p], b)
             /\ inbox' = Sent(p, <<"connecting">>)
  /\ UNCHANGED <<wins, view, moving, state, attempts>>

(* The same call, refused at once: the session has been deleted, or no     *)
(* shell can be spawned.                                                   *)
SpawnRefused(p) ==
  /\ pending[p] > 0 /\ entry[p] = None
  /\ pending' = [pending EXCEPT ![p] = @ - 1]
  /\ inbox' = Sent(p, <<"failed">>)
  /\ UNCHANGED <<cvars, wins, view, moving, state, attempts>>

(* ensureVaultUnlocked resolves to false: the unlock dialog was cancelled. *)
VaultRefused(p) ==
  /\ p \notin Local /\ pending[p] > 0
  /\ pending' = [pending EXCEPT ![p] = @ - 1]
  /\ state' = [state EXCEPT ![p] = "error"]
  /\ UNCHANGED <<cvars, wins, view, moving, attempts, inbox>>

-----------------------------------------------------------------------------
(* The instance handles what it is sent.                                   *)

(* Mutant of Retry: the pane shows connecting, the timer is not set.       *)
RetryWithoutTimer(p) ==
  /\ attempts' = [attempts EXCEPT ![p] = @ + 1]
  /\ state' = [state EXCEPT ![p] = "connecting"]
  /\ UNCHANGED pending

(* scheduleReconnect: one more timer, next to any that is running.         *)
Retry(p) ==
  /\ attempts' = [attempts EXCEPT ![p] = @ + 1]
  /\ pending' = [pending EXCEPT ![p] = @ + 1]
  /\ state' = [state EXCEPT ![p] = "connecting"]

(* scheduleReconnect's conditions, and what its callers do when it refuses.*)
RetryOrShow(p, s) ==
  IF p \notin Local /\ attempts[p] < MaxRetries
  THEN Retry(p)
  ELSE state' = [state EXCEPT ![p] = s] /\ UNCHANGED <<pending, attempts>>

Take(p, m) ==
  /\ view[p] # None /\ inbox[p] # <<>> /\ Head(inbox[p]) = m
  /\ inbox' = [inbox EXCEPT ![p] = Tail(@)]

OnStatus(p) ==
  \E s \in PaneStatuses :
    /\ Take(p, s)
    /\ state' = [state EXCEPT ![p] = s]
    /\ UNCHANGED <<cvars, wins, view, moving, pending, attempts>>

OnSpawned(p) ==
  /\ Take(p, "ok")
  /\ attempts' = [attempts EXCEPT ![p] = 0]
  /\ UNCHANGED <<cvars, wins, view, moving, state, pending>>

OnSpawnFailed(p) ==
  /\ Take(p, "failed")
  /\ RetryOrShow(p, "error")
  /\ UNCHANGED <<cvars, wins, view, moving>>

OnLost(p) ==
  /\ Take(p, "exitLost")
  /\ RetryOrShow(p, "disconnected")
  /\ UNCHANGED <<cvars, wins, view, moving>>

(* The views of the panes in S are unmounted: listeners and the last timer *)
(* go, any other timer or gate finds isDisposed and does nothing.          *)
Unmounted(S) ==
  /\ view' = [p \in Panes |-> IF p \in S THEN None ELSE view[p]]
  /\ pending' = [p \in Panes |-> IF p \in S THEN 0 ELSE pending[p]]
  /\ attempts' = [p \in Panes |-> IF p \in S THEN 0 ELSE attempts[p]]
  /\ inbox' = [p \in Panes |-> IF p \in S THEN <<>> ELSE inbox[p]]

(* closePane / closeTab: killPane, then the unmount's own kill, which finds *)
(* nothing left to do.                                                     *)
ClosePane(p) ==
  /\ Unmounted({p})
  /\ state' = [state EXCEPT ![p] = "gone"]
  /\ KillPanes({p})
  /\ UNCHANGED <<wins, moving>>

(* Mutant of OnCleanExit: the pane stays as it is.                         *)
OnCleanExitIgnored(p) ==
  /\ Take(p, "exitClean")
  /\ UNCHANGED <<cvars, wins, view, moving, state, pending, attempts>>

(* A clean exit closes the pane.                                           *)
OnCleanExit(p) ==
  /\ view[p] # None /\ inbox[p] # <<>> /\ Head(inbox[p]) = "exitClean"
  /\ ClosePane(p)

UserCloses(p) == view[p] # None /\ ClosePane(p)

-----------------------------------------------------------------------------
(* Windows.                                                                *)

(* 'closed': the window's payload and views go with it, and the main       *)
(* process kills what it owns at this moment.                              *)
CloseWindow(w) ==
  /\ wins[w] = "open"
  /\ LET shown == {p \in Panes : view[p] = w \/ moving[p] = w}
     IN /\ Hasty \/ /\ \A b \in Backends : conn[b] = "connecting" => askedBy[b] # w
                    /\ \A p \in IdsOwnedBy(w) : view[p] = w \/ AtRest(p)
        /\ Unmounted(shown)
        /\ state' = [p \in Panes |-> IF p \in shown THEN "gone" ELSE state[p]]
        /\ moving' = [p \in Panes |-> IF p \in shown THEN None ELSE moving[p]]
  /\ wins' = [wins EXCEPT ![w] = "gone"]
  /\ KillPanes(IdsOwnedBy(w))

(* tearOffTab: not for the only tab of a window; openTab creates the new   *)
(* one, detachTab keeps the unmount from killing.                          *)
TearOff(p, w) ==
  /\ view[p] # None /\ wins[w] = "new"
  /\ \E q \in Panes \ {p} : view[q] = view[p]
  /\ Hasty \/ AtRest(p)
  /\ wins' = [wins EXCEPT ![w] = "open"]
  /\ moving' = [moving EXCEPT ![p] = w]
  /\ Unmounted({p})
  /\ UNCHANGED <<cvars, state>>

(* The new window asks for its tab, adopts it and mounts the pane.         *)
AdoptTab(p) ==
  /\ moving[p] # None
  /\ moving' = [moving EXCEPT ![p] = None]
  /\ view' = [view EXCEPT ![p] = moving[p]]
  /\ pending' = [pending EXCEPT ![p] = 1]
  /\ UNCHANGED <<cvars, wins, state, attempts, inbox>>

-----------------------------------------------------------------------------
(* The main process's side.                                                *)

MainEstablished(b) ==
  /\ Established(b)
  /\ inbox' = Sent(paneOf[b], <<"connected", "ok">>)
  /\ UNCHANGED <<wins, view, moving, state, pending, attempts>>

(* A Telnet socket emits 'error', which rejects the call, and then 'close' *)
(* at the end of the same turn of the event loop.                          *)
MainConnectFails(b) ==
  /\ ConnectFails(b)
  /\ inbox' = Sent(paneOf[b], IF paneOf[b] \in Telnet
                              THEN <<"error", "error", "failed", "exitLost">>
                              ELSE <<"error", "failed">>)
  /\ UNCHANGED <<wins, view, moving, state, pending, attempts>>

(* How the end of a pane's connection is reported: an orderly end and      *)
(* kill() are clean, a local shell has no other; an SSH client reports the *)
(* channel's end and then its own; a serial port's end is never clean.     *)
Reports(p) ==
  CASE p \in Local  -> {<<"exitClean">>}
    [] p \in Telnet -> {<<"exitClean">>, <<"error", "exitLost">>}
    [] OTHER        -> {<<"exitClean", "disconnected">>, <<"exitLost">>,
                        <<"error", "exitLost", "disconnected">>}

(* Mutant of MainExit: the window hears of the end, the registry does not. *)
MainExitUnheard(b) ==
  /\ conn[b] \in {"up", "closing"}
  /\ conn' = [conn EXCEPT ![b] = "closed"]
  /\ Hasty \/ conn[b] = "closing" \/ pending[paneOf[b]] = 0
  /\ \E report \in Reports(paneOf[b]) : inbox' = Sent(paneOf[b], report)
  /\ UNCHANGED <<entry, owner, paneOf, askedBy, log, wins, view, moving, state, pending, attempts>>

MainExit(b) ==
  /\ Exit(b)
  /\ Hasty \/ conn[b] = "closing" \/ pending[paneOf[b]] = 0
  /\ \E report \in Reports(paneOf[b]) : inbox' = Sent(paneOf[b], report)
  /\ UNCHANGED <<wins, view, moving, state, pending, attempts>>

-----------------------------------------------------------------------------

PaneStep(p) ==
  \/ \E w \in Windows : Mount(p, w) \/ TearOff(p, w)
  \/ CtrlR(p) \/ DoSpawn(p) \/ SpawnRefused(p) \/ VaultRefused(p)
  \/ OnStatus(p) \/ OnSpawned(p) \/ OnSpawnFailed(p) \/ OnLost(p)
  \/ OnCleanExit(p) \/ UserCloses(p) \/ AdoptTab(p)

ClientNext ==
  \/ \E p \in Panes : PaneStep(p)
  \/ \E w \in Windows : CloseWindow(w)
  \/ \E b \in Backends : MainEstablished(b) \/ MainConnectFails(b) \/ MainExit(b)

ClientSpec == ClientInit /\ [][ClientNext]_clientvars

-----------------------------------------------------------------------------

(* The shape of the state.                                                 *)
ClientTypeOK ==
  /\ CTypeOK
  /\ wins \in [Windows -> {"new", "open", "gone"}]
  /\ view \in [Panes -> Owners]
  /\ moving \in [Panes -> Owners]
  /\ state \in [Panes -> States]
  /\ pending \in [Panes -> Nat]
  /\ attempts \in [Panes -> 0..MaxRetries]
  /\ inbox \in [Panes -> Seq(Messages)]

(***************************************************************************)
(* A pane that shows "connecting" is waiting for something that will come: *)
(* a timer or gate that will call the main process, a connection attempt   *)
(* that will end, or an event or reply it has yet to handle.               *)
(***************************************************************************)
ConnectingIsBacked ==
  \A p \in Panes : view[p] # None /\ state[p] = "connecting" =>
    pending[p] > 0 \/ inbox[p] # <<>> \/ Connecting(p)

(***************************************************************************)
(* A pane that shows "connected" and has handled all it was sent has an    *)
(* entry to write its keystrokes to, unless it is about to ask for one or  *)
(* its connection was killed and the exit is still to be reported.         *)
(***************************************************************************)
ConnectedIsBacked ==
  \A p \in Panes : view[p] # None /\ state[p] = "connected" /\ inbox[p] = <<>> =>
    \/ entry[p] # None \/ pending[p] > 0
    \/ \E b \in Backends : conn[b] = "closing" /\ paneOf[b] = p

(***************************************************************************)
(* A pane has at most one connection at a time, connecting or up: a second *)
(* one would replace its registry entry and be closed by nobody. A tab that*)
(* was torn off is so adopted, not reconnected. (Of a Telnet pane, whose   *)
(* failed connects are reported twice, this is not claimed.)               *)
(***************************************************************************)
OneConnectionPerPane ==
  \A p \in Panes \ Telnet :
    Cardinality({b \in Backends : paneOf[b] = p /\ conn[b] \in {"connecting", "up"}}) <= 1

(***************************************************************************)
(* A window that is gone owns no connection: the 'closed' handler kills    *)
(* "the connections this window owned", since no renderer is left to.      *)
(***************************************************************************)
OwnerIsOpen ==
  \A p \in Panes : entry[p] # None /\ owner[p] # None => wins[owner[p]] # "gone"

(***************************************************************************)
(* What the registry, the log and the windows say of a connection agrees   *)
(* with it, unless the user is hasty, whenever panes are closed and far    *)
(* ends hang up: one connection per pane, a row that is ended with it, and *)
(* no owner that is gone.                                                  *)
(***************************************************************************)
BooksAgree == OneConnectionPerPane /\ ClosedIsLogged /\ OwnerIsOpen
=============================================================================
