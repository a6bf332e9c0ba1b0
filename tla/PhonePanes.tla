----------------------------- MODULE PhonePanes -----------------------------
(***************************************************************************)
(* The panes a phone opens or mirrors: MobileService's sockets, the set of *)
(* panes it spawned (ownPanes) and the timers that reap those whose socket *)
(* went away (orphans).                                                    *)
(*                                                                         *)
(* A message handler runs up to its await, and the frames that arrive      *)
(* meanwhile are handled in between. A link may be dead for the phone long *)
(* before the server's socket notices: the phone then opens another one.   *)
(* A socket the server closes is only asked to: until the phone answers or *)
(* ws gives up, its frames are served as before, by a stopped server too.  *)
(*                                                                         *)
(* Two variables of the specification's own remember what the code does    *)
(* not: the panes the phone itself let go of, and those that two sockets   *)
(* showed at once.                                                         *)
(***************************************************************************)
EXTENDS FiniteSets

CONSTANTS
  Phone,       (* ids of the panes phones open: bounds how many            *)
  Desktop,     (* ids of the panes of desktop windows                      *)
  Conns,       (* websockets: bounds how many connections phones make      *)
  Null         (* null                                                     *)

ASSUME PanesAssumption ==
  Phone \cap Desktop = {} /\ Null \notin Phone \cup Desktop \cup Conns

Panes == Phone \cup Desktop

VARIABLES
  running,     (* is the server up?                                        *)
  conn,        (* each websocket, as the server and its phone see it       *)
  paneId,      (* the pane a websocket shows                               *)
  pane,        (* each pane in ConnectionManager                           *)
  asker,       (* the socket whose spawn frame made the pane               *)
  ownPanes,    (* panes spawned for a phone                                *)
  orphans,     (* panes with a reap timer running                          *)
  left,        (* panes let go of that no socket has shown since           *)
  shared       (* panes that two sockets have shown at once                *)

servervars == <<running, conn, paneId, pane, asker, ownPanes, orphans>>
panevars == <<servervars, left, shared>>

PanesInit ==
  /\ running = TRUE
  /\ conn = [s \in Conns |-> "new"]
  /\ paneId = [s \in Conns |-> Null]
  /\ pane = [p \in Panes |-> "unused"]
  /\ asker = [p \in Panes |-> Null]
  /\ ownPanes = {}
  /\ orphans = {}
  /\ left = {}
  /\ shared = {}

Live(p) == pane[p] = "live"

(* Sockets whose frames the server handles, and those it has not cleaned   *)
(* up after yet.                                                           *)
Served(s) == conn[s] \in {"open", "closing"}
Held == {s \in Conns : conn[s] \in {"open", "closing", "dead"}}

Shows(s, p) == s \in Held /\ paneId[s] = p

(* What nobody shows, and no timer waits for, once s shows something else. *)
LetGo(s) ==
  {p \in Phone \ orphans :
     Live(p) /\ Shows(s, p) /\ \A t \in Conns \ {s} : ~Shows(t, p)}

Gone(S) == [p \in Panes |-> IF p \in S /\ Live(p) THEN "gone" ELSE pane[p]]

-----------------------------------------------------------------------------
(* Sockets.                                                                *)

(* A phone connects and its first frame completes the handshake; on a      *)
(* socket that timed out, or of a stopped server, while it is being closed.*)
LinkUp(s) ==
  /\ conn[s] = "new"
  /\ \/ running /\ conn' = [conn EXCEPT ![s] = "open"]
     \/ conn' = [conn EXCEPT ![s] = "closing"]
  /\ UNCHANGED <<running, paneId, pane, asker, ownPanes, orphans, left, shared>>

(* ws.close, of a revoked phone: the closing handshake begins.             *)
ServerCloses(s) ==
  /\ running /\ conn[s] = "open"
  /\ conn' = [conn EXCEPT ![s] = "closing"]
  /\ UNCHANGED <<running, paneId, pane, asker, ownPanes, orphans, left, shared>>

(* The phone is gone from the socket; the server has yet to notice.        *)
LinkDies(s) ==
  /\ Served(s)
  /\ conn' = [conn EXCEPT ![s] = "dead"]
  /\ UNCHANGED <<running, paneId, pane, asker, ownPanes, orphans, left, shared>>

(* Mutant of Cleanup: whatever the socket showed is reaped.                *)
CleanupReapsAny(s) ==
  /\ conn[s] \in {"closing", "dead"}
  /\ conn' = [conn EXCEPT ![s] = "closed"]
  /\ orphans' = orphans \cup ({paneId[s]} \ {Null})
  /\ UNCHANGED <<running, paneId, pane, asker, ownPanes, left, shared>>

(* Mutant of Cleanup: a server that has stopped starts no timers.          *)
CleanupIfRunning(s) ==
  /\ conn[s] \in {"closing", "dead"}
  /\ conn' = [conn EXCEPT ![s] = "closed"]
  /\ orphans' = IF running THEN orphans \cup ({paneId[s]} \cap ownPanes) ELSE orphans
  /\ UNCHANGED <<running, paneId, pane, asker, ownPanes, left, shared>>

(* cleanup, on the socket's 'close' or 'error': orphan(paneId) when the    *)
(* pane is the phone's own.                                                *)
Cleanup(s) ==
  /\ conn[s] \in {"closing", "dead"}
  /\ conn' = [conn EXCEPT ![s] = "closed"]
  /\ orphans' = orphans \cup ({paneId[s]} \cap ownPanes)
  /\ UNCHANGED <<running, paneId, pane, asker, ownPanes, left, shared>>

-----------------------------------------------------------------------------
(* Frames, from a phone that is there.                                     *)

(* 'spawn', up to its await: the socket shows the pane from now on.        *)
SpawnFrame(s, p) ==
  /\ Served(s) /\ p \in Phone /\ pane[p] = "unused"
  /\ paneId' = [paneId EXCEPT ![s] = p]
  /\ pane' = [pane EXCEPT ![p] = "spawning"]
  /\ asker' = [asker EXCEPT ![p] = s]
  /\ left' = left \cup LetGo(s)
  /\ UNCHANGED <<running, conn, ownPanes, orphans, shared>>

(* The await resumes, whatever became of the socket and the server.        *)
SpawnOk(p) ==
  /\ pane[p] = "spawning"
  /\ pane' = [pane EXCEPT ![p] = "live"]
  /\ ownPanes' = ownPanes \cup {p}
  /\ left' = IF \E s \in Conns : Shows(s, p) THEN left ELSE left \cup {p}
  /\ UNCHANGED <<running, conn, paneId, asker, orphans, shared>>

(* The attempt failed: the socket shows nothing, even if it has moved on.  *)
SpawnFails(p) ==
  /\ pane[p] = "spawning"
  /\ pane' = [pane EXCEPT ![p] = "gone"]
  /\ paneId' = [paneId EXCEPT ![asker[p]] = Null]
  /\ left' = left \cup LetGo(asker[p])
  /\ UNCHANGED <<running, conn, asker, ownPanes, orphans, shared>>

(* A socket comes to show p, and what it showed before is let go of.       *)
ComesToShow(s, p) ==
  /\ paneId' = [paneId EXCEPT ![s] = p]
  /\ left' = (left \cup LetGo(s)) \ {p}
  /\ shared' = IF \E t \in Conns \ {s} : Shows(t, p) THEN shared \cup {p} ELSE shared

(* Mutant of Attach: the reap timer keeps running.                         *)
AttachUnclaimed(s, p) ==
  /\ Served(s) /\ Live(p)
  /\ ComesToShow(s, p)
  /\ UNCHANGED <<running, conn, pane, asker, ownPanes, orphans>>

(* 'attach': the pane is shown, and claimed if it was to be reaped.        *)
Attach(s, p) ==
  /\ Served(s) /\ Live(p)
  /\ ComesToShow(s, p)
  /\ orphans' = orphans \ {p}
  /\ UNCHANGED <<running, conn, pane, asker, ownPanes>>

(* 'detach', the page's way back to its list.                              *)
Detach(s) ==
  /\ Served(s) /\ paneId[s] # Null
  /\ paneId' = [paneId EXCEPT ![s] = Null]
  /\ left' = left \cup LetGo(s)
  /\ UNCHANGED <<running, conn, pane, asker, ownPanes, orphans, shared>>

(* 'kill': ends the shown pane if it is the phone's own.                   *)
KillFrame(s) ==
  /\ Served(s) /\ paneId[s] # Null
  /\ LET mine == {paneId[s]} \cap ownPanes
     IN pane' = Gone(mine) /\ ownPanes' = ownPanes \ mine
  /\ paneId' = [paneId EXCEPT ![s] = Null]
  /\ UNCHANGED <<running, conn, asker, orphans, left, shared>>

(* 'close': ends any pane, a desktop one too.                              *)
CloseFrame(s, p) ==
  /\ Served(s) /\ Live(p)
  /\ pane' = Gone({p})
  /\ ownPanes' = ownPanes \ {p}
  /\ orphans' = orphans \ {p}
  /\ paneId' = IF paneId[s] = p THEN [paneId EXCEPT ![s] = Null] ELSE paneId
  /\ UNCHANGED <<running, conn, asker, left, shared>>

-----------------------------------------------------------------------------
(* Timers, the desktop, the far ends.                                      *)

(* The 120 seconds of orphan() are over.                                   *)
GraceOver(p) ==
  /\ p \in orphans
  /\ orphans' = orphans \ {p}
  /\ ownPanes' = ownPanes \ {p}
  /\ pane' = Gone({p})
  /\ UNCHANGED <<running, conn, paneId, asker, left, shared>>

(* stop(): the sockets are asked to close, their 'close' events come later.*)
ServerStops ==
  /\ running
  /\ running' = FALSE
  /\ conn' = [s \in Conns |-> IF conn[s] = "open" THEN "closing" ELSE conn[s]]
  /\ orphans' = {}
  /\ pane' = Gone(ownPanes)
  /\ ownPanes' = {}
  /\ UNCHANGED <<paneId, asker, left, shared>>

(* start(), once the old server's sockets are all closed.                  *)
ServerStarts ==
  /\ ~running /\ Held = {}
  /\ running' = TRUE
  /\ UNCHANGED <<conn, paneId, pane, asker, ownPanes, orphans, left, shared>>

(* A desktop window opens a pane.                                          *)
DesktopOpens(p) ==
  /\ p \in Desktop /\ pane[p] = "unused"
  /\ pane' = [pane EXCEPT ![p] = "live"]
  /\ UNCHANGED <<running, conn, paneId, asker, ownPanes, orphans, left, shared>>

(* A pane's connection ends, by its far end or its desktop window.         *)
PaneEnds(p) ==
  /\ Live(p)
  /\ pane' = Gone({p})
  /\ UNCHANGED <<running, conn, paneId, asker, ownPanes, orphans, left, shared>>

-----------------------------------------------------------------------------

SocketStep(s) ==
  \/ LinkUp(s) \/ ServerCloses(s) \/ LinkDies(s) \/ Cleanup(s)
  \/ Detach(s) \/ KillFrame(s)
  \/ \E p \in Panes : SpawnFrame(s, p) \/ Attach(s, p) \/ CloseFrame(s, p)

PaneStep(p) ==
  SpawnOk(p) \/ SpawnFails(p) \/ GraceOver(p) \/ DesktopOpens(p) \/ PaneEnds(p)

PanesNext ==
  \/ \E s \in Conns : SocketStep(s)
  \/ \E p \in Panes : PaneStep(p)
  \/ ServerStops \/ ServerStarts

PanesSpec == PanesInit /\ [][PanesNext]_panevars

-----------------------------------------------------------------------------

(* The shape of the state: only phones' panes, and each of them once it is *)
(* being spawned, have an asking socket.                                   *)
PanesTyped ==
  /\ running \in BOOLEAN
  /\ conn \in [Conns -> {"new", "open", "closing", "dead", "closed"}]
  /\ paneId \in [Conns -> Panes \cup {Null}]
  /\ pane \in [Panes -> {"unused", "spawning", "live", "gone"}]
  /\ asker \in [Panes -> Conns \cup {Null}]
  /\ ownPanes \subseteq Panes
  /\ orphans \subseteq Panes
  /\ left \subseteq Phone
  /\ shared \subseteq Panes
  /\ \A p \in Panes : pane[p] = "spawning" => p \in Phone /\ asker[p] # Null

(***************************************************************************)
(* "Mirrored desktop panes are never reaped by the phone" (README.md): no  *)
(* timer and no stop of the server ever threatens a pane of the desktop,   *)
(* whichever panes phones mirrored when their sockets went away.           *)
(***************************************************************************)
DesktopNotReaped == (ownPanes \cup orphans) \cap Desktop = {}

(***************************************************************************)
(* A pane on a phone's screen is not about to be reaped ("survives 120     *)
(* seconds without a socket and is reclaimed on reconnect", README.md),    *)
(* unless another socket showed it too and went away after this one came.  *)
(***************************************************************************)
ShownIsNotReaped ==
  \A s \in Conns, p \in Phone : Shows(s, p) => p \notin orphans \ shared

(***************************************************************************)
(* "A phone-opened pane gets a grace window to be reclaimed by a reconnect *)
(* before it is reaped" (the comment in cleanup): a phone pane that runs   *)
(* has its timer running once its sockets are gone, however they went,     *)
(* unless the phone let go of it first: by detach, by showing another      *)
(* pane, or by being gone before its spawn was answered.                   *)
(***************************************************************************)
AbandonedIsReaped ==
  \A p \in Phone : Live(p) =>
    \/ p \in orphans \cup left
    \/ \E s \in Conns : Shows(s, p)

(***************************************************************************)
(* Every phone pane that runs is on a screen, or timed, or was let go of   *)
(* by its phone; and only a pane two sockets showed is both shown and      *)
(* timed (cleanup, attach, stop, against any frames in any order).         *)
(***************************************************************************)
ReapsTheAbandoned == ShownIsNotReaped /\ AbandonedIsReaped
=============================================================================
