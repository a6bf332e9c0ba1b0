------------------------- MODULE ConnectionProofs ---------------------------
(***************************************************************************)
(* A connection and what is transferred over it: components that share no  *)
(* variable, each with its own state and its own specification.            *)
(*                                                                         *)
(* The terminal panes, for any panes, windows, retries and number of       *)
(* connection attempts. Of the registry, whatever its callers do: what     *)
(* ConnectionManager lists is alive, is the pane's own and has an open row *)
(* in the log. Of the renderer: it only ever acts on the registry as some  *)
(* caller of it may (PaneClient implements Connections), and useTerminal   *)
(* never leaves a pane "connecting" with nothing to wait for, nor          *)
(* "connected" with no connection, once it has handled what it was sent.   *)
(*                                                                         *)
(* The gate, what passes through it, and one transfer's inside, in turn.   *)
(* For every finite set of transfers and every set of limits: the slot     *)
(* counter never drifts, the queue holds exactly the waiting calls, and no *)
(* wake-up is lost (TransferGate). For every set of requests, names and    *)
(* trees: the same under FileTransfers, nothing is written over unasked,   *)
(* and what is reported as done is done.                                   *)
(***************************************************************************)
EXTENDS PaneClient, FileTransfers, TransferStream, FiniteSetTheorems, SequenceTheorems, TLAPS

-----------------------------------------------------------------------------
(* The registry under any callers.                                         *)

(* ListedIsLive is inductive together with the types: a transport leaves   *)
(* "up" only in kill() and pushExit(), which drop the entry in that step.  *)
CInv == CTypeOK /\ ListedIsLive

LEMMA InitCInv == CInit => CInv
<1>1. QED
  BY NoneAssumption DEF CInit, CInv, CTypeOK, ListedIsLive, Owners, Transports

LEMMA KillPanesCInv ==
  ASSUME CInv, NEW S \in SUBSET Panes, KillPanes(S)
  PROVE  CInv'
<1>0. CTypeOK /\ ListedIsLive
  BY DEF CInv
<1>1. CTypeOK'
  <2>1. conn' \in [Backends -> Transports]
    BY <1>0 DEF CTypeOK, KillPanes, Killed, Transports
  <2>2. log' \in [Backends -> {"none", "open", "ended"}]
    BY <1>0 DEF CTypeOK, KillPanes
  <2>3. /\ entry' \in [Panes -> Backends \cup {None}]
        /\ owner' \in [Panes -> Owners]
        /\ \A p \in Panes : entry'[p] = None => owner'[p] = None
    BY <1>0 DEF CTypeOK, KillPanes, Owners
  <2>4. ASSUME NEW b \in Backends, conn'[b] # "unused" PROVE paneOf'[b] # None
    <3>1. conn[b] # "unused"
      BY <1>0, <2>4, NoneAssumption DEF KillPanes, Killed, ListedIsLive
    <3>2. QED
      BY <1>0, <3>1 DEF CTypeOK, KillPanes
  <2>5. QED
    BY <1>0, <2>1, <2>2, <2>3, <2>4 DEF CTypeOK, KillPanes
<1>2. ListedIsLive'
  <2> SUFFICES ASSUME NEW p \in Panes, entry'[p] # None
               PROVE  /\ conn'[entry'[p]] = "up"
                      /\ paneOf'[entry'[p]] = p
                      /\ log'[entry'[p]] = "open"
    BY DEF ListedIsLive
  <2>1. p \notin S /\ entry'[p] = entry[p] /\ entry[p] \in Backends
    BY <1>0 DEF KillPanes, CTypeOK
  <2>2. \A q \in S : entry[q] # entry[p]
    (* two panes with one backend would make it the backend of both        *)
    BY <1>0, <2>1 DEF ListedIsLive
  <2>3. QED
    BY <1>0, <2>1, <2>2 DEF KillPanes, Killed, ListedIsLive, CTypeOK
<1>3. QED
  BY <1>1, <1>2 DEF CInv

LEMMA PushExitCInv ==
  ASSUME CInv, NEW b \in Backends,
         conn[b] \in {"connecting", "up", "closing"},
         conn' = [conn EXCEPT ![b] = "closed"],
         PushExit(paneOf[b]), UNCHANGED <<paneOf, askedBy>>
  PROVE  CInv'
<1>0. CTypeOK /\ ListedIsLive
  BY DEF CInv
<1>1. paneOf[b] \in Panes
  BY <1>0 DEF CTypeOK
<1>2. CTypeOK'
  BY <1>0, <1>1, NoneAssumption
     DEF CTypeOK, PushExit, FinishLog, DropEntry, Owners, Transports
<1>3. ListedIsLive'
  <2> SUFFICES ASSUME NEW p \in Panes, entry'[p] # None
               PROVE  /\ conn'[entry'[p]] = "up"
                      /\ paneOf'[entry'[p]] = p
                      /\ log'[entry'[p]] = "open"
    BY DEF ListedIsLive
  <2>1. p # paneOf[b] /\ entry'[p] = entry[p] /\ entry[p] \in Backends
    BY <1>0, <1>1 DEF PushExit, DropEntry, CTypeOK
  <2>2. entry[p] # b /\ entry[p] # entry[paneOf[b]]
    BY <1>0, <1>1, <2>1 DEF ListedIsLive
  <2>3. QED
    BY <1>0, <1>1, <2>1, <2>2 DEF PushExit, FinishLog, ListedIsLive, CTypeOK
<1>4. QED
  BY <1>2, <1>3 DEF CInv

LEMMA NextCInv == CInv /\ [CNext]_cvars => CInv'
<1> SUFFICES ASSUME CInv, [CNext]_cvars PROVE CInv'
  OBVIOUS
<1>0. CTypeOK /\ ListedIsLive
  BY DEF CInv
<1>1. ASSUME NEW p \in Panes, NEW o \in Owners, SpawnAdopt(p, o) PROVE CInv'
  BY <1>0, <1>1 DEF CInv, SpawnAdopt, CTypeOK, ListedIsLive, Owners
<1>2. ASSUME NEW p \in Panes, NEW o \in Owners, NEW b \in Backends,
             SpawnLocal(p, o, b)
      PROVE CInv'
  <2>1. CTypeOK'
    BY <1>0, <1>2, NoneAssumption
       DEF SpawnLocal, Register, CTypeOK, Owners, Transports
  <2>2. \A q \in Panes : entry[q] # b
    BY <1>0, <1>2, NoneAssumption DEF SpawnLocal, ListedIsLive
  <2>3. ListedIsLive'
    BY <1>0, <1>2, <2>2 DEF SpawnLocal, Register, CTypeOK, ListedIsLive
  <2>4. QED
    BY <2>1, <2>3 DEF CInv
<1>3. ASSUME NEW p \in Panes, NEW o \in Owners, NEW b \in Backends,
             SpawnBegin(p, o, b)
      PROVE CInv'
  <2>1. CTypeOK'
    BY <1>0, <1>3, NoneAssumption DEF SpawnBegin, CTypeOK, Owners, Transports
  <2>2. \A q \in Panes : entry[q] # b
    BY <1>0, <1>3, NoneAssumption DEF SpawnBegin, ListedIsLive
  <2>3. ListedIsLive'
    BY <1>0, <1>3, <2>2 DEF SpawnBegin, CTypeOK, ListedIsLive
  <2>4. QED
    BY <2>1, <2>3 DEF CInv
<1>4. ASSUME NEW b \in Backends, Established(b) PROVE CInv'
  <2>0. paneOf[b] \in Panes /\ askedBy[b] \in Owners
    BY <1>0, <1>4 DEF Established, CTypeOK
  <2>1. CTypeOK'
    BY <1>0, <1>4, <2>0, NoneAssumption
       DEF Established, Register, CTypeOK, Owners, Transports
  <2>2. \A q \in Panes : entry[q] # b
    BY <1>0, <1>4, NoneAssumption DEF Established, ListedIsLive
  <2>3. ListedIsLive'
    BY <1>0, <1>4, <2>0, <2>2 DEF Established, Register, CTypeOK, ListedIsLive
  <2>4. QED
    BY <2>1, <2>3 DEF CInv
<1>5. ASSUME NEW b \in Backends, ConnectFails(b) PROVE CInv'
  <2>1. CASE paneOf[b] \in Telnet
    BY <1>5, <2>1, PushExitCInv DEF ConnectFails
  <2>2. CASE paneOf[b] \notin Telnet
    <3>1. CTypeOK'
      BY <1>0, <1>5, <2>2 DEF ConnectFails, CTypeOK, Transports
    <3>2. \A q \in Panes : entry[q] # b
      BY <1>0, <1>5, NoneAssumption DEF ConnectFails, ListedIsLive
    <3>3. ListedIsLive'
      BY <1>0, <1>5, <2>2, <3>2 DEF ConnectFails, CTypeOK, ListedIsLive
    <3>4. QED
      BY <3>1, <3>3 DEF CInv
  <2>3. QED
    BY <2>1, <2>2
<1>6. ASSUME NEW b \in Backends, Exit(b) PROVE CInv'
  BY <1>6, PushExitCInv DEF Exit
<1>7. ASSUME NEW p \in Panes, KillPanes({p}) PROVE CInv'
  BY <1>7, KillPanesCInv
<1>8. ASSUME NEW w \in Windows, KillPanes(IdsOwnedBy(w)) PROVE CInv'
  BY <1>8, KillPanesCInv DEF IdsOwnedBy
<1>9. CASE UNCHANGED cvars
  BY <1>0, <1>9 DEF cvars, CInv, CTypeOK, ListedIsLive
<1>10. QED
  BY <1>1, <1>2, <1>3, <1>4, <1>5, <1>6, <1>7, <1>8, <1>9 DEF CNext

-----------------------------------------------------------------------------

(* The strengthened invariant of the registry.                             *)
THEOREM RegistryInductive == CSpec => []CInv
<1>1. QED
  BY InitCInv, NextCInv, PTL DEF CSpec

(***************************************************************************)
(* spawnTerminal never adopts a dead connection: a listed backend is up,   *)
(* reports under the id it is listed by and has an open log row, in spite  *)
(* of kills and closing windows during connection attempts and of          *)
(* concurrent attempts for one pane.                                       *)
(***************************************************************************)
THEOREM ListedAlwaysLive == CSpec => []ListedIsLive
<1>1. CInv => ListedIsLive
  BY DEF CInv
<1>2. QED
  BY <1>1, RegistryInductive, PTL

-----------------------------------------------------------------------------
(* The renderer is such a caller.                                          *)

(* The view of a pane that calls doSpawn is a window.                      *)
Callers == \A p \in Panes : view[p] \in Owners /\ moving[p] \in Owners

LEMMA InitCallers == ClientInit => CInit /\ Callers
<1>1. QED
  BY DEF ClientInit, Callers, Owners

(* A step of the client is a step of the registry, or leaves it alone.     *)
LEMMA StepImplements ==
  ASSUME Callers, ClientNext
  PROVE  [CNext]_cvars
<1>1. ASSUME NEW p \in Panes, PaneStep(p) PROVE [CNext]_cvars
  <2>1. ASSUME NEW w \in Windows, Mount(p, w) \/ TearOff(p, w)
        PROVE  UNCHANGED cvars
    BY <2>1 DEF Mount, TearOff, cvars
  <2>2. CASE \/ CtrlR(p) \/ SpawnRefused(p) \/ VaultRefused(p) \/ OnStatus(p)
             \/ OnSpawned(p) \/ OnSpawnFailed(p) \/ OnLost(p) \/ AdoptTab(p)
    BY <2>2 DEF CtrlR, SpawnRefused, VaultRefused, OnStatus, OnSpawned, OnSpawnFailed,
                OnLost, AdoptTab, cvars
  <2>3. CASE DoSpawn(p)
    <3>1. view[p] \in Owners
      BY DEF Callers
    <3>2. QED
      BY <2>3, <3>1 DEF DoSpawn, CNext
  <2>4. CASE OnCleanExit(p) \/ UserCloses(p)
    BY <2>4 DEF OnCleanExit, UserCloses, ClosePane, CNext
  <2>5. QED
    BY <1>1, <2>1, <2>2, <2>3, <2>4 DEF PaneStep
<1>2. ASSUME NEW w \in Windows, CloseWindow(w) PROVE CNext
  BY <1>2 DEF CloseWindow, CNext
<1>3. ASSUME NEW b \in Backends,
             MainEstablished(b) \/ MainConnectFails(b) \/ MainExit(b)
      PROVE CNext
  BY <1>3 DEF MainEstablished, MainConnectFails, MainExit, CNext
<1>4. QED
  BY <1>1, <1>2, <1>3 DEF ClientNext

LEMMA UnmountedCallers ==
  ASSUME Callers, NEW S, Unmounted(S)
  PROVE  \A p \in Panes : view'[p] \in Owners
<1>1. QED
  BY DEF Callers, Unmounted, Owners

LEMMA NextCallers == Callers /\ [ClientNext]_clientvars => Callers'
<1> SUFFICES ASSUME Callers, [ClientNext]_clientvars PROVE Callers'
  OBVIOUS
<1>1. ASSUME NEW p \in Panes, PaneStep(p) PROVE Callers'
  <2>1. ASSUME NEW w \in Windows, Mount(p, w) PROVE Callers'
    BY <2>1 DEF Mount, Callers, Owners
  <2>2. ASSUME NEW w \in Windows, TearOff(p, w) PROVE Callers'
    BY <2>2, UnmountedCallers DEF TearOff, Callers, Owners
  <2>3. CASE \/ CtrlR(p) \/ DoSpawn(p) \/ SpawnRefused(p) \/ VaultRefused(p) \/ OnStatus(p)
             \/ OnSpawned(p) \/ OnSpawnFailed(p) \/ OnLost(p)
    BY <2>3 DEF CtrlR, DoSpawn, SpawnRefused, VaultRefused, OnStatus, OnSpawned,
                OnSpawnFailed, OnLost, Callers
  <2>4. CASE OnCleanExit(p) \/ UserCloses(p)
    BY <2>4, UnmountedCallers DEF OnCleanExit, UserCloses, ClosePane, Callers
  <2>5. CASE AdoptTab(p)
    BY <2>5 DEF AdoptTab, Callers, Owners
  <2>6. QED
    BY <1>1, <2>1, <2>2, <2>3, <2>4, <2>5 DEF PaneStep
<1>2. ASSUME NEW w \in Windows, CloseWindow(w) PROVE Callers'
  <2> DEFINE leaving == {p \in Panes : view[p] = w \/ moving[p] = w}
  <2>1. Unmounted(leaving)
    BY <1>2 DEF CloseWindow
  <2>2. \A p \in Panes : view'[p] \in Owners
    BY <2>1, UnmountedCallers
  <2>3. moving' = [p \in Panes |-> IF p \in leaving THEN None ELSE moving[p]]
    BY <1>2 DEF CloseWindow
  <2>4. QED
    BY <2>2, <2>3 DEF Callers, Owners
<1>3. ASSUME NEW b \in Backends,
             MainEstablished(b) \/ MainConnectFails(b) \/ MainExit(b)
      PROVE Callers'
  BY <1>3 DEF MainEstablished, MainConnectFails, MainExit, Callers
<1>4. CASE UNCHANGED clientvars
  BY <1>4 DEF clientvars, rvars, Callers
<1>5. QED
  BY <1>1, <1>2, <1>3, <1>4 DEF ClientNext

-----------------------------------------------------------------------------

(***************************************************************************)
(* The panes of the desktop windows, with their reconnect timers, tear-off *)
(* and teardown, refine the registry under any callers.                    *)
(***************************************************************************)
LEMMA ClientImplementsRegistry == ClientSpec => CSpec
<1>1. ClientInit => CInit
  BY InitCallers
<1>2. Callers /\ [ClientNext]_clientvars => [CNext]_cvars
  BY StepImplements DEF clientvars
<1>3. QED
  BY <1>1, <1>2, InitCallers, NextCallers, PTL DEF ClientSpec, CSpec

(***************************************************************************)
(* A pane that reconnects, is torn off or is opened twice never adopts a   *)
(* dead connection, whatever its user does and whenever it does it.        *)
(***************************************************************************)
THEOREM ClientListedAlwaysLive == ClientSpec => []ListedIsLive
<1>1. QED
  BY ClientImplementsRegistry, ListedAlwaysLive, PTL

-----------------------------------------------------------------------------
(* What a pane shows has something behind it.                              *)

(* The renderer's part of the type invariant.                              *)
RTypes ==
  /\ wins \in [Windows -> {"new", "open", "gone"}]
  /\ view \in [Panes -> Owners]
  /\ moving \in [Panes -> Owners]
  /\ state \in [Panes -> States]
  /\ pending \in [Panes -> Nat]
  /\ attempts \in [Panes -> 0..MaxRetries]
  /\ inbox \in [Panes -> Seq(Messages)]

(* What a pane that shows "connected" has behind it.                       *)
Backed(p) ==
  \/ entry[p] # None
  \/ \E b \in Backends : conn[b] = "closing" /\ paneOf[b] = p

LastOf(p) == inbox[p][Len(inbox[p])]

Quiet(p) == inbox[p] = <<>> /\ pending[p] = 0

(***************************************************************************)
(* The inductive invariant. The last message on its way to a pane decides  *)
(* what it will show in the end, so the promise is made of that message:   *)
(* after "connecting" comes the end of an attempt, after "connected" the   *)
(* end of a connection, and nothing but "connected" comes just before the  *)
(* reply "ok".                                                             *)
(***************************************************************************)
NoView(p) == view[p] = None => Quiet(p)

LastTells(p) ==
  inbox[p] # <<>> =>
    /\ LastOf(p) = "connecting" => Connecting(p)
    /\ LastOf(p) \in {"connected", "ok"} => Backed(p)
    /\ LastOf(p) = "ok" /\ Len(inbox[p]) = 1 /\ state[p] = "connecting" => pending[p] > 0
    /\ LastOf(p) = "ok" /\ Len(inbox[p]) > 1 => inbox[p][Len(inbox[p]) - 1] = "connected"

ShownTells(p) ==
  view[p] # None /\ Quiet(p) =>
    /\ state[p] = "connecting" => Connecting(p)
    /\ state[p] = "connected" => Backed(p)

PaneInv(p) == NoView(p) /\ LastTells(p) /\ ShownTells(p)

ShownInv == RTypes /\ \A p \in Panes : PaneInv(p)

(* A step that takes neither the attempt nor the connection from p.        *)
Keeps(p) == (Connecting(p) => Connecting(p)') /\ (Backed(p) => Backed(p)')

-----------------------------------------------------------------------------
(* Four things can happen to a pane in a step.                             *)

(* Nothing that its view could see.                                        *)
LEMMA PaneSame ==
  ASSUME NEW p \in Panes, PaneInv(p), Keeps(p),
         view'[p] = view[p], state'[p] = state[p],
         pending'[p] = pending[p], inbox'[p] = inbox[p]
  PROVE  PaneInv(p)'
BY DEF PaneInv, NoView, LastTells, ShownTells, Quiet, LastOf, Keeps

(* Its view goes away.                                                     *)
LEMMA PaneUnmounted ==
  ASSUME NEW p \in Panes, view'[p] = None, pending'[p] = 0, inbox'[p] = <<>>
  PROVE  PaneInv(p)'
BY DEF PaneInv, NoView, LastTells, ShownTells, Quiet

(* It has a call to make, or shows an error, with its inbox as it was.     *)
LEMMA PaneCalls ==
  ASSUME NEW p \in Panes, RTypes, RTypes', PaneInv(p), Keeps(p),
         view'[p] # None, inbox'[p] = inbox[p],
         state'[p] = "error" \/ pending'[p] > 0
  PROVE  PaneInv(p)'
<1>1. pending'[p] \in Nat
  BY DEF RTypes
<1>2. QED
  BY <1>1 DEF PaneInv, NoView, LastTells, ShownTells, Quiet, LastOf, Keeps

(* It is sent messages, of which the last one tells the truth.             *)
LEMMA PaneSent ==
  ASSUME NEW p \in Panes, RTypes, NEW msgs \in Seq(Messages), msgs # <<>>,
         view'[p] # None, inbox'[p] = inbox[p] \o msgs,
         msgs[Len(msgs)] = "connecting" => Connecting(p)',
         msgs[Len(msgs)] \in {"connected", "ok"} => Backed(p)',
         msgs[Len(msgs)] = "ok" => Len(msgs) > 1 /\ msgs[Len(msgs) - 1] = "connected"
  PROVE  PaneInv(p)'
<1>1. /\ inbox[p] \in Seq(Messages) /\ Len(msgs) \in Nat /\ Len(msgs) > 0
      /\ inbox'[p] \in Seq(Messages)
      /\ Len(inbox'[p]) = Len(inbox[p]) + Len(msgs)
  BY DEF RTypes
<1>2. \A i \in 1..Len(msgs) : inbox'[p][Len(inbox[p]) + i] = msgs[i]
  BY <1>1
<1>3. LastOf(p)' = msgs[Len(msgs)]
  BY <1>1, <1>2 DEF LastOf
<1>4. inbox'[p] # <<>>
  BY <1>1
<1>5. LastOf(p)' = "ok" =>
        Len(inbox'[p]) > 1 /\ inbox'[p][Len(inbox'[p]) - 1] = "connected"
  <2> SUFFICES ASSUME LastOf(p)' = "ok"
               PROVE  Len(inbox'[p]) > 1 /\ inbox'[p][Len(inbox'[p]) - 1] = "connected"
    OBVIOUS
  <2>1. Len(msgs) > 1 /\ msgs[Len(msgs) - 1] = "connected"
    BY <1>3
  <2>2. inbox'[p][Len(inbox[p]) + (Len(msgs) - 1)] = msgs[Len(msgs) - 1]
    BY <1>1, <1>2, <2>1
  <2>3. Len(inbox[p]) + (Len(msgs) - 1) = Len(inbox'[p]) - 1
    BY <1>1
  <2>4. QED
    BY <1>1, <2>1, <2>2, <2>3
<1>6. LastTells(p)'
  BY <1>1, <1>3, <1>5 DEF LastTells
<1>7. NoView(p)' /\ ShownTells(p)'
  BY <1>4 DEF NoView, ShownTells, Quiet
<1>8. QED
  BY <1>6, <1>7 DEF PaneInv

LEMMA TailFacts ==
  ASSUME NEW T, NEW q \in Seq(T), q # <<>>
  PROVE  /\ q[1] = Head(q)
         /\ Tail(q) \in Seq(T) /\ Len(q) \in Nat \ {0} /\ Len(Tail(q)) = Len(q) - 1
         /\ \A i \in 1..(Len(q) - 1) : Tail(q)[i] = q[i + 1]
         /\ Len(q) = 1 => Tail(q) = <<>>
<1>1. /\ Tail(q) \in Seq(T) /\ Len(Tail(q)) = Len(q) - 1
      /\ \A i \in 1..Len(Tail(q)) : Tail(q)[i] = q[i + 1]
  BY HeadTailProperties
<1>2. Len(q) \in Nat \ {0}
  BY EmptySeq
<1>3. Len(q) = 1 => Tail(q) = <<>>
  <2>1. Tail(q) # <<>> => Len(Tail(q)) \in Nat \ {0}
    BY <1>1, EmptySeq
  <2>2. QED
    BY <1>1, <2>1
<1>4. q[1] = Head(q)
  BY <1>2
<1>5. QED
  BY <1>1, <1>2, <1>3, <1>4

(* It handles the oldest message.                                          *)
LEMMA PaneTook ==
  ASSUME NEW p \in Panes, NEW m \in Messages, RTypes, RTypes', PaneInv(p), Keeps(p),
         Take(p, m), view'[p] = view[p],
         \/ m \in PaneStatuses /\ state'[p] = m /\ pending'[p] = pending[p]
         \/ m = "ok" /\ state'[p] = state[p] /\ pending'[p] = pending[p]
         \/ /\ m \in {"failed", "exitLost"}
            /\ \/ state'[p] = "connecting" /\ pending'[p] = pending[p] + 1
               \/ state'[p] \in {"error", "disconnected"} /\ pending'[p] = pending[p]
  PROVE  PaneInv(p)'
<1>1. /\ view[p] # None /\ inbox[p] # <<>> /\ inbox[p] \in Seq(Messages)
      /\ inbox[p][1] = m /\ inbox'[p] = Tail(inbox[p])
      /\ pending[p] \in Nat /\ pending'[p] \in Nat /\ pending'[p] >= pending[p]
  BY DEF Take, RTypes
<1>2. CASE Len(inbox[p]) = 1
  <2>1. inbox'[p] = <<>> /\ LastOf(p) = m
    BY <1>1, <1>2, TailFacts DEF LastOf
  <2>2. NoView(p)' /\ LastTells(p)'
    BY <1>1, <2>1 DEF NoView, LastTells
  <2>3. ShownTells(p)'
    <3> SUFFICES ASSUME Quiet(p)'
                 PROVE  /\ state'[p] = "connecting" => Connecting(p)'
                        /\ state'[p] = "connected" => Backed(p)'
      BY DEF ShownTells
    <3>1. pending'[p] = 0 /\ pending[p] = 0
      BY <1>1 DEF Quiet
    <3>2. CASE m \in PaneStatuses
      BY <1>1, <2>1, <3>2 DEF PaneInv, LastTells, Keeps, PaneStatuses
    <3>3. CASE m = "ok"
      BY <1>1, <1>2, <2>1, <3>1, <3>3 DEF PaneInv, LastTells, Keeps, PaneStatuses
    <3>4. CASE m \in {"failed", "exitLost"}
      BY <1>1, <3>1, <3>4 DEF PaneStatuses
    <3>5. QED
      BY <3>2, <3>3, <3>4
  <2>4. QED
    BY <2>2, <2>3 DEF PaneInv
<1>3. CASE Len(inbox[p]) # 1
  <2> DEFINE q == inbox[p]
  <2>0. /\ Tail(q) \in Seq(Messages) /\ Len(q) \in Nat \ {0} /\ Len(Tail(q)) = Len(q) - 1
        /\ \A i \in 1..(Len(q) - 1) : Tail(q)[i] = q[i + 1]
    <3>1. q \in Seq(Messages) /\ q # <<>>
      BY <1>1
    <3> HIDE DEF q
    <3>2. QED
      BY <3>1, TailFacts
  <2>a. Len(q) # 1 /\ inbox'[p] = Tail(q)
    BY <1>1, <1>3, Zenon
  <2> HIDE DEF q
  <2>b. Len(q) > 1
    BY <2>0, <2>a
  <2>1. /\ Len(inbox[p]) \in Nat /\ Len(inbox[p]) > 1
        /\ inbox'[p] \in Seq(Messages) /\ Len(inbox'[p]) = Len(inbox[p]) - 1
        /\ \A i \in 1..(Len(inbox[p]) - 1) : inbox'[p][i] = inbox[p][i + 1]
    BY <2>0, <2>a, <2>b DEF q
  <2>2. LastOf(p)' = LastOf(p) /\ inbox'[p] # <<>>
    BY <2>1 DEF LastOf
  <2>3. LastOf(p) = "ok" => inbox[p][Len(inbox[p]) - 1] = "connected"
    BY <1>1, <2>1 DEF PaneInv, LastTells
  <2>4. LastOf(p)' = "ok" /\ Len(inbox'[p]) = 1 => m = "connected"
    BY <1>1, <2>1, <2>2, <2>3
  <2>5. LastOf(p)' = "ok" /\ Len(inbox'[p]) > 1 =>
          inbox'[p][Len(inbox'[p]) - 1] = "connected"
    <3>1. Len(inbox'[p]) > 1 =>
            inbox'[p][Len(inbox'[p]) - 1] = inbox[p][Len(inbox[p]) - 1]
      <4> SUFFICES ASSUME Len(inbox'[p]) > 1
                   PROVE  inbox'[p][Len(inbox'[p]) - 1] = inbox[p][Len(inbox[p]) - 1]
        OBVIOUS
      <4>1. Len(inbox'[p]) - 1 \in 1..(Len(inbox[p]) - 1)
        BY <2>1
      <4>2. (Len(inbox'[p]) - 1) + 1 = Len(inbox[p]) - 1
        BY <2>1
      <4>3. QED
        BY <2>1, <4>1, <4>2
    <3>2. QED
      BY <2>2, <2>3, <3>1
  <2>6. /\ LastOf(p)' = "connecting" => Connecting(p)'
        /\ LastOf(p)' \in {"connected", "ok"} => Backed(p)'
    BY <1>1, <2>2 DEF PaneInv, LastTells, Keeps
  <2>7. LastTells(p)'
    BY <2>4, <2>5, <2>6 DEF LastTells, PaneStatuses
  <2>8. NoView(p)' /\ ShownTells(p)'
    BY <1>1, <2>2 DEF NoView, ShownTells, Quiet
  <2>9. QED
    BY <2>7, <2>8 DEF PaneInv
<1>4. QED
  BY <1>2, <1>3

-----------------------------------------------------------------------------
(* The steps of one pane's instance.                                       *)

LEMMA KeepsAll == ASSUME UNCHANGED cvars PROVE \A q \in Panes : Keeps(q)
BY DEF cvars, Keeps, Connecting, Backed

(* kill() hurts no attempt, and what it takes off the registry is closing. *)
LEMMA KillKeeps ==
  ASSUME CInv, NEW S \in SUBSET Panes, KillPanes(S)
  PROVE  \A q \in Panes : Keeps(q)
<1> TAKE q \in Panes
<1>0. /\ entry \in [Panes -> Backends \cup {None}] /\ conn \in [Backends -> Transports]
      /\ paneOf' = paneOf
      /\ \A p \in Panes : entry[p] # None =>
           entry[p] \in Backends /\ conn[entry[p]] = "up" /\ paneOf[entry[p]] = p
  BY NoneAssumption DEF CInv, CTypeOK, ListedIsLive, KillPanes
<1>1. ASSUME Connecting(q) PROVE Connecting(q)'
  <2>1. PICK b \in Backends : conn[b] = "connecting" /\ paneOf[b] = q
    BY <1>1 DEF Connecting
  <2>2. \A p \in Panes : entry[p] # b
    BY <1>0, <2>1, NoneAssumption
  <2>3. conn'[b] = "connecting"
    BY <1>0, <2>1, <2>2 DEF KillPanes, Killed
  <2>4. QED
    BY <1>0, <2>1, <2>3 DEF Connecting
<1>2. ASSUME Backed(q) PROVE Backed(q)'
  <2>1. CASE entry[q] # None
    <3>1. CASE q \in S
      <4>1. entry[q] \in Backends /\ conn'[entry[q]] = "closing"
        BY <1>0, <2>1, <3>1 DEF KillPanes, Killed
      <4>2. QED
        BY <1>0, <2>1, <4>1 DEF Backed
    <3>2. CASE q \notin S
      BY <2>1, <3>2 DEF KillPanes, Backed
    <3>3. QED
      BY <3>1, <3>2
  <2>2. CASE \E b \in Backends : conn[b] = "closing" /\ paneOf[b] = q
    <3>1. PICK b \in Backends : conn[b] = "closing" /\ paneOf[b] = q
      BY <2>2
    <3>2. conn'[b] = "closing"
      BY <3>1 DEF KillPanes, Killed
    <3>3. QED
      BY <1>0, <3>1, <3>2 DEF Backed
  <2>3. QED
    BY <1>2, <2>1, <2>2 DEF Backed
<1>3. QED
  BY <1>1, <1>2 DEF Keeps

(* Only p's view could have seen this step.                                *)
LEMMA OthersSame ==
  ASSUME ShownInv, NEW p \in Panes, PaneInv(p)',
         \A q \in Panes \ {p} :
           /\ Keeps(q)
           /\ view'[q] = view[q] /\ state'[q] = state[q]
           /\ pending'[q] = pending[q] /\ inbox'[q] = inbox[q]
  PROVE  \A q \in Panes : PaneInv(q)'
<1> TAKE q \in Panes
<1>1. CASE q = p
  BY <1>1
<1>2. CASE q # p
  BY <1>2, PaneSame DEF ShownInv
<1>3. QED
  BY <1>1, <1>2

LEMMA SentIs ==
  ASSUME RTypes, NEW p \in Panes, NEW msgs \in Seq(Messages), inbox' = Sent(p, msgs)
  PROVE  /\ inbox' \in [Panes -> Seq(Messages)]
         /\ \A q \in Panes \ {p} : inbox'[q] = inbox[q]
         /\ view[p] = None => inbox' = inbox
         /\ view[p] # None => inbox'[p] = inbox[p] \o msgs
<1>1. inbox \in [Panes -> Seq(Messages)] /\ inbox[p] \o msgs \in Seq(Messages)
  BY DEF RTypes
<1>2. QED
  BY <1>1 DEF Sent

LEMMA InstanceCalls ==
  ASSUME ShownInv, NEW p \in Panes,
         \/ \E w \in Windows : Mount(p, w)
         \/ CtrlR(p) \/ VaultRefused(p) \/ AdoptTab(p)
  PROVE  ShownInv'
<1>0. RTypes /\ PaneInv(p) /\ pending[p] \in Nat
  BY DEF ShownInv, RTypes
<1>1. UNCHANGED <<cvars, inbox>>
  BY DEF Mount, CtrlR, VaultRefused, AdoptTab
<1>2. RTypes'
  <2>1. ASSUME NEW w \in Windows, Mount(p, w) PROVE RTypes'
    BY <1>0, <2>1 DEF RTypes, Mount, States, Owners
  <2>2. CASE CtrlR(p)
    <3>1. attempts' \in [Panes -> 0..MaxRetries]
      BY <1>0, <2>2, MaxRetriesAssumption DEF RTypes, CtrlR
    <3>2. pending' \in [Panes -> Nat]
      BY <1>0, <2>2 DEF RTypes, CtrlR
    <3>3. QED
      BY <1>0, <2>2, <3>1, <3>2 DEF RTypes, CtrlR, States
  <2>3. CASE VaultRefused(p)
    <3>1. pending' \in [Panes -> Nat]
      BY <1>0, <2>3 DEF RTypes, VaultRefused
    <3>2. QED
      BY <1>0, <2>3, <3>1 DEF RTypes, VaultRefused, States
  <2>4. CASE AdoptTab(p)
    BY <1>0, <2>4 DEF RTypes, AdoptTab, Owners
  <2>5. QED
    BY <2>1, <2>2, <2>3, <2>4
<1>3. /\ view'[p] # None
      /\ state'[p] = "error" \/ pending'[p] > 0
  BY <1>0, NoneAssumption
     DEF RTypes, Mount, CtrlR, VaultRefused, AdoptTab, PaneInv, NoView, Quiet
<1>4. \A q \in Panes : Keeps(q)
  BY <1>1, KeepsAll
<1>5. PaneInv(p)'
  BY <1>0, <1>1, <1>2, <1>3, <1>4, PaneCalls
<1>6. \A q \in Panes \ {p} :
         view'[q] = view[q] /\ state'[q] = state[q] /\ pending'[q] = pending[q]
  BY <1>0 DEF RTypes, Mount, CtrlR, VaultRefused, AdoptTab
<1>7. QED
  BY <1>1, <1>2, <1>4, <1>5, <1>6, OthersSame DEF ShownInv

(* The two messages that tell of a connection that is up.                 *)
LEMMA UpMessages ==
  /\ <<"connected", "ok">> \in Seq(Messages) /\ <<"connected", "ok">> # <<>>
  /\ Len(<<"connected", "ok">>) = 2
  /\ <<"connected", "ok">>[2] = "ok" /\ <<"connected", "ok">>[1] = "connected"
<1>1. "connected" \in Messages /\ "ok" \in Messages
  BY DEF Messages, PaneStatuses
<1>2. QED
  BY <1>1

LEMMA InstanceSpawns ==
  ASSUME ShownInv, CTypeOK, NEW p \in Panes, DoSpawn(p) \/ SpawnRefused(p)
  PROVE  ShownInv'
<1>0. /\ RTypes /\ pending[p] \in Nat /\ pending[p] > 0 /\ view[p] # None
      /\ pending' = [pending EXCEPT ![p] = @ - 1]
      /\ UNCHANGED <<wins, view, moving, state, attempts>>
  BY DEF ShownInv, RTypes, DoSpawn, SpawnRefused, PaneInv, NoView, Quiet
<1>1. SUFFICES ASSUME NEW msgs \in Seq(Messages), inbox' = Sent(p, msgs), msgs # <<>>,
                      msgs[Len(msgs)] = "connecting" => Connecting(p)',
                      msgs[Len(msgs)] \in {"connected", "ok"} => Backed(p)',
                      msgs[Len(msgs)] = "ok" =>
                        Len(msgs) > 1 /\ msgs[Len(msgs) - 1] = "connected",
                      \A q \in Panes : Keeps(q)
               PROVE  ShownInv'
  <2>1. CASE SpawnRefused(p)
    <3>1. <<"failed">> \in Seq(Messages)
      BY DEF Messages
    <3>2. inbox' = Sent(p, <<"failed">>) /\ \A q \in Panes : Keeps(q)
      BY <2>1, KeepsAll DEF SpawnRefused
    <3>3. QED
      BY <1>1, <3>1, <3>2
  <2>2. CASE DoSpawn(p) /\ SpawnAdopt(p, view[p]) /\ inbox' = Sent(p, <<"connected", "ok">>)
    <3> DEFINE up == <<"connected", "ok">>
    <3>1. /\ up \in Seq(Messages) /\ up # <<>> /\ Len(up) = 2 /\ Len(up) - 1 = 1
          /\ up[2] = "ok" /\ up[1] = "connected"
      BY UpMessages
    <3>2. Backed(p)' /\ \A q \in Panes : Keeps(q)
      BY <2>2 DEF SpawnAdopt, Backed, Keeps, Connecting
    <3>3. inbox' = Sent(p, up)
      BY <2>2
    <3> HIDE DEF up
    <3>4. QED
      BY <1>1, <3>1, <3>2, <3>3
  <2>3. ASSUME NEW b \in Backends, SpawnLocal(p, view[p], b),
               inbox' = Sent(p, <<"connected", "ok">>)
        PROVE  ShownInv'
    <3> DEFINE up == <<"connected", "ok">>
    <3>1. /\ up \in Seq(Messages) /\ up # <<>> /\ Len(up) = 2 /\ Len(up) - 1 = 1
          /\ up[2] = "ok" /\ up[1] = "connected"
      BY UpMessages
    <3>2. Backed(p)'
      BY <2>3, NoneAssumption DEF SpawnLocal, Register, CTypeOK, Backed
    <3>3. \A q \in Panes : Keeps(q)
      BY <2>3, NoneAssumption DEF SpawnLocal, Register, CTypeOK, Backed, Keeps, Connecting
    <3>4. inbox' = Sent(p, up)
      BY <2>3
    <3> HIDE DEF up
    <3>5. QED
      BY <1>1, <3>1, <3>2, <3>3, <3>4
  <2>4. ASSUME NEW b \in Backends, SpawnBegin(p, view[p], b),
               inbox' = Sent(p, <<"connecting">>)
        PROVE  ShownInv'
    <3>1. <<"connecting">> \in Seq(Messages)
      BY DEF Messages, PaneStatuses
    <3>2. Connecting(p)'
      BY <2>4 DEF SpawnBegin, CTypeOK, Connecting
    <3>3. \A q \in Panes : Keeps(q)
      BY <2>4 DEF SpawnBegin, CTypeOK, Backed, Keeps, Connecting
    <3>4. QED
      BY <1>1, <2>4, <3>1, <3>2, <3>3
  <2>5. QED
    BY <2>1, <2>2, <2>3, <2>4 DEF DoSpawn
<1>2. /\ inbox' \in [Panes -> Seq(Messages)] /\ inbox'[p] = inbox[p] \o msgs
      /\ \A q \in Panes \ {p} : inbox'[q] = inbox[q]
  BY <1>0, <1>1, SentIs
<1>3. PaneInv(p)'
  BY <1>0, <1>1, <1>2, PaneSent
<1>4. RTypes'
  <2>1. pending' \in [Panes -> Nat]
    BY <1>0 DEF RTypes
  <2>2. QED
    BY <1>0, <1>2, <2>1 DEF RTypes
<1>5. \A q \in Panes \ {p} : pending'[q] = pending[q]
  BY <1>0 DEF RTypes
<1>6. QED
  BY <1>0, <1>1, <1>2, <1>3, <1>4, <1>5, OthersSame DEF ShownInv

(* What handling m does to the pane's state and its calls.                 *)
Outcome(p, m) ==
  \/ m \in PaneStatuses /\ state'[p] = m /\ pending'[p] = pending[p]
  \/ m = "ok" /\ state'[p] = state[p] /\ pending'[p] = pending[p]
  \/ /\ m \in {"failed", "exitLost"}
     /\ \/ state'[p] = "connecting" /\ pending'[p] = pending[p] + 1
        \/ state'[p] \in {"error", "disconnected"} /\ pending'[p] = pending[p]

InstanceTypes ==
  /\ state \in [Panes -> States] /\ pending \in [Panes -> Nat]
  /\ attempts \in [Panes -> 0..MaxRetries]

LEMMA RetryTells ==
  ASSUME InstanceTypes, NEW p \in Panes, NEW m \in {"failed", "exitLost"},
         NEW s \in {"error", "disconnected"}, RetryOrShow(p, s)
  PROVE  /\ InstanceTypes' /\ Outcome(p, m)
         /\ \A q \in Panes \ {p} : state'[q] = state[q] /\ pending'[q] = pending[q]
<1>1. CASE p \notin Local /\ attempts[p] < MaxRetries
  <2>1. /\ attempts' = [attempts EXCEPT ![p] = @ + 1]
        /\ pending' = [pending EXCEPT ![p] = @ + 1]
        /\ state' = [state EXCEPT ![p] = "connecting"]
    BY <1>1 DEF RetryOrShow, Retry
  <2>2. attempts' \in [Panes -> 0..MaxRetries]
    BY <1>1, <2>1, MaxRetriesAssumption DEF InstanceTypes
  <2>3. pending' \in [Panes -> Nat] /\ pending'[p] = pending[p] + 1
    BY <2>1 DEF InstanceTypes
  <2>4. state' \in [Panes -> States] /\ state'[p] = "connecting"
    BY <2>1 DEF InstanceTypes, States
  <2>5. \A q \in Panes \ {p} : state'[q] = state[q] /\ pending'[q] = pending[q]
    BY <2>1 DEF InstanceTypes
  <2>6. QED
    BY <2>2, <2>3, <2>4, <2>5 DEF InstanceTypes, Outcome
<1>2. CASE ~(p \notin Local /\ attempts[p] < MaxRetries)
  <2>1. state' = [state EXCEPT ![p] = s] /\ pending' = pending /\ attempts' = attempts
    BY <1>2 DEF RetryOrShow
  <2>2. state' \in [Panes -> States] /\ state'[p] = s
    BY <2>1 DEF InstanceTypes, States
  <2>3. QED
    BY <2>1, <2>2 DEF InstanceTypes, Outcome
<1>3. QED
  BY <1>1, <1>2

LEMMA InstanceHandles ==
  ASSUME ShownInv, NEW p \in Panes,
         OnStatus(p) \/ OnSpawned(p) \/ OnSpawnFailed(p) \/ OnLost(p)
  PROVE  ShownInv'
<1>0. RTypes /\ PaneInv(p) /\ InstanceTypes /\ inbox \in [Panes -> Seq(Messages)]
  BY DEF ShownInv, RTypes, InstanceTypes
<1>1. UNCHANGED <<cvars, wins, view, moving>>
  BY DEF OnStatus, OnSpawned, OnSpawnFailed, OnLost
<1>2. PICK m \in Messages :
        /\ Take(p, m) /\ InstanceTypes' /\ Outcome(p, m)
        /\ \A q \in Panes \ {p} : state'[q] = state[q] /\ pending'[q] = pending[q]
  <2>1. CASE OnStatus(p)
    <3>1. PICK s \in PaneStatuses : /\ Take(p, s) /\ state' = [state EXCEPT ![p] = s]
                                /\ pending' = pending /\ attempts' = attempts
      BY <2>1 DEF OnStatus
    <3>2. s \in Messages /\ s \in States
      BY DEF Messages, PaneStatuses, States
    <3>3. QED
      BY <1>0, <3>1, <3>2 DEF InstanceTypes, Outcome
  <2>2. CASE OnSpawned(p)
    <3>1. /\ Take(p, "ok") /\ attempts' = [attempts EXCEPT ![p] = 0]
          /\ state' = state /\ pending' = pending
      BY <2>2 DEF OnSpawned
    <3>2. attempts' \in [Panes -> 0..MaxRetries]
      BY <1>0, <3>1, MaxRetriesAssumption DEF InstanceTypes
    <3>3. "ok" \in Messages
      BY DEF Messages
    <3>4. QED
      BY <1>0, <3>1, <3>2, <3>3 DEF InstanceTypes, Outcome
  <2>3. CASE OnSpawnFailed(p)
    <3>1. Take(p, "failed") /\ RetryOrShow(p, "error") /\ "failed" \in Messages
      BY <2>3 DEF OnSpawnFailed, Messages
    <3>2. QED
      BY <1>0, <3>1, RetryTells
  <2>4. CASE OnLost(p)
    <3>1. Take(p, "exitLost") /\ RetryOrShow(p, "disconnected") /\ "exitLost" \in Messages
      BY <2>4 DEF OnLost, Messages
    <3>2. QED
      BY <1>0, <3>1, RetryTells
  <2>5. QED
    BY <2>1, <2>2, <2>3, <2>4
<1>3. inbox[p] # <<>> /\ inbox' = [inbox EXCEPT ![p] = Tail(inbox[p])]
  BY <1>2 DEF Take
<1>4. Tail(inbox[p]) \in Seq(Messages)
  BY <1>0, <1>3, TailFacts
<1>5. inbox' \in [Panes -> Seq(Messages)] /\ \A q \in Panes \ {p} : inbox'[q] = inbox[q]
  BY <1>0, <1>3, <1>4
<1>6. RTypes'
  BY <1>0, <1>1, <1>2, <1>5 DEF RTypes, InstanceTypes
<1>7. \A q \in Panes : Keeps(q)
  BY <1>1, KeepsAll
<1>8. PaneInv(p)'
  BY <1>0, <1>1, <1>2, <1>6, <1>7, PaneTook, Zenon DEF Outcome
<1>9. QED
  BY <1>1, <1>2, <1>5, <1>6, <1>7, <1>8, OthersSame DEF ShownInv

-----------------------------------------------------------------------------
(* Views that go away.                                                     *)

LEMMA PanesUnmounted ==
  ASSUME ShownInv, NEW S \in SUBSET Panes, Unmounted(S),
         \A q \in Panes : Keeps(q),
         wins' \in [Windows -> {"new", "open", "gone"}],
         moving' \in [Panes -> Owners], state' \in [Panes -> States],
         \A q \in Panes \ S : state'[q] = state[q]
  PROVE  ShownInv'
<1>0. RTypes
  BY DEF ShownInv
<1>1. RTypes'
  <2>1. view' \in [Panes -> Owners]
    BY <1>0 DEF RTypes, Unmounted, Owners
  <2>2. pending' \in [Panes -> Nat]
    BY <1>0 DEF RTypes, Unmounted
  <2>3. attempts' \in [Panes -> 0..MaxRetries]
    BY <1>0, MaxRetriesAssumption DEF RTypes, Unmounted
  <2>4. inbox' \in [Panes -> Seq(Messages)]
    BY <1>0 DEF RTypes, Unmounted
  <2>5. QED
    BY <2>1, <2>2, <2>3, <2>4 DEF RTypes
<1>2. ASSUME NEW q \in Panes PROVE PaneInv(q)'
  <2>1. CASE q \in S
    BY <2>1, PaneUnmounted DEF Unmounted
  <2>2. CASE q \notin S
    <3>1. /\ view'[q] = view[q] /\ pending'[q] = pending[q] /\ inbox'[q] = inbox[q]
          /\ state'[q] = state[q] /\ PaneInv(q) /\ Keeps(q)
      BY <2>2 DEF Unmounted, ShownInv
    <3>2. QED
      BY <3>1, PaneSame
  <2>3. QED
    BY <2>1, <2>2
<1>3. QED
  BY <1>1, <1>2 DEF ShownInv

LEMMA ViewsGo ==
  ASSUME CInv, ShownInv,
         \/ \E p \in Panes : \/ OnCleanExit(p) \/ UserCloses(p)
                             \/ \E w \in Windows : TearOff(p, w)
         \/ \E w \in Windows : CloseWindow(w)
  PROVE  ShownInv'
<1>0. RTypes
  BY DEF ShownInv
<1>1. ASSUME NEW p \in Panes, ClosePane(p) PROVE ShownInv'
  <2>1. /\ Unmounted({p}) /\ KillPanes({p}) /\ {p} \in SUBSET Panes
        /\ state' = [state EXCEPT ![p] = "gone"] /\ wins' = wins /\ moving' = moving
    BY <1>1 DEF ClosePane
  <2>2. \A q \in Panes : Keeps(q)
    BY <2>1, KillKeeps
  <2>3. /\ state' \in [Panes -> States] /\ moving' \in [Panes -> Owners]
        /\ wins' \in [Windows -> {"new", "open", "gone"}]
        /\ \A q \in Panes \ {p} : state'[q] = state[q]
    BY <1>0, <2>1 DEF RTypes, States
  <2>4. QED
    BY <2>1, <2>2, <2>3, PanesUnmounted
<1>2. ASSUME NEW p \in Panes, NEW w \in Windows, TearOff(p, w) PROVE ShownInv'
  <2>1. /\ Unmounted({p}) /\ UNCHANGED cvars /\ state' = state /\ {p} \in SUBSET Panes
        /\ wins' = [wins EXCEPT ![w] = "open"] /\ moving' = [moving EXCEPT ![p] = w]
    BY <1>2 DEF TearOff
  <2>2. \A q \in Panes : Keeps(q)
    BY <2>1, KeepsAll
  <2>3. /\ state' \in [Panes -> States] /\ moving' \in [Panes -> Owners]
        /\ wins' \in [Windows -> {"new", "open", "gone"}]
    BY <1>0, <2>1 DEF RTypes, Owners
  <2>4. QED
    BY <2>1, <2>2, <2>3, PanesUnmounted
<1>3. ASSUME NEW w \in Windows, CloseWindow(w) PROVE ShownInv'
  <2> DEFINE leaving == {p \in Panes : view[p] = w \/ moving[p] = w}
  <2>1. /\ Unmounted(leaving) /\ KillPanes(IdsOwnedBy(w))
        /\ state' = [p \in Panes |-> IF p \in leaving THEN "gone" ELSE state[p]]
        /\ moving' = [p \in Panes |-> IF p \in leaving THEN None ELSE moving[p]]
        /\ wins' = [wins EXCEPT ![w] = "gone"]
    BY <1>3 DEF CloseWindow
  <2>2. leaving \in SUBSET Panes /\ IdsOwnedBy(w) \in SUBSET Panes
    BY DEF IdsOwnedBy
  <2> HIDE DEF leaving
  <2>3. \A q \in Panes : Keeps(q)
    BY <2>1, <2>2, KillKeeps
  <2>4. /\ state' \in [Panes -> States] /\ moving' \in [Panes -> Owners]
        /\ wins' \in [Windows -> {"new", "open", "gone"}]
        /\ \A q \in Panes \ leaving : state'[q] = state[q]
    BY <1>0, <2>1 DEF RTypes, States, Owners
  <2>5. QED
    BY <2>1, <2>2, <2>3, <2>4, PanesUnmounted
<1>4. QED
  BY <1>1, <1>2, <1>3 DEF OnCleanExit, UserCloses

-----------------------------------------------------------------------------
(* The main process's side.                                                *)

(* p is told of the end of its attempt or its connection.                  *)
LEMMA PaneTold ==
  ASSUME ShownInv, NEW p \in Panes, NEW msgs \in Seq(Messages), msgs # <<>>,
         inbox' = Sent(p, msgs),
         UNCHANGED <<wins, view, moving, state, pending, attempts>>,
         msgs[Len(msgs)] # "connecting",
         msgs[Len(msgs)] \in {"connected", "ok"} => Backed(p)',
         msgs[Len(msgs)] = "ok" => Len(msgs) > 1 /\ msgs[Len(msgs) - 1] = "connected",
         \A q \in Panes \ {p} : Keeps(q)
  PROVE  ShownInv'
<1>0. RTypes /\ PaneInv(p)
  BY DEF ShownInv
<1>1. /\ inbox' \in [Panes -> Seq(Messages)]
      /\ \A q \in Panes \ {p} : inbox'[q] = inbox[q]
      /\ view[p] = None => inbox' = inbox
      /\ view[p] # None => inbox'[p] = inbox[p] \o msgs
  BY <1>0, SentIs
<1>2. RTypes'
  BY <1>0, <1>1 DEF RTypes
<1>3. CASE view[p] = None
  <2>1. view'[p] = None /\ pending'[p] = 0 /\ inbox'[p] = <<>>
    BY <1>0, <1>1, <1>3 DEF PaneInv, NoView, Quiet
  <2>2. PaneInv(p)'
    BY <2>1, PaneUnmounted
  <2>3. QED
    BY <1>1, <1>2, <2>2, OthersSame DEF ShownInv
<1>4. CASE view[p] # None
  <2>1. PaneInv(p)'
    BY <1>0, <1>1, <1>4, PaneSent
  <2>2. QED
    BY <1>1, <1>2, <2>1, OthersSame DEF ShownInv
<1>5. QED
  BY <1>3, <1>4

(* What the window hears of an end that is not its own doing ends in none  *)
(* of the messages that promise something.                                 *)
EndsWell(msgs) ==
  /\ msgs \in Seq(Messages) /\ msgs # <<>>
  /\ msgs[Len(msgs)] \in {"failed", "exitClean", "exitLost", "disconnected"}

LEMMA EndMessages ==
  /\ EndsWell(<<"exitClean">>) /\ EndsWell(<<"exitLost">>)
  /\ EndsWell(<<"error", "exitLost">>) /\ EndsWell(<<"error", "failed">>)
  /\ EndsWell(<<"exitClean", "disconnected">>) /\ EndsWell(<<"error", "exitLost", "disconnected">>)
  /\ EndsWell(<<"error", "error", "failed", "exitLost">>)
<1>1. {"exitClean", "exitLost", "disconnected", "failed", "error"} \subseteq Messages
  BY DEF Messages, PaneStatuses
<1>2. EndsWell(<<"exitClean">>) /\ EndsWell(<<"exitLost">>)
  BY <1>1 DEF EndsWell
<1>3. EndsWell(<<"error", "exitLost">>) /\ EndsWell(<<"error", "failed">>)
  BY <1>1 DEF EndsWell
<1>4. EndsWell(<<"exitClean", "disconnected">>) /\ EndsWell(<<"error", "exitLost", "disconnected">>)
  BY <1>1 DEF EndsWell
<1>5. EndsWell(<<"error", "error", "failed", "exitLost">>)
  BY <1>1 DEF EndsWell
<1>6. QED
  BY <1>2, <1>3, <1>4, <1>5

(* An attempt or a connection of p ends: the other panes' stay.            *)
LEMMA EndKeeps ==
  ASSUME CTypeOK, NEW b \in Backends, NEW p \in Panes, paneOf[b] = p,
         conn' = [conn EXCEPT ![b] = "closed"], paneOf' = paneOf,
         \A q \in Panes \ {p} : entry'[q] = entry[q]
  PROVE  \A q \in Panes \ {p} : Keeps(q)
BY DEF CTypeOK, Keeps, Connecting, Backed

LEMMA MainReports ==
  ASSUME CInv, ShownInv, NEW b \in Backends,
         MainEstablished(b) \/ MainConnectFails(b) \/ MainExit(b)
  PROVE  ShownInv'
<1>0. /\ CTypeOK /\ UNCHANGED <<wins, view, moving, state, pending, attempts>>
      /\ UNCHANGED paneOf /\ conn \in [Backends -> Transports]
      /\ entry \in [Panes -> Backends \cup {None}]
  BY DEF CInv, CTypeOK, MainEstablished, MainConnectFails, MainExit,
         Established, ConnectFails, Exit
<1>1. PICK p \in Panes : paneOf[b] = p
  BY DEF CInv, CTypeOK, MainEstablished, MainConnectFails, MainExit,
         Established, ConnectFails, Exit
<1>2. CASE MainEstablished(b)
  <2> DEFINE up == <<"connected", "ok">>
  <2>1. /\ up \in Seq(Messages) /\ up # <<>> /\ Len(up) = 2 /\ Len(up) - 1 = 1
        /\ up[2] = "ok" /\ up[1] = "connected"
    BY UpMessages
  <2>2. inbox' = Sent(p, up)
    BY <1>1, <1>2 DEF MainEstablished
  <2>3. /\ conn[b] = "connecting" /\ conn' = [conn EXCEPT ![b] = "up"]
        /\ entry' = [entry EXCEPT ![p] = b]
    BY <1>1, <1>2 DEF MainEstablished, Established, Register
  <2> HIDE DEF up
  <2>4. Backed(p)'
    BY <1>0, <1>1, <2>3, NoneAssumption DEF Backed
  <2>5. ASSUME NEW q \in Panes \ {p} PROVE Keeps(q)
    <3>1. \A c \in Backends : paneOf[c] = q => c # b /\ conn'[c] = conn[c]
      BY <1>0, <1>1, <2>3
    <3>2. entry'[q] = entry[q]
      BY <1>0, <2>3
    <3>3. QED
      BY <1>0, <3>1, <3>2 DEF Keeps, Connecting, Backed
  <2>6. QED
    BY <1>0, <1>1, <2>1, <2>2, <2>4, <2>5, PaneTold
<1>3. CASE MainConnectFails(b) \/ MainExit(b)
  <2>1. PICK msgs : inbox' = Sent(p, msgs) /\ EndsWell(msgs)
    BY <1>1, <1>3, EndMessages DEF MainConnectFails, MainExit, Reports
  <2>2. conn' = [conn EXCEPT ![b] = "closed"]
    BY <1>3 DEF MainConnectFails, MainExit, ConnectFails, Exit
  <2>3. \A q \in Panes \ {p} : entry'[q] = entry[q]
    BY <1>0, <1>1, <1>3 DEF MainConnectFails, MainExit, ConnectFails, Exit, PushExit, DropEntry
  <2>4. \A q \in Panes \ {p} : Keeps(q)
    BY <1>0, <1>1, <2>2, <2>3, EndKeeps
  <2>5. msgs[Len(msgs)] \notin {"connecting", "connected", "ok"}
    BY <2>1 DEF EndsWell
  <2>6. QED
    BY <1>0, <1>1, <2>1, <2>4, <2>5, PaneTold DEF EndsWell
<1>4. QED
  BY <1>2, <1>3

-----------------------------------------------------------------------------

LEMMA InitShown == ClientInit => ShownInv
<1> SUFFICES ASSUME ClientInit PROVE ShownInv
  OBVIOUS
<1>1. wins \in [Windows -> {"new", "open", "gone"}]
  BY DEF ClientInit
<1>2. RTypes
  BY <1>1, MaxRetriesAssumption DEF ClientInit, RTypes, Owners, States
<1>3. \A p \in Panes : PaneInv(p)
  BY DEF ClientInit, PaneInv, NoView, LastTells, ShownTells, Quiet
<1>4. QED
  BY <1>2, <1>3 DEF ShownInv

LEMMA NextShown == CInv /\ ShownInv /\ [ClientNext]_clientvars => ShownInv'
<1> SUFFICES ASSUME CInv, ShownInv, [ClientNext]_clientvars PROVE ShownInv'
  OBVIOUS
<1>1. ASSUME NEW p \in Panes, PaneStep(p) PROVE ShownInv'
  <2>1. CTypeOK
    BY DEF CInv
  <2>2. CASE (\E w \in Windows : Mount(p, w)) \/ CtrlR(p) \/ VaultRefused(p) \/ AdoptTab(p)
    BY <2>2, InstanceCalls
  <2>3. CASE DoSpawn(p) \/ SpawnRefused(p)
    BY <2>1, <2>3, InstanceSpawns
  <2>4. CASE OnStatus(p) \/ OnSpawned(p) \/ OnSpawnFailed(p) \/ OnLost(p)
    BY <2>4, InstanceHandles
  <2>5. CASE OnCleanExit(p) \/ UserCloses(p) \/ \E w \in Windows : TearOff(p, w)
    BY <2>5, ViewsGo
  <2>6. QED
    BY <1>1, <2>2, <2>3, <2>4, <2>5 DEF PaneStep
<1>2. ASSUME NEW w \in Windows, CloseWindow(w) PROVE ShownInv'
  BY <1>2, ViewsGo
<1>3. ASSUME NEW b \in Backends,
             MainEstablished(b) \/ MainConnectFails(b) \/ MainExit(b)
      PROVE  ShownInv'
  BY <1>3, MainReports
<1>4. CASE UNCHANGED clientvars
  <2>1. RTypes'
    BY <1>4 DEF clientvars, rvars, ShownInv, RTypes
  <2>2. \A q \in Panes : Keeps(q)
    BY <1>4, KeepsAll DEF clientvars
  <2>3. ASSUME NEW q \in Panes PROVE PaneInv(q)'
    BY <1>4, <2>2, PaneSame DEF clientvars, rvars, ShownInv
  <2>4. QED
    BY <2>1, <2>3 DEF ShownInv
<1>5. QED
  BY <1>1, <1>2, <1>3, <1>4 DEF ClientNext

(* The registry's invariant and the renderer's, together.                  *)
THEOREM ClientInductive == ClientSpec => [](CInv /\ ShownInv)
<1>1. ClientSpec => []CInv
  BY ClientImplementsRegistry, RegistryInductive, PTL
<1>2. QED
  BY <1>1, InitShown, NextShown, PTL DEF ClientSpec

(***************************************************************************)
(* The state keeps its shape; in it, scheduleReconnect never counts past   *)
(* the retry budget of the settings.                                       *)
(***************************************************************************)
THEOREM ClientTypeCorrect == ClientSpec => []ClientTypeOK
<1>1. CInv /\ ShownInv => ClientTypeOK
  BY DEF CInv, ShownInv, RTypes, ClientTypeOK
<1>2. QED
  BY <1>1, ClientInductive, PTL

(***************************************************************************)
(* useTerminal never leaves a pane at "connecting" with no timer, attempt, *)
(* event or reply to move it on, whatever its user and its peer do.        *)
(***************************************************************************)
THEOREM ConnectingAlwaysBacked == ClientSpec => []ConnectingIsBacked
<1>1. CInv /\ ShownInv => ConnectingIsBacked
  <2> SUFFICES ASSUME ShownInv, NEW p \in Panes, view[p] # None, state[p] = "connecting"
               PROVE  pending[p] > 0 \/ inbox[p] # <<>> \/ Connecting(p)
    BY DEF ConnectingIsBacked
  <2>1. pending[p] \in Nat /\ ShownTells(p)
    BY DEF ShownInv, RTypes, PaneInv
  <2>2. QED
    BY <2>1 DEF ShownTells, Quiet
<1>2. QED
  BY <1>1, ClientInductive, PTL

(***************************************************************************)
(* A pane that shows "connected" and has heard all it was sent has its     *)
(* entry, a call about to ask for one, or an exit to come: useTerminal     *)
(* hears of the end of every connection it has shown.                      *)
(***************************************************************************)
THEOREM ConnectedAlwaysBacked == ClientSpec => []ConnectedIsBacked
<1>1. CInv /\ ShownInv => ConnectedIsBacked
  <2> SUFFICES ASSUME ShownInv, NEW p \in Panes,
                      view[p] # None, state[p] = "connected", inbox[p] = <<>>
               PROVE  pending[p] > 0 \/ Backed(p)
    BY DEF ConnectedIsBacked, Backed
  <2>1. pending[p] \in Nat /\ ShownTells(p)
    BY DEF ShownInv, RTypes, PaneInv
  <2>2. QED
    BY <2>1 DEF ShownTells, Quiet
<1>2. QED
  BY <1>1, ClientInductive, PTL

-----------------------------------------------------------------------------
(* Hasty is FALSE: the registry, the log and the windows agree. A Telnet   *)
(* attempt that fails is reported twice, so that its pane may retry twice: *)
(* most of what follows is of the panes that are not Telnet ones, whatever *)
(* becomes of those that are.                                              *)

(* The messages after which an instance retries, gives up or closes.       *)
Ends == {"failed", "exitLost", "exitClean"}

EndsOf(q) == {i \in 1..Len(q) : q[i] \in Ends}

AtMostOne(S) == \A i, j \in S : i = j

Closing(p) == \E b \in Backends : conn[b] = "closing" /\ paneOf[b] = p

(* At most one thing leads to a pane's next connection: a call to be made, *)
(* an attempt, or a message that may make the instance retry; none does    *)
(* while it has a connection, except the call that adopts it.              *)
OneAhead(p) ==
  /\ pending[p] <= 1
  /\ pending[p] > 0 => ~Connecting(p) /\ EndsOf(inbox[p]) = {}
  /\ Connecting(p) => entry[p] = None /\ EndsOf(inbox[p]) = {}
  /\ EndsOf(inbox[p]) # {} => entry[p] = None
  /\ Closing(p) => entry[p] = None /\ ~Connecting(p) /\ Quiet(p) /\ moving[p] = None
  /\ AtMostOne(EndsOf(inbox[p]))

(* A pane is in one window or on its way to one, and both are open; so is  *)
(* the window that owns its connection, which need not be the one it is in.*)
Housed(p) ==
  /\ view[p] # None => wins[view[p]] = "open" /\ moving[p] = None
  /\ view[p] = None => Quiet(p)
  /\ moving[p] # None => wins[moving[p]] = "open" /\ ~Connecting(p)
  /\ entry[p] # None => owner[p] # None /\ wins[owner[p]] = "open"
  /\ state[p] = "new" => /\ ~Closing(p) /\ ~Connecting(p)
                         /\ entry[p] = None /\ view[p] = None /\ moving[p] = None

CalmPane(p) == (p \notin Telnet => OneAhead(p)) /\ Housed(p)

(* No attempt and no end of a connection has its like for the same pane; a *)
(* transport that is up is its pane's entry, and has the only open row.    *)
(* Whoever asked for an attempt that is under way is there.                *)
Booked ==
  /\ \A b, c \in Backends :
       paneOf[b] \notin Telnet /\ conn[b] \in {"connecting", "closing"}
         /\ conn[c] = conn[b] /\ paneOf[b] = paneOf[c] => b = c
  /\ \A b \in Backends : paneOf[b] \notin Telnet =>
       /\ conn[b] = "up" => entry[paneOf[b]] = b
       /\ log[b] = "open" => conn[b] = "up"
  /\ \A b \in Backends :
       /\ conn[b] = "unused" => log[b] # "open"
       /\ conn[b] = "connecting" => askedBy[b] # None /\ wins[askedBy[b]] = "open"

CalmInv == Booked /\ \A p \in Panes : CalmPane(p)

(* What the messages of a pane may be while a step adds to them or takes   *)
(* one away.                                                               *)
LEMMA EndsAppended ==
  ASSUME NEW q \in Seq(Messages), NEW m \in Seq(Messages)
  PROVE  /\ EndsOf(q \o m) = {} <=> EndsOf(q) = {} /\ EndsOf(m) = {}
         /\ EndsOf(m) = {} /\ AtMostOne(EndsOf(q)) => AtMostOne(EndsOf(q \o m))
         /\ EndsOf(q) = {} /\ AtMostOne(EndsOf(m)) => AtMostOne(EndsOf(q \o m))
<1>1. /\ Len(q) \in Nat /\ Len(m) \in Nat
      /\ Len(q \o m) = Len(q) + Len(m)
      /\ \A i \in 1..Len(q) : (q \o m)[i] = q[i]
      /\ \A i \in 1..Len(m) : (q \o m)[Len(q) + i] = m[i]
  OBVIOUS
<1>2. \A i \in 1..Len(q \o m) :
        i \in EndsOf(q \o m) <=> \/ i \in 1..Len(q) /\ i \in EndsOf(q)
                                 \/ i - Len(q) \in 1..Len(m) /\ i - Len(q) \in EndsOf(m)
  <2> TAKE i \in 1..Len(q \o m)
  <2>1. CASE i \in 1..Len(q)
    BY <1>1, <2>1 DEF EndsOf
  <2>2. CASE i - Len(q) \in 1..Len(m)
    <3>1. i = Len(q) + (i - Len(q)) /\ i \notin 1..Len(q)
      BY <1>1, <2>2
    <3>2. (q \o m)[i] = m[i - Len(q)]
      BY <1>1, <2>2, <3>1
    <3>3. QED
      BY <2>2, <3>1, <3>2 DEF EndsOf
  <2>3. QED
    BY <1>1, <2>1, <2>2
<1>3. EndsOf(q \o m) = {} <=> EndsOf(q) = {} /\ EndsOf(m) = {}
  <2>1. ASSUME NEW i \in EndsOf(q) PROVE i \in EndsOf(q \o m)
    BY <1>1, <2>1 DEF EndsOf
  <2>2. ASSUME NEW i \in EndsOf(m) PROVE Len(q) + i \in EndsOf(q \o m)
    BY <1>1, <2>2 DEF EndsOf
  <2>3. EndsOf(q \o m) \subseteq 1..Len(q \o m)
    BY DEF EndsOf
  <2>4. QED
    BY <1>2, <2>1, <2>2, <2>3
<1>4. \A i, j \in EndsOf(q \o m) :
        /\ i \in Int /\ j \in Int /\ Len(q) \in Int
        /\ EndsOf(m) = {} => i \in EndsOf(q) /\ j \in EndsOf(q)
        /\ EndsOf(q) = {} => i - Len(q) \in EndsOf(m) /\ j - Len(q) \in EndsOf(m)
  <2>1. EndsOf(q \o m) \subseteq 1..Len(q \o m)
    BY DEF EndsOf
  <2>2. QED
    BY <1>1, <1>2, <2>1
<1>5. QED
  BY <1>3, <1>4 DEF AtMostOne

LEMMA EndsTaken ==
  ASSUME NEW q \in Seq(Messages), q # <<>>
  PROVE  /\ AtMostOne(EndsOf(q)) => AtMostOne(EndsOf(Tail(q)))
         /\ EndsOf(q) = {} => EndsOf(Tail(q)) = {} /\ Head(q) \notin Ends
         /\ Head(q) \in Ends /\ AtMostOne(EndsOf(q)) => EndsOf(Tail(q)) = {}
<1>1. /\ q[1] = Head(q)
      /\ Tail(q) \in Seq(Messages) /\ Len(q) \in Nat \ {0} /\ Len(Tail(q)) = Len(q) - 1
      /\ \A i \in 1..(Len(q) - 1) : Tail(q)[i] = q[i + 1]
  BY TailFacts
<1>2. ASSUME NEW i \in EndsOf(Tail(q)) PROVE i \in Int /\ i > 0 /\ i + 1 \in EndsOf(q)
  BY <1>1, <1>2 DEF EndsOf
<1>3. Head(q) \in Ends <=> 1 \in EndsOf(q)
  BY <1>1 DEF EndsOf
<1>4. QED
  BY <1>2, <1>3 DEF AtMostOne

(* The reports of the main process.                                        *)
LEMMA EndsSent ==
  /\ \A m \in {<<"connected", "ok">>, <<"connecting">>} : m \in Seq(Messages) /\ EndsOf(m) = {}
  /\ \A m \in {<<"failed">>, <<"error", "failed">>, <<"exitClean">>, <<"error", "exitLost">>,
               <<"exitClean", "disconnected">>, <<"exitLost">>,
               <<"error", "exitLost", "disconnected">>} :
       m \in Seq(Messages) /\ AtMostOne(EndsOf(m))
<1>1. ASSUME NEW m \in {<<"connected", "ok">>, <<"connecting">>}
      PROVE  m \in Seq(Messages) /\ EndsOf(m) = {}
  <2>1. CASE m = <<"connected", "ok">>
    BY <2>1 DEF EndsOf, Ends, Messages, PaneStatuses
  <2>2. CASE m = <<"connecting">>
    BY <2>2 DEF EndsOf, Ends, Messages, PaneStatuses
  <2>3. QED
    BY <2>1, <2>2
<1>2. \A x \in Messages, y \in Messages, z \in Messages :
        /\ <<x>> \in Seq(Messages) /\ EndsOf(<<x>>) \subseteq {1}
        /\ <<x, y>> \in Seq(Messages)
        /\ x \notin Ends => EndsOf(<<x, y>>) \subseteq {2}
        /\ y \notin Ends => EndsOf(<<x, y>>) \subseteq {1}
        /\ <<x, y, z>> \in Seq(Messages)
        /\ x \notin Ends /\ z \notin Ends => EndsOf(<<x, y, z>>) \subseteq {2}
  BY DEF EndsOf
<1>3. {"failed", "error", "exitClean", "exitLost", "disconnected"} \subseteq Messages
  BY DEF Messages, PaneStatuses
<1>4. "error" \notin Ends /\ "disconnected" \notin Ends
  BY DEF Ends
<1>5. /\ AtMostOne(EndsOf(<<"failed">>)) /\ AtMostOne(EndsOf(<<"exitClean">>))
      /\ AtMostOne(EndsOf(<<"exitLost">>)) /\ AtMostOne(EndsOf(<<"error", "failed">>))
      /\ AtMostOne(EndsOf(<<"error", "exitLost">>))
      /\ AtMostOne(EndsOf(<<"exitClean", "disconnected">>))
      /\ AtMostOne(EndsOf(<<"error", "exitLost", "disconnected">>))
  <2>1. \A S : S \subseteq {1} \/ S \subseteq {2} => AtMostOne(S)
    BY DEF AtMostOne
  <2>2. /\ EndsOf(<<"failed">>) \subseteq {1} /\ EndsOf(<<"exitClean">>) \subseteq {1}
        /\ EndsOf(<<"exitLost">>) \subseteq {1} /\ EndsOf(<<"error", "failed">>) \subseteq {2}
        /\ EndsOf(<<"error", "exitLost">>) \subseteq {2}
        /\ EndsOf(<<"exitClean", "disconnected">>) \subseteq {1}
        /\ EndsOf(<<"error", "exitLost", "disconnected">>) \subseteq {2}
    BY <1>2, <1>3, <1>4
  <2>3. QED
    BY <2>1, <2>2
<1>6. QED
  BY <1>1, <1>2, <1>3, <1>5

(* What no step of another pane can change for q.                          *)
LEMMA OtherCalm ==
  ASSUME NEW q \in Panes, CalmPane(q),
         view'[q] = view[q], moving'[q] = moving[q], state'[q] = state[q],
         pending'[q] = pending[q], inbox'[q] = inbox[q],
         entry'[q] = entry[q], owner'[q] = owner[q],
         Connecting(q)' <=> Connecting(q), Closing(q)' <=> Closing(q),
         \A w \in {view[q], moving[q], owner[q]} \ {None} : wins[w] = "open" => wins'[w] = "open"
  PROVE  CalmPane(q)'
<1>1. q \notin Telnet => OneAhead(q)'
  BY DEF CalmPane, OneAhead, Quiet
<1>2. Housed(q)'
  BY DEF CalmPane, Housed, Quiet
<1>3. QED
  BY <1>1, <1>2 DEF CalmPane

(* A backend of p that moves on is no other pane's.                        *)
LEMMA OneBackendMoves ==
  ASSUME CTypeOK, NEW b \in Backends, NEW p \in Panes,
         conn[b] = "unused" \/ paneOf[b] = p, paneOf'[b] = p,
         \A c \in Backends \ {b} : conn'[c] = conn[c] /\ paneOf'[c] = paneOf[c]
  PROVE  \A q \in Panes \ {p} :
           (Connecting(q)' <=> Connecting(q)) /\ (Closing(q)' <=> Closing(q))
<1> TAKE q \in Panes \ {p}
<1>1. \A c \in Backends :
        /\ conn'[c] = "connecting" /\ paneOf'[c] = q <=> conn[c] = "connecting" /\ paneOf[c] = q
        /\ conn'[c] = "closing" /\ paneOf'[c] = q <=> conn[c] = "closing" /\ paneOf[c] = q
  OBVIOUS
<1>2. QED
  BY <1>1 DEF Connecting, Closing

(* Killing panes that nothing is under way for.                            *)
LEMMA SettledKilled ==
  ASSUME CInv, RTypes, CalmInv, NEW S \in SUBSET Panes, KillPanes(S),
         \A b \in Backends : conn[b] = "connecting" => wins'[askedBy[b]] = wins[askedBy[b]]
  PROVE  /\ Booked'
         /\ \A q \in Panes :
              /\ Connecting(q)' <=> Connecting(q)
              /\ Closing(q)' <=> Closing(q) \/ (q \in S /\ entry[q] # None)
<1>0. /\ CTypeOK /\ ListedIsLive /\ Booked /\ UNCHANGED <<paneOf, askedBy>>
      /\ \A p \in Panes : entry[p] # None =>
           entry[p] \in Backends /\ conn[entry[p]] = "up" /\ paneOf[entry[p]] = p
      /\ \A p \in Panes \ Telnet : entry[p] # None => ~Closing(p)
  BY DEF CInv, CTypeOK, ListedIsLive, CalmInv, CalmPane, OneAhead, KillPanes
<1>1. \A b \in Backends :
        /\ (\E p \in S : entry[p] = b) => conn'[b] = "closing" /\ log'[b] = "ended"
        /\ ~(\E p \in S : entry[p] = b) => conn'[b] = conn[b] /\ log'[b] = log[b]
  BY DEF KillPanes, Killed
<1>2. \A b \in Backends, p \in Panes :
        entry[p] = b => p = paneOf[b] /\ conn[b] = "up" /\ entry[p] # None
  BY <1>0, NoneAssumption
<1>3. \A b \in Backends : conn'[b] = "connecting" <=> conn[b] = "connecting"
  BY <1>1, <1>2
<1>4. \A b \in Backends : conn'[b] = "closing" <=>
        \/ conn[b] = "closing"
        \/ paneOf[b] \in S /\ entry[paneOf[b]] = b
  BY <1>1, <1>2
<1>5. \A q \in Panes :
        /\ Connecting(q)' <=> Connecting(q)
        /\ Closing(q)' <=> Closing(q) \/ (q \in S /\ entry[q] # None)
  BY <1>0, <1>3, <1>4, NoneAssumption DEF Connecting, Closing
<1>6. ASSUME NEW b \in Backends, NEW c \in Backends, paneOf[b] \notin Telnet,
             conn'[b] \in {"connecting", "closing"},
             conn'[c] = conn'[b], paneOf[b] = paneOf[c]
      PROVE  b = c
  <2>1. CASE conn'[b] = "connecting"
    BY <1>0, <1>3, <1>6, <2>1 DEF Booked
  <2>2. CASE conn[b] = "closing" /\ conn[c] = "closing"
    BY <1>0, <1>6, <2>2 DEF Booked
  <2>3. CASE conn'[b] = "closing" /\ ~(conn[b] = "closing" /\ conn[c] = "closing")
    <3>1. paneOf[b] \in S /\ entry[paneOf[b]] # None
      BY <1>4, <1>6, <2>3, NoneAssumption
    <3>2. ~Closing(paneOf[b])
      BY <1>0, <1>6, <3>1
    <3>3. conn[b] # "closing" /\ conn[c] # "closing"
      BY <1>6, <3>2 DEF Closing
    <3>4. QED
      BY <1>4, <1>6, <2>3, <3>3
  <2>4. QED
    BY <1>6, <2>1, <2>2, <2>3
<1>7. ASSUME NEW b \in Backends, paneOf[b] \notin Telnet
      PROVE  /\ conn'[b] = "up" => entry'[paneOf[b]] = b
             /\ log'[b] = "open" => conn'[b] = "up"
  <2>1. conn'[b] = "up" => conn[b] = "up" /\ entry[paneOf[b]] = b /\ paneOf[b] \in Panes \ S
    BY <1>0, <1>1, <1>4, <1>7 DEF Booked, CTypeOK
  <2>2. conn'[b] = "up" => entry'[paneOf[b]] = b
    BY <2>1 DEF KillPanes
  <2>3. log'[b] = "open" => conn'[b] = "up"
    BY <1>0, <1>1, <1>7 DEF Booked
  <2>4. QED
    BY <2>2, <2>3
<1>8. \A b \in Backends :
        /\ conn'[b] = "unused" => log'[b] # "open"
        /\ conn'[b] = "connecting" => askedBy[b] # None /\ wins'[askedBy[b]] = "open"
  BY <1>0, <1>1, <1>3 DEF Booked
<1>9. Booked'
  BY <1>0, <1>6, <1>7, <1>8 DEF Booked
<1>10. QED
  BY <1>5, <1>9

(* A step that leaves the main process alone.                              *)
LEMMA RendererBooked ==
  ASSUME CTypeOK, Booked, UNCHANGED cvars,
         \A w \in Windows : wins[w] = "open" => wins'[w] = "open"
  PROVE  /\ Booked'
         /\ \A q \in Panes :
              (Connecting(q)' <=> Connecting(q)) /\ (Closing(q)' <=> Closing(q))
<1>1. \A b \in Backends : askedBy[b] \in Windows \cup {None}
  BY DEF CTypeOK, Owners
<1>2. QED
  BY <1>1 DEF Booked, Connecting, Closing, cvars

(* Mount, Ctrl+R, VaultRefused, AdoptTab, TearOff.                         *)
LEMMA ViewCalm ==
  ASSUME ~Hasty, CInv, RTypes, CalmInv, NEW p \in Panes,
         \/ \E w \in Windows : Mount(p, w) \/ TearOff(p, w)
         \/ CtrlR(p) \/ VaultRefused(p) \/ AdoptTab(p)
  PROVE  CalmInv'
<1>0. /\ CTypeOK /\ Booked /\ CalmPane(p) /\ Housed(p)
      /\ p \notin Telnet => OneAhead(p)
      /\ pending[p] \in Nat /\ view[p] \in Owners /\ moving[p] \in Owners
  BY DEF CInv, CalmInv, CalmPane, RTypes
<1>1. UNCHANGED cvars
  BY DEF Mount, TearOff, CtrlR, VaultRefused, AdoptTab
<1>2. \A q \in Panes \ {p} :
        /\ view'[q] = view[q] /\ moving'[q] = moving[q] /\ state'[q] = state[q]
        /\ pending'[q] = pending[q] /\ inbox'[q] = inbox[q]
  BY DEF Mount, TearOff, CtrlR, VaultRefused, AdoptTab, Unmounted, RTypes
<1>3. \A w \in Windows : wins[w] = "open" => wins'[w] = "open"
  BY NoneAssumption DEF Mount, TearOff, CtrlR, VaultRefused, AdoptTab, RTypes
<1>5. /\ Booked'
      /\ \A q \in Panes : (Connecting(q)' <=> Connecting(q)) /\ (Closing(q)' <=> Closing(q))
  BY <1>0, <1>1, <1>3, RendererBooked
<1>6. /\ UNCHANGED <<entry, owner>> /\ owner \in [Panes -> Owners]
      /\ \A q \in Panes : view[q] \in Owners /\ moving[q] \in Owners
  BY <1>0, <1>1 DEF cvars, CTypeOK, RTypes
<1>7. CalmPane(p)'
  <2>1. ASSUME NEW w \in Windows, Mount(p, w) PROVE CalmPane(p)'
    <3>1. /\ view[p] = None /\ wins[w] = "open" /\ ~Connecting(p) /\ ~Closing(p) /\ Quiet(p)
          /\ moving[p] = None /\ entry[p] = None
          /\ view'[p] = w /\ pending'[p] = 1 /\ inbox' = inbox /\ wins' = wins
          /\ moving' = moving /\ state'[p] = "connecting" /\ w # None
      BY <1>0, <2>1, NoneAssumption DEF Mount, Housed, RTypes
    <3>2. EndsOf(inbox[p]) = {}
      BY <3>1 DEF Quiet, EndsOf
    <3>3. QED
      BY <1>5, <1>6, <3>1, <3>2 DEF CalmPane, OneAhead, Housed, AtMostOne, Quiet
  <2>2. ASSUME NEW w \in Windows, TearOff(p, w) PROVE CalmPane(p)'
    <3>1. /\ view[p] # None /\ ~Connecting(p) /\ ~Closing(p) /\ state[p] # "new"
          /\ view'[p] = None /\ pending'[p] = 0 /\ inbox'[p] = <<>> /\ state' = state
          /\ moving'[p] = w /\ wins'[w] = "open" /\ w # None
      BY <1>0, <2>2, NoneAssumption
         DEF TearOff, Unmounted, AtRest, Closing, Housed, RTypes
    <3>2. EndsOf(inbox'[p]) = {}
      BY <3>1 DEF EndsOf
    <3>3. QED
      BY <1>0, <1>3, <1>5, <1>6, <3>1, <3>2
         DEF CalmPane, OneAhead, Housed, AtMostOne, Quiet, Owners
  <2>3. CASE CtrlR(p)
    <3>1. /\ view[p] # None /\ ~Connecting(p) /\ ~Closing(p) /\ pending[p] = 0 /\ inbox[p] = <<>>
          /\ pending'[p] = 1 /\ state'[p] = "connecting"
          /\ UNCHANGED <<wins, view, moving, inbox>>
      BY <1>0, <2>3 DEF CtrlR, AtRest, Closing, RTypes
    <3>2. EndsOf(inbox[p]) = {}
      BY <3>1 DEF EndsOf
    <3>3. QED
      BY <1>0, <1>5, <1>6, <3>1, <3>2 DEF CalmPane, OneAhead, Housed, AtMostOne, Quiet
  <2>4. CASE VaultRefused(p)
    <3>1. /\ pending[p] > 0 /\ pending'[p] = pending[p] - 1 /\ state'[p] = "error"
          /\ UNCHANGED <<wins, view, moving, inbox>>
      BY <1>0, <2>4 DEF VaultRefused, RTypes
    <3>2. view[p] # None /\ (p \notin Telnet => ~Closing(p))
      BY <1>0, <3>1 DEF Housed, OneAhead, Quiet
    <3>3. p \notin Telnet => OneAhead(p)'
      BY <1>0, <1>5, <1>6, <3>1, <3>2 DEF OneAhead
    <3>4. QED
      BY <1>0, <1>5, <1>6, <3>1, <3>2, <3>3 DEF CalmPane, Housed
  <2>5. CASE AdoptTab(p)
    <3>1. /\ moving[p] # None /\ moving'[p] = None /\ view'[p] = moving[p] /\ pending'[p] = 1
          /\ UNCHANGED <<wins, state, inbox>>
      BY <1>0, <2>5 DEF AdoptTab, RTypes
    <3>2. /\ view[p] = None /\ Quiet(p) /\ ~Connecting(p) /\ wins[moving[p]] = "open"
          /\ p \notin Telnet => ~Closing(p)
      BY <1>0, <3>1 DEF Housed, OneAhead
    <3>3. EndsOf(inbox[p]) = {} /\ state[p] # "new"
      BY <1>0, <3>1, <3>2 DEF Quiet, EndsOf, Housed
    <3>4. QED
      BY <1>0, <1>5, <1>6, <3>1, <3>2, <3>3 DEF CalmPane, OneAhead, Housed, AtMostOne, Quiet
  <2>6. QED
    BY <2>1, <2>2, <2>3, <2>4, <2>5
<1>8. ASSUME NEW q \in Panes \ {p} PROVE CalmPane(q)'
  <2>1. CalmPane(q)
    BY DEF CalmInv
  <2>2. \A w \in {view[q], moving[q], owner[q]} \ {None} : wins[w] = "open" => wins'[w] = "open"
    BY <1>3, <1>6 DEF Owners
  <2>3. QED
    BY <1>2, <1>5, <1>6, <2>1, <2>2, OtherCalm
<1>9. QED
  BY <1>5, <1>7, <1>8 DEF CalmInv

(* DoSpawn and its refusal.                                                *)
LEMMA SpawnCalm ==
  ASSUME CInv, ShownInv, CalmInv, NEW p \in Panes, DoSpawn(p) \/ SpawnRefused(p)
  PROVE  CalmInv'
<1>0. /\ CTypeOK /\ ListedIsLive /\ RTypes /\ Booked /\ CalmPane(p) /\ Housed(p)
      /\ view[p] # None /\ view[p] \in Windows
      /\ wins[view[p]] = "open" /\ moving[p] = None /\ state[p] # "new"
      /\ inbox[p] \in Seq(Messages)
      /\ p \notin Telnet => /\ OneAhead(p) /\ pending'[p] = 0
                            /\ ~Connecting(p) /\ ~Closing(p) /\ EndsOf(inbox[p]) = {}
      /\ \A q \in Panes \ {p} : pending'[q] = pending[q]
      /\ UNCHANGED <<wins, view, moving, state>>
  <2>1. /\ CTypeOK /\ ListedIsLive /\ RTypes /\ Booked /\ CalmPane(p) /\ Housed(p)
        /\ p \notin Telnet => OneAhead(p)
    BY DEF CInv, ShownInv, CalmInv, CalmPane
  <2>2. /\ pending[p] > 0 /\ pending' = [pending EXCEPT ![p] = @ - 1]
        /\ UNCHANGED <<wins, view, moving, state>>
    BY DEF DoSpawn, SpawnRefused
  <2>3. pending[p] \in Nat /\ (p \notin Telnet => pending[p] = 1 /\ pending'[p] = 0)
    BY <2>1, <2>2 DEF RTypes, OneAhead
  <2>4. view[p] # None /\ view[p] \in Windows
    BY <2>1, <2>2, <2>3 DEF RTypes, Owners, Housed, Quiet
  <2>5. /\ wins[view[p]] = "open" /\ moving[p] = None /\ state[p] # "new"
        /\ p \notin Telnet => ~Connecting(p) /\ ~Closing(p) /\ EndsOf(inbox[p]) = {}
    BY <2>1, <2>2, <2>3, <2>4 DEF Housed, OneAhead, Quiet
  <2>6. QED
    BY <2>1, <2>2, <2>3, <2>4, <2>5 DEF RTypes
(* What is to be shown of p and of the others, given what the call did.    *)
<1>1. ASSUME Booked', NEW m \in Seq(Messages), inbox' = Sent(p, m),
             AtMostOne(EndsOf(m)),
             p \notin Telnet =>
               /\ EndsOf(m) # {} => entry'[p] = None /\ ~Connecting(p)'
               /\ Connecting(p)' => entry'[p] = None
               /\ ~Closing(p)',
             entry'[p] # None => owner'[p] = view[p] \/ (owner'[p] = owner[p] /\ entry[p] # None),
             \A q \in Panes \ {p} :
               /\ entry'[q] = entry[q] /\ owner'[q] = owner[q]
               /\ Connecting(q)' <=> Connecting(q)
               /\ Closing(q)' <=> Closing(q)
      PROVE  CalmInv'
  <2>1. inbox'[p] = inbox[p] \o m /\ \A q \in Panes \ {p} : inbox'[q] = inbox[q]
    BY <1>0, <1>1, SentIs
  <2>2. p \notin Telnet => /\ EndsOf(inbox'[p]) = {} <=> EndsOf(m) = {}
                           /\ AtMostOne(EndsOf(inbox'[p]))
    BY <1>0, <1>1, <2>1, EndsAppended
  <2>3. p \notin Telnet => OneAhead(p)'
    BY <1>0, <1>1, <2>2 DEF OneAhead
  <2>4. Housed(p)'
    BY <1>0, <1>1 DEF Housed
  <2>5. ASSUME NEW q \in Panes \ {p} PROVE CalmPane(q)'
    BY <1>0, <1>1, <2>1, OtherCalm DEF CalmInv
  <2>6. QED
    BY <1>1, <2>3, <2>4, <2>5 DEF CalmInv, CalmPane
<1>2. CASE SpawnRefused(p)
  <2>1. UNCHANGED cvars /\ entry[p] = None /\ inbox' = Sent(p, <<"failed">>)
    BY <1>2 DEF SpawnRefused
  <2>2. /\ Booked'
        /\ \A q \in Panes : (Connecting(q)' <=> Connecting(q)) /\ (Closing(q)' <=> Closing(q))
    BY <1>0, <2>1, RendererBooked
  <2>3. UNCHANGED <<entry, owner>>
    BY <2>1 DEF cvars
  <2>4. <<"failed">> \in Seq(Messages) /\ AtMostOne(EndsOf(<<"failed">>))
    BY EndsSent
  <2>5. QED
    BY <1>0, <1>1, <2>1, <2>2, <2>3, <2>4
<1>3. CASE DoSpawn(p) /\ SpawnAdopt(p, view[p]) /\ inbox' = Sent(p, <<"connected", "ok">>)
  <2>1. /\ entry[p] # None /\ owner' = [owner EXCEPT ![p] = view[p]]
        /\ UNCHANGED <<entry, conn, paneOf, askedBy, log>>
    BY <1>0, <1>3 DEF SpawnAdopt
  <2>2. Booked' /\ \A q \in Panes : (Connecting(q)' <=> Connecting(q)) /\ (Closing(q)' <=> Closing(q))
    BY <1>0, <2>1 DEF Booked, Connecting, Closing
  <2>3. owner'[p] = view[p] /\ \A q \in Panes \ {p} : owner'[q] = owner[q] /\ entry'[q] = entry[q]
    BY <1>0, <2>1 DEF CTypeOK
  <2>4. <<"connected", "ok">> \in Seq(Messages) /\ EndsOf(<<"connected", "ok">>) = {}
    BY EndsSent
  <2>5. AtMostOne(EndsOf(<<"connected", "ok">>))
    BY <2>4 DEF AtMostOne
  <2>6. QED
    BY <1>0, <1>1, <1>3, <2>1, <2>2, <2>3, <2>4, <2>5
<1>4. ASSUME NEW b \in Backends, SpawnLocal(p, view[p], b), inbox' = Sent(p, <<"connected", "ok">>)
      PROVE  CalmInv'
  <2>1. /\ entry[p] = None /\ conn[b] = "unused" /\ p \notin Telnet
        /\ conn' = [conn EXCEPT ![b] = "up"] /\ paneOf' = [paneOf EXCEPT ![b] = p]
        /\ askedBy' = [askedBy EXCEPT ![b] = view[p]]
        /\ log' = [log EXCEPT ![b] = "open"] /\ entry' = [entry EXCEPT ![p] = b]
        /\ owner' = [owner EXCEPT ![p] = view[p]]
    BY <1>4, KindsAssumption DEF SpawnLocal, Register
  <2>2. /\ conn'[b] = "up" /\ paneOf'[b] = p /\ entry'[p] = b /\ owner'[p] = view[p]
        /\ \A c \in Backends \ {b} : conn'[c] = conn[c] /\ paneOf'[c] = paneOf[c] /\ askedBy'[c] = askedBy[c]
                                     /\ log'[c] = log[c]
        /\ \A q \in Panes \ {p} : entry'[q] = entry[q] /\ owner'[q] = owner[q]
    BY <1>0, <2>1 DEF CTypeOK
  <2>3. \A q \in Panes \ {p} : (Connecting(q)' <=> Connecting(q)) /\ (Closing(q)' <=> Closing(q))
    BY <1>0, <2>1, <2>2, OneBackendMoves
  <2>4. ~Connecting(p)' /\ ~Closing(p)'
    BY <1>0, <2>1, <2>2 DEF Connecting, Closing
  <2>5. \A c \in Backends \ {b} : conn[c] = "up" => paneOf[c] # p
    BY <1>0, <2>1, NoneAssumption DEF Booked
  <2>6. \A b1, c1 \in Backends : paneOf'[b1] \notin Telnet /\ conn'[b1] \in {"connecting", "closing"}
                                 /\ conn'[c1] = conn'[b1] /\ paneOf'[b1] = paneOf'[c1] => b1 = c1
    BY <1>0, <2>2 DEF Booked
  <2>7. \A c \in Backends : paneOf'[c] \notin Telnet =>
                            /\ conn'[c] = "up" => entry'[paneOf'[c]] = c
                            /\ log'[c] = "open" => conn'[c] = "up"
    <3> TAKE c \in Backends
    <3>1. CASE c = b
      <4>1. log'[c] = "open" => conn'[c] = "up"
        BY <2>2, <3>1
      <4>2. QED
        BY <2>2, <3>1, <4>1
    <3>2. CASE c # b
      BY <1>0, <2>2, <2>5, <3>2 DEF Booked, CTypeOK
    <3>3. QED
      BY <3>1, <3>2
  <2>12. \A c \in Backends : /\ conn'[c] = "unused" => log'[c] # "open"
                             /\ conn'[c] = "connecting" =>
                                  askedBy'[c] # None /\ wins'[askedBy'[c]] = "open"
    BY <1>0, <2>2 DEF Booked
  <2>8. Booked'
    BY <2>6, <2>7, <2>12 DEF Booked
  <2>9. <<"connected", "ok">> \in Seq(Messages) /\ EndsOf(<<"connected", "ok">>) = {}
    BY EndsSent
  <2>10. AtMostOne(EndsOf(<<"connected", "ok">>))
    BY <2>9 DEF AtMostOne
  <2>11. QED
    BY <1>1, <1>4, <2>2, <2>3, <2>4, <2>8, <2>9, <2>10
<1>5. ASSUME NEW b \in Backends, SpawnBegin(p, view[p], b), inbox' = Sent(p, <<"connecting">>)
      PROVE  CalmInv'
  <2>1. /\ entry[p] = None /\ conn[b] = "unused"
        /\ conn' = [conn EXCEPT ![b] = "connecting"] /\ paneOf' = [paneOf EXCEPT ![b] = p]
        /\ askedBy' = [askedBy EXCEPT ![b] = view[p]]
        /\ UNCHANGED <<entry, owner, log>>
    BY <1>5 DEF SpawnBegin
  <2>2. /\ conn'[b] = "connecting" /\ paneOf'[b] = p /\ askedBy'[b] = view[p]
        /\ \A c \in Backends \ {b} : conn'[c] = conn[c] /\ paneOf'[c] = paneOf[c] /\ askedBy'[c] = askedBy[c]
    BY <1>0, <2>1 DEF CTypeOK
  <2>3. \A q \in Panes \ {p} : (Connecting(q)' <=> Connecting(q)) /\ (Closing(q)' <=> Closing(q))
    BY <1>0, <2>1, <2>2, OneBackendMoves
  <2>4. p \notin Telnet => ~Closing(p)' /\ \A c \in Backends : conn[c] = "connecting" => paneOf[c] # p
    BY <1>0, <2>2 DEF Connecting, Closing
  <2>5. \A b1, c1 \in Backends : paneOf'[b1] \notin Telnet /\ conn'[b1] \in {"connecting", "closing"}
                                 /\ conn'[c1] = conn'[b1] /\ paneOf'[b1] = paneOf'[c1] => b1 = c1
    BY <1>0, <2>2, <2>4 DEF Booked
  <2>6. log[b] # "open"
    BY <1>0, <2>1 DEF Booked
  <2>7. \A c \in Backends : paneOf'[c] \notin Telnet =>
                            /\ conn'[c] = "up" => entry'[paneOf'[c]] = c
                            /\ log'[c] = "open" => conn'[c] = "up"
    BY <1>0, <2>1, <2>2, <2>6 DEF Booked
  <2>12. \A c \in Backends : /\ conn'[c] = "unused" => log'[c] # "open"
                             /\ conn'[c] = "connecting" =>
                                  askedBy'[c] # None /\ wins'[askedBy'[c]] = "open"
    BY <1>0, <2>1, <2>2 DEF Booked
  <2>8. Booked'
    BY <2>5, <2>7, <2>12 DEF Booked
  <2>9. <<"connecting">> \in Seq(Messages) /\ EndsOf(<<"connecting">>) = {}
    BY EndsSent
  <2>10. AtMostOne(EndsOf(<<"connecting">>))
    BY <2>9 DEF AtMostOne
  <2>11. QED
    BY <1>1, <1>5, <2>1, <2>3, <2>4, <2>8, <2>9, <2>10
<1>6. QED
  BY <1>2, <1>3, <1>4, <1>5 DEF DoSpawn

(* The instance takes a message.                                           *)
LEMMA HandleCalm ==
  ASSUME CInv, ShownInv, CalmInv, NEW p \in Panes,
         OnStatus(p) \/ OnSpawned(p) \/ OnSpawnFailed(p) \/ OnLost(p)
  PROVE  CalmInv'
<1>0. /\ CTypeOK /\ RTypes /\ Booked /\ CalmPane(p) /\ Housed(p)
      /\ p \notin Telnet => OneAhead(p)
      /\ UNCHANGED <<cvars, wins, view, moving>> /\ pending[p] \in Nat
      /\ view[p] # None /\ inbox[p] # <<>> /\ inbox[p] \in Seq(Messages)
      /\ inbox' = [inbox EXCEPT ![p] = Tail(@)]
  BY DEF CInv, ShownInv, CalmInv, CalmPane, OnStatus, OnSpawned, OnSpawnFailed, OnLost, Take, RTypes
<1>1. /\ Booked' /\ UNCHANGED <<entry, owner>>
      /\ \A q \in Panes : (Connecting(q)' <=> Connecting(q)) /\ (Closing(q)' <=> Closing(q))
  BY <1>0, RendererBooked DEF cvars
<1>2. /\ inbox'[p] = Tail(inbox[p])
      /\ p \notin Telnet => AtMostOne(EndsOf(inbox'[p]))
      /\ EndsOf(inbox[p]) = {} => EndsOf(inbox'[p]) = {} /\ Head(inbox[p]) \notin Ends
      /\ p \notin Telnet /\ Head(inbox[p]) \in Ends => EndsOf(inbox'[p]) = {}
  BY <1>0, EndsTaken DEF RTypes, OneAhead
<1>3. /\ p \notin Telnet => ~Closing(p)
      /\ moving[p] = None /\ state[p] # "new"
  BY <1>0 DEF OneAhead, Housed, Quiet
<1>4. ASSUME state'[p] # "new" PROVE Housed(p)'
  BY <1>0, <1>1, <1>4 DEF Housed
<1>9. ASSUME state'[p] # "new", pending'[p] = pending[p] PROVE CalmPane(p)'
  <2>1. p \notin Telnet => OneAhead(p)'
    BY <1>0, <1>1, <1>2, <1>3, <1>9 DEF OneAhead
  <2>2. QED
    BY <1>4, <1>9, <2>1 DEF CalmPane
<1>5. ASSUME Head(inbox[p]) \in Ends, state'[p] # "new", pending'[p] = pending[p] + 1
      PROVE  CalmPane(p)'
  <2>1. p \notin Telnet => pending[p] = 0 /\ ~Connecting(p)
    BY <1>0, <1>2, <1>5 DEF OneAhead
  <2>2. p \notin Telnet => OneAhead(p)'
    BY <1>0, <1>1, <1>2, <1>3, <1>5, <2>1 DEF OneAhead
  <2>3. QED
    BY <1>4, <1>5, <2>2 DEF CalmPane
<1>6. CASE OnStatus(p) \/ OnSpawned(p)
  <2>1. state'[p] # "new" /\ pending' = pending
    BY <1>0, <1>3, <1>6 DEF OnStatus, OnSpawned, RTypes, PaneStatuses
  <2>2. \A q \in Panes \ {p} : state'[q] = state[q]
    BY <1>0, <1>6 DEF OnStatus, OnSpawned, RTypes
  <2>3. ASSUME NEW q \in Panes \ {p} PROVE CalmPane(q)'
    BY <1>0, <1>1, <2>1, <2>2, OtherCalm DEF CalmInv, RTypes
  <2>4. QED
    BY <1>1, <1>9, <2>1, <2>3 DEF CalmInv
<1>7. CASE OnSpawnFailed(p) \/ OnLost(p)
  <2>1. PICK s \in {"error", "disconnected"} : RetryOrShow(p, s)
    BY <1>7 DEF OnSpawnFailed, OnLost
  <2>2. Head(inbox[p]) \in Ends
    BY <1>7 DEF OnSpawnFailed, OnLost, Take, Ends
  <2>3. /\ state'[p] # "new"
        /\ pending'[p] = pending[p] \/ pending'[p] = pending[p] + 1
        /\ \A q \in Panes \ {p} : state'[q] = state[q] /\ pending'[q] = pending[q]
    BY <1>0, <2>1 DEF RetryOrShow, Retry, RTypes
  <2>4. ASSUME NEW q \in Panes \ {p} PROVE CalmPane(q)'
    BY <1>0, <1>1, <2>3, OtherCalm DEF CalmInv, RTypes
  <2>5. QED
    BY <1>1, <1>5, <1>9, <2>2, <2>3, <2>4 DEF CalmInv
<1>8. QED
  BY <1>6, <1>7

(* A pane closes, by its clean exit or by its user.                        *)
LEMMA CloseCalm ==
  ASSUME CInv, ShownInv, CalmInv, NEW p \in Panes, OnCleanExit(p) \/ UserCloses(p)
  PROVE  CalmInv'
<1>0. /\ CTypeOK /\ RTypes /\ Booked /\ Housed(p)
      /\ p \notin Telnet => OneAhead(p)
      /\ view[p] # None /\ moving[p] = None /\ ClosePane(p)
  BY DEF CInv, ShownInv, CalmInv, CalmPane, OnCleanExit, UserCloses, Housed
<1>1. /\ KillPanes({p}) /\ UNCHANGED <<wins, moving>>
      /\ view'[p] = None /\ pending'[p] = 0 /\ inbox'[p] = <<>> /\ state'[p] = "gone"
      /\ \A q \in Panes \ {p} : /\ view'[q] = view[q] /\ pending'[q] = pending[q]
                                /\ inbox'[q] = inbox[q] /\ state'[q] = state[q]
  BY <1>0 DEF ClosePane, Unmounted, RTypes
<1>2. /\ Booked'
      /\ \A q \in Panes : /\ Connecting(q)' <=> Connecting(q)
                          /\ Closing(q)' <=> Closing(q) \/ (q = p /\ entry[q] # None)
  BY <1>0, <1>1, SettledKilled
<1>3. entry'[p] = None /\ \A q \in Panes \ {p} : entry'[q] = entry[q] /\ owner'[q] = owner[q]
  BY <1>1 DEF KillPanes
<1>4. EndsOf(inbox'[p]) = {}
  BY <1>1 DEF EndsOf
<1>5. CalmPane(p)'
  <2>1. p \notin Telnet => (Closing(p)' => ~Connecting(p)')
    BY <1>0, <1>2 DEF OneAhead
  <2>2. p \notin Telnet => OneAhead(p)'
    BY <1>0, <1>1, <1>3, <1>4, <2>1 DEF OneAhead, Quiet, AtMostOne
  <2>3. Housed(p)'
    BY <1>0, <1>1, <1>3 DEF Housed, Quiet
  <2>4. QED
    BY <2>2, <2>3 DEF CalmPane
<1>6. ASSUME NEW q \in Panes \ {p} PROVE CalmPane(q)'
  BY <1>1, <1>2, <1>3, OtherCalm DEF CalmInv
<1>7. QED
  BY <1>2, <1>5, <1>6 DEF CalmInv

(* A window closes with all it shows and all it owns.                      *)
LEMMA WindowCalm ==
  ASSUME ~Hasty, CInv, ShownInv, CalmInv, NEW w \in Windows, CloseWindow(w)
  PROVE  CalmInv'
<1> DEFINE leaving == {p \in Panes : view[p] = w \/ moving[p] = w}
           S == IdsOwnedBy(w)
<1>0. /\ CTypeOK /\ RTypes /\ Booked
      /\ \A b \in Backends : conn[b] = "connecting" => askedBy[b] # w
      /\ \A p \in S : view[p] = w \/ AtRest(p)
      /\ KillPanes(S) /\ Unmounted(leaving) /\ wins' = [wins EXCEPT ![w] = "gone"]
      /\ state' = [p \in Panes |-> IF p \in leaving THEN "gone" ELSE state[p]]
      /\ moving' = [p \in Panes |-> IF p \in leaving THEN None ELSE moving[p]]
      /\ w # None
  BY NoneAssumption DEF CInv, ShownInv, CalmInv, CloseWindow
<1>1. S = {p \in Panes : entry[p] # None /\ owner[p] = w}
  BY DEF IdsOwnedBy
<1>4. \A x \in Windows \ {w} : wins'[x] = wins[x]
  BY <1>0 DEF RTypes
<1>2. \A b \in Backends : conn[b] = "connecting" => wins'[askedBy[b]] = wins[askedBy[b]]
  BY <1>0, <1>4 DEF Booked, CTypeOK, Owners
<1>3. /\ Booked'
      /\ \A q \in Panes : /\ Connecting(q)' <=> Connecting(q)
                          /\ Closing(q)' <=> Closing(q) \/ (q \in S /\ entry[q] # None)
  <2>1. S \in SUBSET Panes
    BY <1>1
  <2> HIDE DEF S
  <2>2. QED
    BY <1>0, <1>2, <2>1, SettledKilled
<1>5. ASSUME NEW q \in Panes PROVE CalmPane(q)'
  <2>0. /\ CalmPane(q) /\ Housed(q)
        /\ q \notin Telnet => OneAhead(q)
        /\ view[q] \in Owners /\ moving[q] \in Owners /\ owner[q] \in Owners
        /\ entry[q] = None => owner[q] = None
    BY <1>0 DEF CalmInv, CalmPane, RTypes, CTypeOK
  <2>1. CASE q \in S
    <3>1. /\ view[q] = w \/ AtRest(q)
          /\ entry'[q] = None /\ entry[q] # None /\ state[q] # "new"
          /\ q \notin Telnet => ~Connecting(q)
      BY <1>0, <1>1, <2>0, <2>1 DEF KillPanes, OneAhead, Housed
    <3>2. /\ pending'[q] = 0 /\ inbox'[q] = <<>> /\ moving'[q] = None
          /\ state'[q] # "new"
          /\ view'[q] # None => view'[q] = view[q] /\ view[q] # w
      <4>1. CASE view[q] = w
        BY <1>0, <2>0, <3>1, <4>1 DEF Unmounted, Housed
      <4>2. CASE AtRest(q)
        BY <1>0, <3>1, <4>2 DEF Unmounted, AtRest
      <4>3. QED
        BY <3>1, <4>1, <4>2
    <3>3. EndsOf(inbox'[q]) = {}
      BY <3>2 DEF EndsOf
    <3>4. q \notin Telnet => OneAhead(q)'
      BY <1>3, <3>1, <3>2, <3>3 DEF OneAhead, Quiet, AtMostOne
    <3>5. Housed(q)'
      BY <1>3, <1>4, <2>0, <3>1, <3>2 DEF Housed, Quiet, Owners
    <3>6. QED
      BY <3>4, <3>5 DEF CalmPane
  <2>2. CASE q \notin S
    <3>1. /\ entry'[q] = entry[q] /\ owner'[q] = owner[q]
          /\ (Connecting(q)' <=> Connecting(q)) /\ (Closing(q)' <=> Closing(q))
          /\ owner[q] # w
      BY <1>0, <1>1, <1>3, <2>0, <2>2 DEF KillPanes
    <3>2. CASE q \in leaving
      <4>1. /\ view'[q] = None /\ moving'[q] = None /\ pending'[q] = 0 /\ inbox'[q] = <<>>
            /\ state'[q] = "gone"
        BY <1>0, <3>2 DEF Unmounted
      <4>2. EndsOf(inbox'[q]) = {}
        BY <4>1 DEF EndsOf
      <4>3. q \notin Telnet => OneAhead(q)'
        BY <2>0, <3>1, <4>1, <4>2 DEF OneAhead, Quiet, AtMostOne
      <4>4. Housed(q)'
        BY <1>4, <2>0, <3>1, <4>1 DEF Housed, Quiet, Owners
      <4>5. QED
        BY <4>3, <4>4 DEF CalmPane
    <3>3. CASE q \notin leaving
      <4>1. /\ view'[q] = view[q] /\ moving'[q] = moving[q] /\ state'[q] = state[q]
            /\ pending'[q] = pending[q] /\ inbox'[q] = inbox[q]
            /\ view[q] # w /\ moving[q] # w
        BY <1>0, <3>3 DEF Unmounted
      <4>2. \A x \in {view[q], moving[q], owner[q]} \ {None} : wins[x] = "open" => wins'[x] = "open"
        BY <1>4, <2>0, <3>1, <4>1 DEF Owners
      <4> HIDE DEF leaving, S
      <4>3. QED
        BY <2>0, <3>1, <4>1, <4>2, OtherCalm
    <3>4. QED
      BY <3>2, <3>3
  <2>3. QED
    BY <2>1, <2>2
<1>6. QED
  BY <1>3, <1>5 DEF CalmInv

(* What the main process reports of an attempt or a connection.            *)
LEMMA MainCalm ==
  ASSUME ~Hasty, CInv, ShownInv, CalmInv, NEW b \in Backends,
         MainEstablished(b) \/ MainConnectFails(b) \/ MainExit(b)
  PROVE  CalmInv'
<1> DEFINE p == paneOf[b]
<1>0. /\ CTypeOK /\ ListedIsLive /\ RTypes /\ Booked
      /\ UNCHANGED <<paneOf, askedBy, wins, view, moving, state, pending>>
      /\ conn[b] \in {"connecting", "up", "closing"}
      /\ conn'[b] \in {"up", "closed"}
      /\ \A c \in Backends \ {b} : conn'[c] = conn[c]
  BY DEF CInv, ShownInv, CalmInv, MainEstablished, MainConnectFails, MainExit,
         Established, ConnectFails, Exit, CTypeOK
<1>1. p \in Panes
  BY <1>0, NoneAssumption DEF CTypeOK
<1>2. /\ CalmPane(p) /\ Housed(p) /\ inbox[p] \in Seq(Messages) /\ pending[p] \in Nat
      /\ p \notin Telnet => OneAhead(p)
      /\ conn[b] = "connecting" => Connecting(p)
      /\ conn[b] = "closing" => Closing(p)
  BY <1>0, <1>1 DEF CalmInv, CalmPane, RTypes, Connecting, Closing
<1>3. \A q \in Panes \ {p} : (Connecting(q)' <=> Connecting(q)) /\ (Closing(q)' <=> Closing(q))
  BY <1>0, <1>1, OneBackendMoves
<1>4. /\ p \notin Telnet /\ conn[b] = "connecting" => ~Connecting(p)'
      /\ p \notin Telnet /\ conn[b] = "closing" => ~Closing(p)'
      /\ Connecting(p)' => Connecting(p)
      /\ Closing(p)' => Closing(p)
  BY <1>0 DEF Booked, Connecting, Closing
<1>5. ASSUME NEW m \in Seq(Messages), inbox' = Sent(p, m), Booked',
             p \notin Telnet =>
               /\ pending[p] = 0 \/ EndsOf(m) = {}
               /\ AtMostOne(EndsOf(m)) /\ EndsOf(inbox[p]) = {}
               /\ EndsOf(m) # {} => entry'[p] = None
               /\ ~Connecting(p)' /\ ~Closing(p)',
             state[p] = "new" => entry'[p] = None,
             entry'[p] # None => owner'[p] # None /\ wins[owner'[p]] = "open",
             \A q \in Panes \ {p} : entry'[q] = entry[q] /\ owner'[q] = owner[q]
      PROVE  CalmInv'
  <2>1. /\ \A q \in Panes \ {p} : inbox'[q] = inbox[q]
        /\ view[p] = None => inbox'[p] = inbox[p]
        /\ view[p] # None => inbox'[p] = inbox[p] \o m
    BY <1>0, <1>1, <1>5, SentIs
  <2>2. p \notin Telnet => /\ EndsOf(inbox'[p]) # {} => EndsOf(m) # {}
                           /\ AtMostOne(EndsOf(inbox'[p]))
    <3>1. CASE view[p] = None
      BY <1>2, <2>1, <3>1, <1>5 DEF OneAhead
    <3>2. CASE view[p] # None
      BY <1>2, <1>5, <2>1, <3>2, EndsAppended
    <3>3. QED
      BY <3>1, <3>2
  <2>3. p \notin Telnet => OneAhead(p)'
    BY <1>0, <1>2, <1>5, <2>2 DEF OneAhead
  <2>4. Housed(p)'
    BY <1>0, <1>2, <1>4, <1>5, <2>1 DEF Housed, Quiet
  <2>5. ASSUME NEW q \in Panes \ {p} PROVE CalmPane(q)'
    BY <1>0, <1>3, <1>5, <2>1, OtherCalm DEF CalmInv
  <2>6. QED
    BY <1>0, <1>1, <1>5, <2>3, <2>4, <2>5 DEF CalmInv, CalmPane
<1>6. ASSUME \A c \in Backends : paneOf[c] \notin Telnet =>
               /\ conn'[c] = "up" => entry'[paneOf[c]] = c
               /\ log'[c] = "open" => conn'[c] = "up",
             \A c \in Backends \ {b} : log'[c] = "open" => log[c] = "open"
      PROVE  Booked'
  <2>1. \A c \in Backends :
          /\ conn'[c] = "unused" => log'[c] # "open"
          /\ conn'[c] = "connecting" => askedBy'[c] # None /\ wins'[askedBy'[c]] = "open"
    BY <1>0, <1>6 DEF Booked
  <2>2. \A c, d \in Backends :
          paneOf'[c] \notin Telnet /\ conn'[c] \in {"connecting", "closing"}
            /\ conn'[d] = conn'[c] /\ paneOf'[c] = paneOf'[d] => c = d
    BY <1>0 DEF Booked
  <2>3. QED
    BY <1>0, <1>6, <2>1, <2>2 DEF Booked
<1>7. CASE MainEstablished(b)
  <2>1. /\ conn[b] = "connecting" /\ conn'[b] = "up" /\ Connecting(p)
        /\ askedBy[b] # None /\ wins[askedBy[b]] = "open" /\ state[p] # "new"
        /\ p \notin Telnet => entry[p] = None /\ ~Closing(p) /\ EndsOf(inbox[p]) = {}
    BY <1>0, <1>1, <1>2, <1>7 DEF MainEstablished, Established, CTypeOK, Booked, OneAhead, Housed
  <2>2. /\ log' = [log EXCEPT ![b] = "open"] /\ entry' = [entry EXCEPT ![p] = b]
        /\ owner' = [owner EXCEPT ![p] = askedBy[b]]
        /\ inbox' = Sent(p, <<"connected", "ok">>)
    BY <1>7 DEF MainEstablished, Established, Register
  <2>3. /\ log'[b] = "open" /\ entry'[p] = b /\ owner'[p] = askedBy[b]
        /\ \A c \in Backends \ {b} : log'[c] = log[c]
        /\ \A q \in Panes \ {p} : entry'[q] = entry[q] /\ owner'[q] = owner[q]
    BY <1>0, <1>1, <2>1, <2>2 DEF CTypeOK
  <2>4. \A c \in Backends \ {b} : conn[c] = "up" /\ paneOf[c] \notin Telnet =>
          paneOf[c] \in Panes \ {p} /\ entry[paneOf[c]] = c
    BY <1>0, <2>1, NoneAssumption DEF Booked, CTypeOK
  <2>5. \A c \in Backends \ {b} : conn'[c] = "up" /\ paneOf[c] \notin Telnet => entry'[paneOf[c]] = c
    BY <1>0, <2>3, <2>4
  <2>6. \A c \in Backends \ {b} : log'[c] = "open" /\ paneOf[c] \notin Telnet => conn'[c] = "up"
    BY <1>0, <2>3 DEF Booked
  <2>7. Booked'
    BY <1>6, <2>1, <2>3, <2>5, <2>6
  <2>8. <<"connected", "ok">> \in Seq(Messages) /\ EndsOf(<<"connected", "ok">>) = {}
    BY EndsSent
  <2>9. AtMostOne(EndsOf(<<"connected", "ok">>))
    BY <2>8 DEF AtMostOne
  <2>10. QED
    BY <1>4, <1>5, <2>1, <2>2, <2>3, <2>7, <2>8, <2>9
(* An attempt or a connection ends, or a closed one is heard of.           *)
<1>8. ASSUME NEW m \in Seq(Messages), inbox' = Sent(p, m), conn'[b] = "closed",
             \/ UNCHANGED <<entry, owner, log>>
             \/ PushExit(p),
             p \notin Telnet => /\ EndsOf(inbox[p]) = {} /\ pending[p] = 0
                                /\ ~Connecting(p)' /\ ~Closing(p)'
                                /\ AtMostOne(EndsOf(m)) /\ entry'[p] = None
                                /\ log'[b] # "open"
                                /\ entry[p] \in {b, None}
      PROVE  CalmInv'
  <2>1. /\ \A q \in Panes \ {p} : entry'[q] = entry[q] /\ owner'[q] = owner[q]
        /\ entry'[p] # None => entry'[p] = entry[p] /\ owner'[p] = owner[p]
        /\ \A c \in Backends : log'[c] = "open" => log[c] = "open"
    BY <1>0, <1>1, <1>8, NoneAssumption DEF PushExit, FinishLog, DropEntry, CTypeOK
  <2>2. ASSUME NEW c \in Backends, paneOf[c] \notin Telnet
        PROVE  /\ conn'[c] = "up" => entry'[paneOf[c]] = c
               /\ log'[c] = "open" => conn'[c] = "up"
    <3>1. CASE c = b
      BY <1>8, <2>2, <3>1
    <3>2. CASE c # b
      <4>1. conn'[c] = conn[c] /\ (log'[c] = "open" => conn[c] = "up")
        BY <1>0, <2>1, <2>2, <3>2 DEF Booked
      <4>2. conn[c] = "up" => entry[paneOf[c]] = c /\ paneOf[c] \in Panes /\ c # None
        BY <1>0, <2>2, NoneAssumption DEF Booked, CTypeOK
      <4>3. conn[c] = "up" => paneOf[c] # p
        BY <1>8, <2>2, <3>2, <4>2
      <4>4. QED
        BY <2>1, <4>1, <4>2, <4>3
    <3>3. QED
      BY <3>1, <3>2
  <2>3. Booked'
    BY <1>6, <2>1, <2>2
  <2>4. /\ state[p] = "new" => entry'[p] = None
        /\ entry'[p] # None => owner'[p] # None /\ wins[owner'[p]] = "open"
    BY <1>2, <2>1 DEF Housed
  <2>5. QED
    BY <1>5, <1>8, <2>1, <2>3, <2>4
<1>9. CASE MainConnectFails(b)
  <2>1. /\ conn[b] = "connecting" /\ conn'[b] = "closed" /\ Connecting(p)
        /\ p \in Telnet => PushExit(p)
        /\ p \notin Telnet => UNCHANGED <<entry, owner, log>>
    BY <1>0, <1>1, <1>2, <1>9 DEF MainConnectFails, ConnectFails, CTypeOK
  <2>2. CASE p \in Telnet
    <3>1. inbox' = Sent(p, <<"error", "error", "failed", "exitLost">>)
      BY <1>9, <2>2 DEF MainConnectFails
    <3>2. <<"error", "error", "failed", "exitLost">> \in Seq(Messages)
      BY EndMessages DEF EndsWell
    <3>3. QED
      BY <1>8, <2>1, <2>2, <3>1, <3>2
  <2>3. CASE p \notin Telnet
    <3>1. /\ entry[p] = None /\ ~Closing(p) /\ EndsOf(inbox[p]) = {} /\ pending[p] = 0
          /\ inbox' = Sent(p, <<"error", "failed">>)
      BY <1>1, <1>2, <1>9, <2>1, <2>3 DEF MainConnectFails, OneAhead
    <3>2. <<"error", "failed">> \in Seq(Messages) /\ AtMostOne(EndsOf(<<"error", "failed">>))
      BY EndsSent
    <3>3. log[b] # "open"
      BY <1>0, <2>1, <2>3 DEF Booked
    <3>4. QED
      BY <1>4, <1>8, <2>1, <2>3, <3>1, <3>2, <3>3
  <2>4. QED
    BY <2>2, <2>3
<1>10. CASE MainExit(b)
  <2>1. PICK m \in Reports(p) : inbox' = Sent(p, m)
    BY <1>10 DEF MainExit
  <2>2. m \in Seq(Messages) /\ AtMostOne(EndsOf(m))
    BY EndsSent DEF Reports
  <2>3. /\ conn[b] \in {"up", "closing"} /\ conn'[b] = "closed" /\ PushExit(p)
        /\ conn[b] = "up" => pending[p] = 0
    BY <1>0, <1>10 DEF MainExit, Exit, CTypeOK
  <2>4. /\ entry'[p] = None
        /\ entry[p] = b => log'[b] = "ended"
        /\ entry[p] = None => log' = log
    BY <1>0, <1>1, <2>3, NoneAssumption DEF PushExit, DropEntry, FinishLog, CTypeOK
  <2>5. CASE p \notin Telnet
    <3>1. /\ conn[b] = "up" => entry[p] = b /\ entry[p] # None
          /\ conn[b] = "closing" => entry[p] = None /\ log[b] # "open"
      BY <1>0, <1>2, <2>5, NoneAssumption DEF Booked, OneAhead
    <3>2. pending[p] = 0 /\ EndsOf(inbox[p]) = {}
      <4>1. CASE conn[b] = "up"
        BY <1>2, <2>3, <2>5, <3>1, <4>1 DEF OneAhead
      <4>2. CASE conn[b] = "closing"
        <5>1. pending[p] = 0 /\ inbox[p] = <<>>
          BY <1>2, <2>5, <4>2 DEF OneAhead, Quiet
        <5>2. QED
          BY <5>1 DEF EndsOf
      <4>3. QED
        BY <2>3, <4>1, <4>2
    <3>3. ~Connecting(p)' /\ ~Closing(p)'
      BY <1>2, <1>4, <2>3, <2>5, <3>1 DEF OneAhead
    <3>4. QED
      BY <1>8, <2>1, <2>2, <2>3, <2>4, <2>5, <3>1, <3>2, <3>3
  <2>6. CASE p \in Telnet
    BY <1>8, <2>1, <2>2, <2>3, <2>6
  <2>7. QED
    BY <2>5, <2>6
<1>11. QED
  BY <1>7, <1>9, <1>10

LEMMA NextCalm ==
  ASSUME ~Hasty, CInv, ShownInv, CalmInv, [ClientNext]_clientvars
  PROVE  CalmInv'
<1>1. ASSUME NEW p \in Panes, PaneStep(p) PROVE CalmInv'
  <2>1. RTypes
    BY DEF ShownInv
  <2>2. CASE (\E w \in Windows : Mount(p, w) \/ TearOff(p, w)) \/ CtrlR(p)
             \/ VaultRefused(p) \/ AdoptTab(p)
    BY <2>1, <2>2, ViewCalm
  <2>3. CASE DoSpawn(p) \/ SpawnRefused(p)
    BY <2>3, SpawnCalm
  <2>4. CASE OnStatus(p) \/ OnSpawned(p) \/ OnSpawnFailed(p) \/ OnLost(p)
    BY <2>4, HandleCalm
  <2>5. CASE OnCleanExit(p) \/ UserCloses(p)
    BY <2>5, CloseCalm
  <2>6. QED
    BY <1>1, <2>2, <2>3, <2>4, <2>5 DEF PaneStep
<1>2. ASSUME NEW w \in Windows, CloseWindow(w) PROVE CalmInv'
  BY <1>2, WindowCalm
<1>3. ASSUME NEW b \in Backends,
             MainEstablished(b) \/ MainConnectFails(b) \/ MainExit(b)
      PROVE  CalmInv'
  BY <1>3, MainCalm
<1>4. CASE UNCHANGED clientvars
  <2>1. UNCHANGED <<cvars, wins, view, moving, state, pending, inbox, entry, owner>>
    BY <1>4 DEF clientvars, rvars, cvars
  <2>2. /\ Booked'
        /\ \A q \in Panes : (Connecting(q)' <=> Connecting(q)) /\ (Closing(q)' <=> Closing(q))
    BY <2>1, RendererBooked DEF CInv, CalmInv
  <2>3. ASSUME NEW q \in Panes PROVE CalmPane(q)'
    BY <2>1, <2>2, OtherCalm DEF CalmInv
  <2>4. QED
    BY <2>2, <2>3 DEF CalmInv
<1>5. QED
  BY <1>1, <1>2, <1>3, <1>4 DEF ClientNext

LEMMA InitCalm == ClientInit => CalmInv
<1> SUFFICES ASSUME ClientInit PROVE CalmInv
  OBVIOUS
<1>1. /\ \A b \in Backends : conn[b] = "unused" /\ log[b] = "none"
      /\ \A p \in Panes : ~Connecting(p) /\ ~Closing(p)
  BY DEF ClientInit, CInit, Connecting, Closing
<1>2. Booked
  BY <1>1 DEF Booked
<1>3. ASSUME NEW p \in Panes PROVE CalmPane(p)
  <2>1. /\ view[p] = None /\ moving[p] = None /\ pending[p] = 0 /\ inbox[p] = <<>>
        /\ entry[p] = None
    BY DEF ClientInit, CInit
  <2>2. EndsOf(inbox[p]) = {}
    BY <2>1 DEF EndsOf
  <2>3. QED
    BY <1>1, <2>1, <2>2 DEF CalmPane, OneAhead, Housed, Quiet, AtMostOne
<1>4. QED
  BY <1>2, <1>3 DEF CalmInv

(* The strengthened invariant of a user who waits.                         *)
THEOREM CalmInductive ==
  ASSUME ~Hasty
  PROVE  ClientSpec => [](CInv /\ ShownInv /\ CalmInv)
<1>1. ClientInit => CalmInv
  BY InitCalm
<1>2. CInv /\ ShownInv /\ CalmInv /\ [ClientNext]_clientvars => CalmInv'
  BY NextCalm
<1>3. QED
  BY <1>1, <1>2, ClientInductive, PTL DEF ClientSpec

(* A set of backends no two of which differ has at most one.               *)
LEMMA AtMostOneOf ==
  ASSUME NEW S, \A b, c \in S : b = c
  PROVE  Cardinality(S) <= 1
<1>1. CASE S = {}
  BY <1>1, FS_EmptySet
<1>2. CASE S # {}
  <2>1. PICK b : b \in S
    BY <1>2
  <2>2. S = {b}
    BY <2>1
  <2>3. QED
    BY <2>2, FS_Singleton
<1>3. QED
  BY <1>1, <1>2

(***************************************************************************)
(* Unless the user is hasty, for any number of windows, retries and        *)
(* attempts, panes closed and far ends hanging up at any moment: no pane   *)
(* but a Telnet one ever has two connections, no closed connection of      *)
(* theirs keeps its log row open, and no connection is left to a window    *)
(* that is gone.                                                           *)
(***************************************************************************)
THEOREM BooksAlwaysAgree ==
  ASSUME ~Hasty
  PROVE  ClientSpec => []BooksAgree
<1>1. CInv /\ CalmInv => BooksAgree
  <2> SUFFICES ASSUME CInv, CalmInv PROVE BooksAgree
    OBVIOUS
  <2>0. CTypeOK /\ Booked /\ \A p \in Panes : Housed(p) /\ (p \notin Telnet => OneAhead(p))
    BY DEF CInv, CalmInv, CalmPane
  <2>1. OneConnectionPerPane
    <3> SUFFICES ASSUME NEW p \in Panes \ Telnet
                 PROVE  Cardinality({b \in Backends : paneOf[b] = p
                                       /\ conn[b] \in {"connecting", "up"}}) <= 1
      BY DEF OneConnectionPerPane
    <3> DEFINE S == {b \in Backends : paneOf[b] = p /\ conn[b] \in {"connecting", "up"}}
    <3>1. ASSUME NEW b \in S, NEW c \in S PROVE b = c
      <4>1. conn[b] = "connecting" /\ conn[c] = "connecting" => b = c
        BY <2>0 DEF Booked
      <4>2. conn[b] = "up" => entry[p] = b
        BY <2>0 DEF Booked
      <4>3. conn[c] = "up" => entry[p] = c
        BY <2>0 DEF Booked
      <4>4. conn[b] = "connecting" \/ conn[c] = "connecting" => entry[p] = None
        BY <2>0 DEF OneAhead, Connecting
      <4>5. QED
        BY <4>1, <4>2, <4>3, <4>4, NoneAssumption
    <3> HIDE DEF S
    <3>2. Cardinality(S) <= 1
      BY <3>1, AtMostOneOf
    <3>3. QED
      BY <3>2 DEF S
  <2>2. ClosedIsLogged
    BY <2>0 DEF ClosedIsLogged, Booked
  <2>3. OwnerIsOpen
    BY <2>0 DEF OwnerIsOpen, Housed
  <2>4. QED
    BY <2>1, <2>2, <2>3 DEF BooksAgree
<1>2. QED
  BY <1>1, CalmInductive, PTL

-----------------------------------------------------------------------------
(* The gate of the transfers.                                               *)

(***************************************************************************)
(* The inductive invariant: NoLostWakeup needs SlotAccounting (a call      *)
(* queues only when the counter reached the limit, so somebody holds a     *)
(* slot), SlotAccounting needs the queue to name only waiting calls        *)
(* (otherwise release() would wake a call that already holds a slot).      *)
(***************************************************************************)
IInv == TypeOK /\ SlotAccounting /\ QueueIsWaiting /\ NoLostWakeup

-----------------------------------------------------------------------------

(* The calls that hold a slot are finitely many, and stay so.              *)
LEMMA HoldersFinite ==
  /\ IsFiniteSet(Holders)
  /\ Cardinality(Holders) \in Nat
<1>1. Holders \in SUBSET Files
  BY DEF Holders, InPhase
<1>2. IsFiniteSet(Holders)
  BY <1>1, FilesAssumption, FS_Subset
<1>3. QED
  BY <1>2, FS_CardinalityType

(* One more holder counts one more: the two ways into "opening".           *)
LEMMA OneHolderMore ==
  ASSUME TypeOK, SlotAccounting, NEW f \in Files, f \notin Holders,
         active' = active + 1, Holders' = Holders \cup {f}
  PROVE  SlotAccounting'
<1>1. Cardinality(Holders \cup {f}) = Cardinality(Holders) + 1
  BY HoldersFinite, FS_AddElement
<1>2. QED
  BY <1>1 DEF SlotAccounting

(* One holder less counts one less: release().                             *)
LEMMA OneHolderLess ==
  ASSUME TypeOK, SlotAccounting, NEW f \in Files, f \in Holders,
         active' = active - 1, Holders' = Holders \ {f}
  PROVE  SlotAccounting' /\ active' \in Nat
<1>1. Cardinality(Holders \ {f}) = Cardinality(Holders) - 1
  BY HoldersFinite, FS_RemoveElement
<1>2. IsFiniteSet(Holders \ {f}) /\ Cardinality(Holders \ {f}) \in Nat
  BY HoldersFinite, FS_RemoveElement, FS_CardinalityType
<1>3. QED
  BY <1>1, <1>2 DEF SlotAccounting

(***************************************************************************)
(* release(), from either of its two call sites, keeps the invariant: the  *)
(* caller leaves Holders and the head of the queue becomes a woken call.   *)
(***************************************************************************)
LEMMA ReleaseKeepsIInv ==
  ASSUME IInv, NEW f \in Files, f \in Holders, Release(f),
         UNCHANGED <<limit, paused>>
  PROVE  IInv'
<1> USE DEF IInv
<1>0. phase \in [Files -> Phases] /\ waiters \in Seq(Files) /\ active \in Nat
  BY DEF TypeOK
<1>1. CASE waiters = <<>>
  <2>1. phase' = [phase EXCEPT ![f] = "idle"] /\ waiters' = <<>>
    BY <1>1 DEF Release
  <2>2. Holders' = Holders \ {f}
    BY <1>0, <2>1 DEF Holders, InPhase
  <2>3. SlotAccounting' /\ active' \in Nat
    BY <2>2, OneHolderLess DEF Release
  <2>4. TypeOK'
    BY <1>0, <2>1, <2>3 DEF TypeOK, Phases
  <2>5. QueueIsWaiting'
    BY <1>0, <1>1, <2>1 DEF QueueIsWaiting, Holders, InPhase
  <2>6. NoLostWakeup'
    BY <2>1 DEF NoLostWakeup
  <2>7. QED
    BY <2>3, <2>4, <2>5, <2>6
<1>2. CASE waiters # <<>>
  <2> DEFINE h == Head(waiters)
  <2>1. h \in Files /\ h = waiters[1] /\ 1 \in DOMAIN waiters /\ Len(waiters) >= 1
    BY <1>0, <1>2
  <2>2. phase[h] = "waiting" /\ h # f
    BY <2>1 DEF QueueIsWaiting, Holders, InPhase
  <2>3. /\ phase' = [phase EXCEPT ![f] = "idle", ![h] = "woken"]
        /\ waiters' = Tail(waiters)
    BY <1>2 DEF Release
  <2>4. /\ phase'[f] = "idle" /\ phase'[h] = "woken"
        /\ \A g \in Files : g # f /\ g # h => phase'[g] = phase[g]
        /\ phase' \in [Files -> Phases]
    BY <1>0, <2>1, <2>2, <2>3 DEF Phases
  <2>5. Holders' = Holders \ {f}
    BY <2>1, <2>2, <2>4 DEF Holders, InPhase
  <2>6. SlotAccounting' /\ active' \in Nat
    BY <2>5, OneHolderLess DEF Release
  <2>7. /\ waiters' \in Seq(Files)
        /\ Len(waiters') = Len(waiters) - 1
        /\ \A i \in DOMAIN waiters' : waiters'[i] = waiters[i + 1] /\ i + 1 \in DOMAIN waiters
    BY <1>0, <1>2, <2>3
  <2>8. TypeOK'
    BY <2>4, <2>6, <2>7 DEF TypeOK
  <2>9. QueueIsWaiting'
    <3>1. \A i, j \in DOMAIN waiters' : waiters'[i] = waiters'[j] => i = j
      BY <1>0, <2>7 DEF QueueIsWaiting
    <3>2. \A i \in DOMAIN waiters' : waiters'[i] # h /\ waiters'[i] # f
      BY <1>0, <2>1, <2>7 DEF QueueIsWaiting, Holders, InPhase
    <3>3. ASSUME NEW g \in Files, phase'[g] = "waiting"
          PROVE  \E i \in DOMAIN waiters' : waiters'[i] = g
      <4>1. phase[g] = "waiting" /\ g # h
        BY <2>4, <3>3
      <4>2. PICK i \in DOMAIN waiters : waiters[i] = g
        BY <4>1 DEF QueueIsWaiting
      <4>3. i \in 1..Len(waiters) /\ i # 1
        BY <1>0, <2>1, <4>1, <4>2
      <4>4. i - 1 \in DOMAIN waiters' /\ waiters'[i - 1] = waiters[i]
        BY <1>0, <2>7, <4>3
      <4>5. QED
        BY <4>2, <4>4
    <3>4. ASSUME NEW g \in Files, NEW i \in DOMAIN waiters', waiters'[i] = g
          PROVE  phase'[g] = "waiting"
      <4>1. phase[g] = "waiting"
        BY <2>7, <3>4 DEF QueueIsWaiting
      <4>2. QED
        BY <2>4, <3>2, <3>4, <4>1
    <3>5. QED
      BY <3>1, <3>3, <3>4 DEF QueueIsWaiting
  <2>10. NoLostWakeup'
    BY <2>1, <2>4 DEF NoLostWakeup, InPhase
  <2>11. QED
    BY <2>6, <2>8, <2>9, <2>10
<1>3. QED
  BY <1>1, <1>2

-----------------------------------------------------------------------------

(* A step that leaves Holders, the woken calls, the waiting calls and the  *)
(* counter alone keeps the invariant, whatever else it does to phase.      *)
LEMMA SameSlots ==
  ASSUME IInv, TypeOK', UNCHANGED <<active, waiters>>,
         Holders' = Holders, InPhase({"woken"})' = InPhase({"woken"}),
         \A f \in Files : phase'[f] = "waiting" <=> phase[f] = "waiting"
  PROVE  IInv'
<1>1. SlotAccounting'
  BY DEF IInv, SlotAccounting
<1>2. QueueIsWaiting'
  BY DEF IInv, QueueIsWaiting
<1>3. NoLostWakeup'
  BY DEF IInv, NoLostWakeup
<1>4. QED
  BY <1>1, <1>2, <1>3 DEF IInv

LEMMA InitIInv == Init => IInv
<1> SUFFICES ASSUME Init PROVE IInv
  OBVIOUS
<1>1. TypeOK
  BY DEF Init, TypeOK, Phases
<1>2. Holders = {}
  BY DEF Init, Holders, InPhase
<1>3. SlotAccounting
  BY <1>2, FS_EmptySet DEF Init, SlotAccounting
<1>4. QueueIsWaiting /\ NoLostWakeup
  BY DEF Init, QueueIsWaiting, NoLostWakeup
<1>5. QED
  BY <1>1, <1>3, <1>4 DEF IInv

LEMMA NextIInv == IInv /\ [Next]_vars => IInv'
<1> SUFFICES ASSUME IInv, [Next]_vars PROVE IInv'
  OBVIOUS
<1> USE DEF IInv
<1>0. /\ phase \in [Files -> Phases] /\ waiters \in Seq(Files)
      /\ active \in Nat /\ limit \in Nat \ {0} /\ paused \in SUBSET Files
  BY LimitsAssumption DEF TypeOK
<1>1. ASSUME NEW f \in Files, AcquireNow(f) PROVE IInv'
  <2>1. /\ phase' \in [Files -> Phases] /\ phase'[f] = "opening"
        /\ \A g \in Files : g # f => phase'[g] = phase[g]
        /\ phase[f] = "idle"
    BY <1>0, <1>1 DEF AcquireNow, Phases
  <2>2. f \notin Holders /\ Holders' = Holders \cup {f}
    BY <2>1 DEF Holders, InPhase
  <2>3. SlotAccounting'
    BY <1>1, <2>2, OneHolderMore DEF AcquireNow
  <2>4. TypeOK'
    BY <1>0, <1>1, <2>1 DEF TypeOK, AcquireNow
  <2>5. QueueIsWaiting'
    BY <1>1, <2>1 DEF QueueIsWaiting, AcquireNow
  <2>6. NoLostWakeup'
    BY <2>2 DEF NoLostWakeup
  <2>7. QED
    BY <2>3, <2>4, <2>5, <2>6
<1>2. ASSUME NEW f \in Files, AcquireLater(f) PROVE IInv'
  <2>1. /\ phase' \in [Files -> Phases] /\ phase'[f] = "waiting"
        /\ \A g \in Files : g # f => phase'[g] = phase[g]
        /\ phase[f] = "idle"
    BY <1>0, <1>2 DEF AcquireLater, Phases
  <2>2. /\ waiters' = Append(waiters, f) /\ waiters' \in Seq(Files)
        /\ Len(waiters') = Len(waiters) + 1
        /\ waiters'[Len(waiters) + 1] = f
        /\ \A i \in 1..Len(waiters) : waiters'[i] = waiters[i]
    BY <1>0, <1>2 DEF AcquireLater
  <2>3. Holders' = Holders
    BY <2>1 DEF Holders, InPhase
  <2>4. SlotAccounting'
    BY <1>2, <2>3 DEF SlotAccounting, AcquireLater
  <2>5. TypeOK'
    BY <1>0, <1>2, <2>1, <2>2 DEF TypeOK, AcquireLater
  <2>6. QueueIsWaiting'
    <3>1. \A i \in 1..Len(waiters) : waiters[i] # f
      BY <1>0, <2>1 DEF QueueIsWaiting
    <3>2. \A i, j \in DOMAIN waiters' : waiters'[i] = waiters'[j] => i = j
      BY <1>0, <2>2, <3>1 DEF QueueIsWaiting
    <3>3. ASSUME NEW g \in Files
          PROVE  phase'[g] = "waiting" <=> \E i \in DOMAIN waiters' : waiters'[i] = g
      <4>1. CASE g = f
        <5>1. Len(waiters) + 1 \in DOMAIN waiters'
          BY <1>0, <2>2
        <5>2. QED
          BY <2>1, <2>2, <4>1, <5>1
      <4>2. CASE g # f
        <5>1. (\E i \in DOMAIN waiters' : waiters'[i] = g)
                <=> \E i \in DOMAIN waiters : waiters[i] = g
          BY <1>0, <2>2, <4>2
        <5>2. QED
          BY <2>1, <4>2, <5>1 DEF QueueIsWaiting
      <4>3. QED
        BY <4>1, <4>2
    <3>4. QED
      BY <3>2, <3>3 DEF QueueIsWaiting
  <2>7. NoLostWakeup'
    <3>1. Cardinality(Holders) # 0
      BY <1>0, <1>2 DEF AcquireLater, SlotAccounting
    <3>2. Holders # {}
      BY <3>1, FS_EmptySet
    <3>3. QED
      BY <2>3, <3>2 DEF NoLostWakeup
  <2>8. QED
    BY <2>4, <2>5, <2>6, <2>7
<1>3. ASSUME NEW f \in Files, ResumeAcquire(f) PROVE IInv'
  <2>1. /\ phase' \in [Files -> Phases] /\ phase'[f] = "opening"
        /\ \A g \in Files : g # f => phase'[g] = phase[g]
        /\ phase[f] = "woken"
    BY <1>0, <1>3 DEF ResumeAcquire, Phases
  <2>2. f \notin Holders /\ Holders' = Holders \cup {f}
    BY <2>1 DEF Holders, InPhase
  <2>3. SlotAccounting'
    BY <1>3, <2>2, OneHolderMore DEF ResumeAcquire
  <2>4. TypeOK'
    BY <1>0, <1>3, <2>1 DEF TypeOK, ResumeAcquire
  <2>5. QueueIsWaiting'
    BY <1>3, <2>1 DEF QueueIsWaiting, ResumeAcquire
  <2>6. NoLostWakeup'
    BY <2>2 DEF NoLostWakeup
  <2>7. QED
    BY <2>3, <2>4, <2>5, <2>6
<1>4. ASSUME NEW f \in Files, OpenFails(f) \/ Leave(f) PROVE IInv'
  <2>1. f \in Holders
    BY <1>4 DEF OpenFails, Leave, Holders, InPhase
  <2>2. QED
    BY <1>4, <2>1, ReleaseKeepsIInv DEF OpenFails, Leave
<1>5. ASSUME NEW f \in Files, StartStreaming(f) \/ Settle(f) PROVE IInv'
  <2>1. /\ phase' \in [Files -> Phases] /\ phase'[f] \in {"streaming", "settled"}
        /\ \A g \in Files : g # f => phase'[g] = phase[g]
        /\ phase[f] \in {"opening", "streaming"}
        /\ UNCHANGED <<limit, active, waiters>> /\ paused' \subseteq paused
    BY <1>0, <1>5 DEF StartStreaming, Settle, Phases
  <2>2. /\ Holders' = Holders
        /\ InPhase({"woken"})' = InPhase({"woken"})
        /\ \A g \in Files : phase'[g] = "waiting" <=> phase[g] = "waiting"
    BY <2>1 DEF Holders, InPhase
  <2>3. TypeOK'
    BY <1>0, <2>1 DEF TypeOK
  <2>4. QED
    BY <2>1, <2>2, <2>3, SameSlots
<1>6. ASSUME NEW f \in Files, Pause(f) \/ Unpause(f) PROVE IInv'
  <2>1. TypeOK' /\ UNCHANGED <<active, waiters, phase>>
    BY <1>0, <1>6 DEF Pause, Unpause, TypeOK
  <2>2. QED
    BY <2>1, SameSlots DEF Holders, InPhase
<1>7. ASSUME NEW n \in Limits, SetLimit(n) PROVE IInv'
  <2>1. TypeOK' /\ UNCHANGED <<active, waiters, phase>>
    BY <1>0, <1>7 DEF SetLimit, TypeOK
  <2>2. QED
    BY <2>1, SameSlots DEF Holders, InPhase
<1>8. CASE UNCHANGED vars
  <2>1. TypeOK' /\ UNCHANGED <<active, waiters, phase>>
    BY <1>8 DEF vars, TypeOK
  <2>2. QED
    BY <2>1, SameSlots DEF Holders, InPhase
<1>9. QED
  BY <1>1, <1>2, <1>3, <1>4, <1>5, <1>6, <1>7, <1>8 DEF Next, CallStep

-----------------------------------------------------------------------------

(* The inductive invariant holds of the specification, fair or not.        *)
THEOREM Inductive == Spec => []IInv
<1>1. QED
  BY InitIInv, NextIInv, PTL DEF Spec

(* Type correctness of the gate.                                           *)
THEOREM TypeCorrect == Spec => []TypeOK
<1>1. IInv => TypeOK
  BY DEF IInv
<1>2. QED
  BY <1>1, Inductive, PTL

(***************************************************************************)
(* downloadFile and uploadFile never leak a slot nor return one twice, for *)
(* any number of transfers, any limits and any failures.                   *)
(***************************************************************************)
THEOREM SlotsAccounted == Spec => []SlotAccounting
<1>1. IInv => SlotAccounting
  BY DEF IInv
<1>2. QED
  BY <1>1, Inductive, PTL

(***************************************************************************)
(* A queued transfer is never stranded: somebody that will call release()  *)
(* is always there, whatever the user does to transfer.maxConcurrent.      *)
(***************************************************************************)
THEOREM WakeupNeverLost == Spec => []NoLostWakeup
<1>1. IInv => NoLostWakeup
  BY DEF IInv
<1>2. QED
  BY <1>1, Inductive, PTL

(***************************************************************************)
(* acquire's waiters and the suspended calls never disagree: no call is    *)
(* queued twice, forgotten, or left in the queue after release() woke it.  *)
(***************************************************************************)
THEOREM QueueAgrees == Spec => []QueueIsWaiting
<1>1. IInv => QueueIsWaiting
  BY DEF IInv
<1>2. QED
  BY <1>1, Inductive, PTL

(***************************************************************************)
(* release() serves the queue from its head only, one call at a time.      *)
(***************************************************************************)
THEOREM ServedInOrder == Spec => FifoService
<1>1. ASSUME TypeOK, Next, NEW f \in Files, phase[f] = "waiting", phase'[f] # "waiting"
      PROVE  Head(waiters) = f /\ waiters' = Tail(waiters)
  <2>1. phase \in [Files -> Phases]
    BY <1>1 DEF TypeOK
  <2>2. PICK g \in Files : OpenFails(g) \/ Leave(g)
    BY <1>1, <2>1 DEF Next, CallStep, AcquireNow, AcquireLater, ResumeAcquire,
                      StartStreaming, Pause, Unpause, Settle, SetLimit, Phases
  <2>3. Release(g) /\ g # f
    BY <1>1, <2>2 DEF OpenFails, Leave
  <2>4. CASE waiters = <<>>
    BY <1>1, <2>1, <2>3, <2>4 DEF Release
  <2>5. CASE waiters # <<>>
    BY <1>1, <2>1, <2>3, <2>5 DEF Release
  <2>6. QED
    BY <2>4, <2>5
<1>2. TypeOK /\ [Next]_vars =>
        [\A f \in Files :
           phase[f] = "waiting" /\ phase'[f] # "waiting" =>
             Head(waiters) = f /\ waiters' = Tail(waiters)]_vars
  BY <1>1
<1>3. QED
  BY <1>2, TypeCorrect, PTL DEF Spec, FifoService

-----------------------------------------------------------------------------
(* From here on, the gate with the file manager's requests around it       *)
(* (FileTransfers): a folder calls acquire() for all its files in a row.   *)

(* What the calls of a row do: the first `now` of them get a slot.         *)
LEMMA AcquiresFacts ==
  ASSUME TypeOK, NEW fs \in Seq(Files), Acquires(fs, active)
  PROVE  \E now \in 0 .. Len(fs) :
           /\ now < Len(fs) => active + now >= limit
           /\ active' = active + now
           /\ waiters' = waiters \o SubSeq(fs, now + 1, Len(fs))
           /\ phase' \in [Files -> Phases]
           /\ \A i \in 1 .. now : phase'[fs[i]] = "opening"
           /\ \A i \in (now + 1) .. Len(fs) :
                (\A j \in 1 .. now : fs[j] # fs[i]) => phase'[fs[i]] = "waiting"
           /\ \A f \in Files : (\A i \in DOMAIN fs : fs[i] # f) => phase'[f] = phase[f]
<1> DEFINE now == IF limit <= active THEN 0
                  ELSE IF limit - active < Len(fs) THEN limit - active ELSE Len(fs)
<1>1. limit \in Nat \ {0} /\ active \in Nat /\ waiters \in Seq(Files) /\ phase \in [Files -> Phases]
  BY LimitsAssumption DEF TypeOK
<1>2. /\ now \in 0 .. Len(fs)
      /\ now < Len(fs) => active + now >= limit
  BY <1>1
<1>3. /\ active' = active + now
      /\ phase' = [f \in Files |->
                     IF f \notin ToSet(fs) THEN phase[f]
                     ELSE IF f \in ToSet(SubSeq(fs, 1, now)) THEN "opening" ELSE "waiting"]
      /\ waiters' = waiters \o SubSeq(fs, now + 1, Len(fs))
  BY DEF Acquires
<1> HIDE DEF now
<1>4. phase' \in [Files -> Phases]
  BY <1>1, <1>3 DEF Phases
<1>5. \A f : f \in ToSet(fs) <=> \E i \in DOMAIN fs : fs[i] = f
  BY DEF ToSet
<1>6. \A f : f \in ToSet(SubSeq(fs, 1, now)) <=> \E i \in 1 .. now : fs[i] = f
  <2>1. /\ Len(SubSeq(fs, 1, now)) = now /\ SubSeq(fs, 1, now) \in Seq(Files)
        /\ \A i \in 1 .. now : SubSeq(fs, 1, now)[i] = fs[i]
    BY <1>2
  <2>2. DOMAIN SubSeq(fs, 1, now) = 1 .. now
    BY <1>2, <2>1
  <2>3. QED
    BY <2>1, <2>2 DEF ToSet
<1>7. \A i \in DOMAIN fs : fs[i] \in Files
  OBVIOUS
<1>8. \A i \in 1 .. now : phase'[fs[i]] = "opening"
  BY <1>2, <1>3, <1>5, <1>6, <1>7
<1>9. \A i \in (now + 1) .. Len(fs) :
        (\A j \in 1 .. now : fs[j] # fs[i]) => phase'[fs[i]] = "waiting"
  BY <1>2, <1>3, <1>5, <1>6, <1>7
<1>10. \A f \in Files : (\A i \in DOMAIN fs : fs[i] # f) => phase'[f] = phase[f]
  BY <1>3, <1>5
<1>11. QED
  BY <1>2, <1>3, <1>4, <1>8, <1>9, <1>10

(* So many distinct calls hold so many slots.                              *)
LEMMA FirstOnesCounted ==
  ASSUME NEW fs \in Seq(Files), NEW now \in 0 .. Len(fs),
         \A i, j \in DOMAIN fs : fs[i] = fs[j] => i = j
  PROVE  LET S == {fs[i] : i \in 1 .. now}
         IN IsFiniteSet(S) /\ Cardinality(S) = now
<1> DEFINE S == {fs[i] : i \in 1 .. now}
           g == [i \in 1 .. now |-> fs[i]]
<1>1. g \in [1 .. now -> S]
  OBVIOUS
<1>2. \A i, j \in 1 .. now : g[i] = g[j] => i = j
  OBVIOUS
<1>3. \A f \in S : \E i \in 1 .. now : g[i] = f
  OBVIOUS
<1>4. ExistsBijection(1 .. now, S)
  BY <1>1, <1>2, <1>3 DEF ExistsBijection, Bijection, Injection, Surjection, IsInjective
<1>5. IsFiniteSet(1 .. now) /\ Cardinality(1 .. now) = now
  BY FS_Interval
<1>6. QED
  BY <1>4, <1>5, FS_Bijection

(* A row of calls of idle, distinct files keeps the gate's invariant.      *)
LEMMA AcquiresKeepIInv ==
  ASSUME IInv, NEW fs \in Seq(Files), Acquires(fs, active), UNCHANGED <<limit, paused>>,
         \A i, j \in DOMAIN fs : fs[i] = fs[j] => i = j,
         \A i \in DOMAIN fs : phase[fs[i]] = "idle"
  PROVE  IInv'
<1>0. /\ TypeOK /\ SlotAccounting /\ QueueIsWaiting /\ NoLostWakeup
      /\ phase \in [Files -> Phases] /\ waiters \in Seq(Files)
      /\ active \in Nat /\ limit \in Limits /\ limit \in Nat \ {0} /\ paused \in SUBSET Files
  BY LimitsAssumption DEF IInv, TypeOK
<1>1. PICK now \in 0 .. Len(fs) :
        /\ now < Len(fs) => active + now >= limit
        /\ active' = active + now
        /\ waiters' = waiters \o SubSeq(fs, now + 1, Len(fs))
        /\ phase' \in [Files -> Phases]
        /\ \A i \in 1 .. now : phase'[fs[i]] = "opening"
        /\ \A i \in (now + 1) .. Len(fs) :
             (\A j \in 1 .. now : fs[j] # fs[i]) => phase'[fs[i]] = "waiting"
        /\ \A f \in Files : (\A i \in DOMAIN fs : fs[i] # f) => phase'[f] = phase[f]
  BY <1>0, AcquiresFacts
<1> DEFINE S == {fs[i] : i \in 1 .. now}
           rest == SubSeq(fs, now + 1, Len(fs))
<1>2. /\ DOMAIN fs = 1 .. Len(fs) /\ Len(fs) \in Nat /\ now \in Nat
      /\ \A i \in 1 .. Len(fs) : fs[i] \in Files
  OBVIOUS
<1>3. /\ \A i \in (now + 1) .. Len(fs) : phase'[fs[i]] = "waiting" /\ fs[i] \notin S
      /\ \A f \in S : f \in Files /\ phase[f] = "idle" /\ phase'[f] = "opening"
  <2>1. \A i \in (now + 1) .. Len(fs) : i \in DOMAIN fs /\ \A j \in 1 .. now : j \in DOMAIN fs /\ j # i
    BY <1>2
  <2>2. \A i \in (now + 1) .. Len(fs) : \A j \in 1 .. now : fs[j] # fs[i]
    BY <2>1
  <2>3. \A i \in 1 .. now : i \in DOMAIN fs /\ fs[i] \in Files /\ phase[fs[i]] = "idle"
    BY <1>2
  <2>4. \A i \in (now + 1) .. Len(fs) : phase'[fs[i]] = "waiting"
    BY <1>1, <2>2
  <2>5. \A i \in (now + 1) .. Len(fs) : fs[i] \notin S
    BY <2>2
  <2>6. \A i \in 1 .. now : phase'[fs[i]] = "opening"
    BY <1>1
  <2>7. \A f \in S : f \in Files /\ phase[f] = "idle" /\ phase'[f] = "opening"
    BY <2>3, <2>6
  <2> HIDE DEF S, rest
  <2>8. QED
    BY <2>4, <2>5, <2>7
<1>4. \A f \in Files : phase'[f] = phase[f] \/ f \in S \/ \E i \in (now + 1) .. Len(fs) : fs[i] = f
  BY <1>1, <1>2
<1>5. Holders' = Holders \cup S /\ Holders \cap S = {}
  <2>1. ASSUME NEW f \in Files PROVE f \in Holders' <=> f \in Holders \/ f \in S
    BY <1>2, <1>3, <1>4 DEF Holders, InPhase
  <2>2. Holders \subseteq Files /\ Holders' \subseteq Files
    BY DEF Holders, InPhase
  <2>3. S \subseteq Files
    BY <1>3
  <2>4. \A f \in S : f \notin Holders
    BY <1>3 DEF Holders, InPhase
  <2>5. QED
    BY <2>1, <2>2, <2>3, <2>4
<1>6. IsFiniteSet(S) /\ Cardinality(S) = now
  BY FirstOnesCounted
<1>7. SlotAccounting'
  <2>1. Cardinality(Holders \cup S) = Cardinality(Holders) + Cardinality(S) - Cardinality(Holders \cap S)
    BY <1>6, HoldersFinite, FS_Union
  <2>2. Cardinality(Holders \cup S) = active + now
    <3>1. Cardinality(Holders \cap S) = 0
      BY <1>5, FS_EmptySet
    <3>2. Cardinality(Holders) = active
      BY <1>0 DEF SlotAccounting
    <3> HIDE DEF S
    <3>3. QED
      BY <1>0, <1>2, <1>6, <2>1, <3>1, <3>2
  <2>3. QED
    BY <1>1, <1>5, <2>2 DEF SlotAccounting
<1>8. /\ rest \in Seq(Files) /\ Len(rest) = Len(fs) - now
      /\ \A i \in 1 .. (Len(fs) - now) : rest[i] = fs[now + i]
  <2>1. \A i \in (now + 1) .. Len(fs) : fs[i] \in Files
    BY <1>2
  <2>2. /\ rest \in Seq(Files) /\ Len(rest) = IF now + 1 <= Len(fs) THEN Len(fs) - (now + 1) + 1 ELSE 0
        /\ \A i \in 1 .. Len(fs) - (now + 1) + 1 : rest[i] = fs[(now + 1) + i - 1]
    BY <1>2, <2>1, SubSeqProperties
  <2> HIDE DEF S, rest
  <2>3. \A i \in 1 .. (Len(fs) - now) : rest[i] = fs[now + i]
    <3>1. ASSUME NEW i \in 1 .. (Len(fs) - now) PROVE rest[i] = fs[now + i]
      <4>1. i \in 1 .. Len(fs) - (now + 1) + 1 /\ (now + 1) + i - 1 = now + i
        BY <1>2
      <4>2. QED
        BY <2>2, <4>1
    <3>2. QED
      BY <3>1
  <2>4. Len(rest) = Len(fs) - now
    <3>1. now \in Nat /\ Len(fs) \in Nat /\ now <= Len(fs)
      BY <1>2
    <3>2. Len(rest) = IF now + 1 <= Len(fs) THEN Len(fs) - (now + 1) + 1 ELSE 0
      BY <2>2
    <3>3. QED
      BY <3>1, <3>2
  <2>5. QED
    BY <2>2, <2>3, <2>4
<1> HIDE DEF S, rest
<1>9. /\ waiters' = waiters \o rest
      /\ waiters' \in Seq(Files) /\ Len(waiters') = Len(waiters) + (Len(fs) - now)
      /\ DOMAIN waiters' = 1 .. (Len(waiters) + (Len(fs) - now))
      /\ \A i \in 1 .. Len(waiters) : waiters'[i] = waiters[i]
      /\ \A i \in (Len(waiters) + 1) .. (Len(waiters) + (Len(fs) - now)) :
           waiters'[i] = rest[i - Len(waiters)]
  <2>1. waiters' = waiters \o rest
    BY <1>1 DEF rest
  <2>2. waiters \in Seq(Files) /\ rest \in Seq(Files)
    BY <1>0, <1>8
  <2>3. waiters \o rest \in Seq(Files) /\ Len(waiters \o rest) = Len(waiters) + Len(rest)
    BY <2>2
  <2>4. \A i \in 1 .. (Len(waiters) + Len(rest)) :
          (waiters \o rest)[i] = IF i <= Len(waiters) THEN waiters[i] ELSE rest[i - Len(waiters)]
    BY <2>2
  <2>5. Len(rest) = Len(fs) - now /\ Len(rest) \in Nat /\ Len(waiters) \in Nat
    BY <1>8, <2>2
  <2>6. waiters' \in Seq(Files) /\ Len(waiters') = Len(waiters) + (Len(fs) - now)
    BY <2>1, <2>3, <2>5
  <2>7. DOMAIN waiters' = 1 .. (Len(waiters) + (Len(fs) - now))
    BY <2>6
  <2>8. \A i \in 1 .. Len(waiters) : waiters'[i] = waiters[i]
    BY <2>1, <2>4, <2>5
  <2>9. \A i \in (Len(waiters) + 1) .. (Len(waiters) + Len(rest)) : waiters'[i] = rest[i - Len(waiters)]
    BY <2>1, <2>4, <2>5
  <2>10. \A i \in (Len(waiters) + 1) .. (Len(waiters) + (Len(fs) - now)) :
           waiters'[i] = rest[i - Len(waiters)]
    BY <2>5, <2>9
  <2>11. QED
    BY <2>1, <2>6, <2>7, <2>8, <2>10
<1>10. TypeOK'
  BY <1>0, <1>1, <1>2, <1>9 DEF TypeOK
<1>11. \A i \in (Len(waiters) + 1) .. Len(waiters') :
         /\ i - Len(waiters) + now \in (now + 1) .. Len(fs)
         /\ waiters'[i] = fs[i - Len(waiters) + now]
  <2>1. ASSUME NEW i \in (Len(waiters) + 1) .. Len(waiters')
        PROVE  /\ i - Len(waiters) + now \in (now + 1) .. Len(fs)
               /\ waiters'[i] = fs[i - Len(waiters) + now]
    <3>1. /\ Len(waiters) \in Nat /\ i \in (Len(waiters) + 1) .. (Len(waiters) + (Len(fs) - now))
          /\ i - Len(waiters) \in 1 .. (Len(fs) - now)
      <4>1. Len(waiters) \in Nat
        BY <1>0
      <4>2. Len(waiters') = Len(waiters) + (Len(fs) - now)
        BY <1>9
      <4>3. i \in (Len(waiters) + 1) .. (Len(waiters) + (Len(fs) - now))
        BY <2>1, <4>2
      <4>4. QED
        BY <1>2, <4>1, <4>3
    <3>2. waiters'[i] = rest[i - Len(waiters)] /\ rest[i - Len(waiters)] = fs[now + (i - Len(waiters))]
      BY <1>8, <1>9, <3>1
    <3>3. now + (i - Len(waiters)) = i - Len(waiters) + now /\ i - Len(waiters) + now \in (now + 1) .. Len(fs)
      BY <1>2, <3>1
    <3>4. QED
      BY <3>2, <3>3
  <2>2. QED
    BY <2>1
<1>12. QueueIsWaiting'
  <2>1. \A i \in 1 .. Len(waiters) : phase[waiters[i]] = "waiting" /\ waiters'[i] = waiters[i]
    BY <1>0, <1>9 DEF QueueIsWaiting
  <2>2. \A i \in 1 .. Len(waiters) : \A j \in 1 .. Len(fs) : waiters[i] # fs[j]
    BY <1>2, <2>1
  <2>3. ASSUME NEW i \in DOMAIN waiters', NEW j \in DOMAIN waiters', waiters'[i] = waiters'[j]
        PROVE  i = j
    <3>1. CASE i <= Len(waiters) /\ j <= Len(waiters)
      BY <1>0, <1>9, <2>1, <2>3, <3>1 DEF QueueIsWaiting
    <3>2. CASE i > Len(waiters) /\ j > Len(waiters)
      <4>1. i - Len(waiters) + now = j - Len(waiters) + now
        <5>1. /\ fs[i - Len(waiters) + now] = fs[j - Len(waiters) + now]
              /\ i - Len(waiters) + now \in DOMAIN fs /\ j - Len(waiters) + now \in DOMAIN fs
          <6>1. i \in (Len(waiters) + 1) .. Len(waiters') /\ j \in (Len(waiters) + 1) .. Len(waiters')
            BY <1>0, <1>2, <1>9, <3>2
          <6>2. (now + 1) .. Len(fs) \subseteq DOMAIN fs
            BY <1>2
          <6>3. QED
            BY <1>11, <2>3, <6>1, <6>2
        <5>2. QED
          BY <5>1
      <4>2. QED
        BY <1>0, <1>2, <1>9, <4>1
    <3>3. CASE i <= Len(waiters) /\ j > Len(waiters)
      <4>1. /\ i \in 1 .. Len(waiters) /\ waiters'[i] = waiters[i]
            /\ j \in (Len(waiters) + 1) .. Len(waiters')
        BY <1>0, <1>9, <2>1, <3>3
      <4>2. (now + 1) .. Len(fs) \subseteq 1 .. Len(fs)
        BY <1>2
      <4>3. QED
        BY <1>11, <2>2, <2>3, <4>1, <4>2
    <3>4. CASE i > Len(waiters) /\ j <= Len(waiters)
      <4>1. /\ j \in 1 .. Len(waiters) /\ waiters'[j] = waiters[j]
            /\ i \in (Len(waiters) + 1) .. Len(waiters')
        BY <1>0, <1>9, <2>1, <3>4
      <4>2. (now + 1) .. Len(fs) \subseteq 1 .. Len(fs)
        BY <1>2
      <4>3. QED
        BY <1>11, <2>2, <2>3, <4>1, <4>2
    <3>5. QED
      BY <1>0, <1>9, <3>1, <3>2, <3>3, <3>4
  <2>4. ASSUME NEW f \in Files, phase'[f] = "waiting"
        PROVE  \E i \in DOMAIN waiters' : waiters'[i] = f
    <3>1. CASE \E i \in (now + 1) .. Len(fs) : fs[i] = f
      <4>1. PICK i \in (now + 1) .. Len(fs) : fs[i] = f
        BY <3>1
      <4>2. DEFINE k == Len(waiters) + (i - now)
      <4>3. k \in (Len(waiters) + 1) .. Len(waiters') /\ k - Len(waiters) + now = i /\ k \in DOMAIN waiters'
        BY <1>0, <1>2, <1>9, <4>1
      <4>4. waiters'[k] = f
        BY <1>11, <4>1, <4>3
      <4>5. QED
        BY <4>3, <4>4
    <3>2. CASE ~\E i \in (now + 1) .. Len(fs) : fs[i] = f
      <4>1. phase[f] = "waiting"
        BY <1>3, <1>4, <2>4, <3>2
      <4>2. PICK i \in DOMAIN waiters : waiters[i] = f
        BY <1>0, <4>1 DEF QueueIsWaiting
      <4>3. i \in 1 .. Len(waiters) /\ i \in DOMAIN waiters'
        BY <1>0, <1>2, <1>9, <4>2
      <4>4. QED
        BY <2>1, <4>2, <4>3
    <3>3. QED
      BY <3>1, <3>2
  <2>5. ASSUME NEW f \in Files, NEW i \in DOMAIN waiters', waiters'[i] = f
        PROVE  phase'[f] = "waiting"
    <3>1. CASE i <= Len(waiters)
      <4>1. i \in 1 .. Len(waiters)
        BY <1>0, <1>9, <3>1
      <4>2. phase[f] = "waiting" /\ \A j \in 1 .. Len(fs) : f # fs[j]
        BY <2>1, <2>2, <2>5, <4>1
      <4>3. QED
        BY <1>1, <1>2, <4>2
    <3>2. CASE i > Len(waiters)
      <4>1. i \in (Len(waiters) + 1) .. Len(waiters')
        BY <1>0, <1>9, <3>2
      <4>2. QED
        BY <1>3, <1>11, <2>5, <4>1
    <3>3. QED
      BY <1>0, <1>9, <3>1, <3>2
  <2>6. QED
    BY <2>3, <2>4, <2>5 DEF QueueIsWaiting
<1>13. NoLostWakeup'
  <2> SUFFICES ASSUME waiters' # <<>> PROVE (Holders \cup InPhase({"woken"}))' # {}
    BY DEF NoLostWakeup
  <2>1. CASE now < Len(fs)
    <3>1. Cardinality(Holders') # 0
      BY <1>0, <1>1, <1>2, <1>7, <2>1 DEF SlotAccounting
    <3>2. QED
      BY <3>1, FS_EmptySet
  <2>2. CASE ~(now < Len(fs))
    <3>1. waiters # <<>>
      BY <1>0, <1>1, <1>2, <1>9, <2>2
    <3>2. PICK f \in Files : f \in Holders \/ f \in InPhase({"woken"})
      BY <1>0, <3>1 DEF NoLostWakeup, Holders, InPhase
    <3>3. phase'[f] = phase[f]
      BY <1>1, <3>2 DEF Holders, InPhase
    <3>4. QED
      BY <3>2, <3>3 DEF Holders, InPhase
  <2>3. QED
    BY <2>1, <2>2
<1>14. QED
  BY <1>7, <1>10, <1>12, <1>13 DEF IInv

-----------------------------------------------------------------------------
(* The requests' part: what they, their files and the destination have to  *)
(* do with each other at every step.                                       *)

Steps == {"idle", "listing", "naming", "asking", "looking", "files", "unlinking", "done"}
Outcomes == {"none", "called", "writing", "stray", "done", "failed", "cancelled"}
Marks == {Nothing, "old", "dir"} \cup Files

Request == [at : Steps, entry : Nat, existing : SUBSET Names, name : Names \cup {Nothing},
            said : SUBSET Names, todo : SUBSET Paths]
Told == {"ok", "failed", "skipped"}

BatchTypes ==
  /\ scene \in Scenes
  /\ batch \in [Batches -> Request] /\ told \in [Batches -> Seq(Told)]
  /\ there \in [Paths -> Marks]
  /\ path \in [Files -> Paths \cup {Nothing}]
  /\ outcome \in [Files -> Outcomes]

Resting(b) == batch[b].at \in {"idle", "done"}

(* A request that is under way is at one of its entries, and where its     *)
(* kind can take it.                                                       *)
WhereOf(b) ==
  LET at == batch[b].at
  IN /\ at = "idle" => batch[b].entry = 0
     /\ at # "idle" => batch[b].entry \in 1 .. (Len(scene.plans[b].entries) + 1)
     /\ ~Resting(b) => batch[b].entry \in DOMAIN scene.plans[b].entries
     /\ at \in {"listing", "asking"} => Kind(b) = "copy"
     /\ at = "unlinking" => Kind(b) = "delete"
     /\ at \in {"looking", "files"} => Kind(b) # "delete" /\ batch[b].name \in Names
     /\ \A p \in batch[b].todo : Len(p) = 2

(* A call that is under way is a loose one, or of the entry its request    *)
(* waits for.                                                              *)
BusyIsAsked ==
  \A f \in Files : phase[f] # "idle" =>
    f \in scene.loose \/ \E b \in Asked : batch[b].at = "files" /\ f \in FilesOf(b)

(* What became of a file and where its call is suspended agree.            *)
OutcomeOf(f) ==
  IF f \in scene.loose THEN outcome[f] = "none"
  ELSE /\ phase[f] \in {"waiting", "woken", "opening"} => outcome[f] = "called"
       /\ phase[f] = "streaming" => outcome[f] \in {"writing", "stray"}
       /\ phase[f] = "settled" => outcome[f] \in {"done", "failed", "cancelled"}
       /\ phase[f] = "idle" => outcome[f] \in {"none", "done", "failed", "cancelled"}

(* Nothing was done for an entry whose turn has not come.                  *)
NotYet(b) ==
  \A i \in DOMAIN scene.plans[b].entries :
    i > batch[b].entry \/ (i = batch[b].entry /\ batch[b].at # "files") =>
      \A f \in ToSet(scene.plans[b].entries[i].files) : outcome[f] = "none"

(* The files of the entry that is being transferred were called, each with *)
(* its place.                                                              *)
Placed(b) ==
  batch[b].at = "files" =>
    \A f \in FilesOf(b) : path[f] = PathOf(b, f) /\ outcome[f] # "none"

(* One request at a time, in a calm scene.                                 *)
OneAtATime ==
  scene.calm => \A b, c \in Asked : ~Resting(b) /\ ~Resting(c) => b = c

(* The destination is a tree at every moment.                              *)
IsTree ==
  \A n, m \in Names : there[<<n, m>>] # Nothing => there[<<n, m>>] # "dir" /\ there[<<n>>] = "dir"

(* In a calm scene nobody takes a file's place from it before its entry is *)
(* reported.                                                               *)
KeepsPlaces(b) ==
  scene.calm /\ batch[b].at = "files" =>
    \A f \in FilesOf(b) :
      /\ outcome[f] \in {"writing", "done"} => there[path[f]] = f
      /\ outcome[f] \in {"stray", "cancelled"} /\ EntryOf(b).dir => there[path[f]] \in {Nothing, f}

(* A drop that could list the destination knows every name taken in it.    *)
Watchful(b) == scene.calm /\ scene.readable /\ Kind(b) = "copy"
KnowsTaken(b) ==
  Watchful(b) /\ batch[b].at \in {"naming", "asking", "looking", "files"} =>
    /\ \A n \in Names : there[<<n>>] # Nothing => n \in batch[b].existing
    /\ batch[b].at \in {"looking", "files"} => batch[b].name \in batch[b].existing

(* The name it writes as was free, unless it was told to write over it;    *)
(* and what is there by now is this entry's own.                           *)
Sparing(b) == Watchful(b) /\ scene.policy # "overwrite" /\ batch[b].name \notin batch[b].said
WasFree(b) ==
  Sparing(b) =>
    \A p \in Paths : p[1] = batch[b].name /\ there[p] # Nothing =>
      /\ batch[b].at # "looking"
      /\ batch[b].at = "files" =>
           (EntryOf(b).dir /\ Len(p) = 1)
           \/ \E f \in FilesOf(b) : p = PathOf(b, f) /\ outcome[f] # "called"

FInv ==
  /\ BatchTypes /\ BusyIsAsked /\ OneAtATime /\ IsTree
  /\ \A f \in Files : OutcomeOf(f)
  /\ \A b \in Asked : WhereOf(b) /\ NotYet(b) /\ Placed(b)
  /\ \A b \in Asked : KeepsPlaces(b) /\ KnowsTaken(b) /\ WasFree(b)

-----------------------------------------------------------------------------

(* What the scenes are assumed to be, of the scene at hand.                *)
LEMMA PlanFacts ==
  ASSUME scene \in Scenes
  PROVE  /\ Asked \subseteq Batches /\ scene.loose \subseteq Files
         /\ \A b \in Asked :
              /\ Kind(b) \in {"copy", "open", "delete"} /\ scene.plans[b].up \in BOOLEAN
              /\ scene.plans[b].entries \in Seq(Entry) /\ Len(scene.plans[b].entries) \in Nat \ {0}
<1>1. /\ Asked \subseteq Batches /\ scene.loose \subseteq Files
      /\ scene.plans \in [Asked -> Plan]
  BY SceneAssumption DEF Asked
<1>2. \A b \in Asked : scene.plans[b] \in Plan /\ scene.plans[b].entries # <<>>
  BY <1>1, TreeAssumption DEF Asked
<1>3. \A b \in Asked : scene.plans[b].entries \in Seq(Entry) /\ scene.plans[b].entries # <<>>
  BY <1>2 DEF Plan
<1>4. \A b \in Asked : Len(scene.plans[b].entries) \in Nat \ {0}
  BY <1>3
<1>5. QED
  BY <1>1, <1>2, <1>3, <1>4 DEF Plan, Kind

(* An entry: its files are files, none of them loose, no two of them of    *)
(* one name, and none of them of another entry.                            *)
LEMMA EntryFacts ==
  ASSUME scene \in Scenes, NEW b \in Asked, NEW i \in DOMAIN scene.plans[b].entries
  PROVE  LET e == scene.plans[b].entries[i]
         IN /\ e.name \in Names /\ e.dir \in BOOLEAN /\ e.files \in Seq(Files)
            /\ \A f \in ToSet(e.files) : f \in Files /\ f \notin scene.loose
            /\ \A j, k \in DOMAIN e.files : e.files[j] = e.files[k] => j = k
            /\ \A f, g \in ToSet(e.files) : ~e.dir \/ Base[f] = Base[g] => f = g
            /\ \A c \in Asked : \A k \in DOMAIN scene.plans[c].entries :
                 \A f \in ToSet(e.files) :
                   f \in ToSet(scene.plans[c].entries[k].files) => b = c /\ i = k
<1> DEFINE e == scene.plans[b].entries[i]
<1>1. e \in Entry
  BY PlanFacts
<1>2. e.name \in Names /\ e.dir \in BOOLEAN /\ e.files \in Seq(Files)
  BY <1>1 DEF Entry
<1>3. /\ ToSet(e.files) \cap scene.loose = {}
      /\ IF e.dir THEN \A j, k \in DOMAIN e.files : Base[e.files[j]] = Base[e.files[k]] => j = k
         ELSE Len(e.files) = 1
      /\ \A c \in Asked : \A k \in DOMAIN scene.plans[c].entries :
           ToSet(e.files) \cap ToSet(scene.plans[c].entries[k].files) # {} => b = c /\ i = k
  BY TreeAssumption DEF Asked
<1>4. \A f : f \in ToSet(e.files) <=> \E j \in DOMAIN e.files : e.files[j] = f
  BY DEF ToSet
<1> HIDE DEF e
<1>5. \A j \in DOMAIN e.files : e.files[j] \in Files
  BY <1>2
<1>6. \A j, k \in DOMAIN e.files : e.files[j] = e.files[k] => j = k
  BY <1>2, <1>3
<1>7. \A f, g \in ToSet(e.files) : ~e.dir \/ Base[f] = Base[g] => f = g
  BY <1>2, <1>3, <1>4
<1>8. \A f \in ToSet(e.files) : f \in Files /\ f \notin scene.loose
  BY <1>3, <1>4, <1>5
<1>9. \A c \in Asked : \A k \in DOMAIN scene.plans[c].entries :
        \A f \in ToSet(e.files) :
          f \in ToSet(scene.plans[c].entries[k].files) => b = c /\ i = k
  BY <1>3
<1>10. QED
  BY <1>2, <1>6, <1>7, <1>8, <1>9 DEF e

(* Paths, and the places of an entry's files.                              *)
LEMMA PathFacts ==
  /\ \A p \in Paths : \/ \E n \in Names : p = <<n>>
                      \/ \E n, m \in Names : p = <<n, m>>
  /\ \A p \in Paths : Len(p) \in {1, 2} /\ p[1] \in Names
  /\ \A n \in Names : <<n>> \in Paths /\ Len(<<n>>) = 1 /\ <<n>>[1] = n
  /\ \A n, m \in Names : <<n, m>> \in Paths /\ Len(<<n, m>>) = 2 /\ <<n, m>>[1] = n
<1>1. \A p \in Paths : \/ \E n \in Names : p = <<n>>
                       \/ \E n, m \in Names : p = <<n, m>>
  BY DEF Paths
<1>2. \A n \in Names : <<n>> \in Paths /\ Len(<<n>>) = 1 /\ <<n>>[1] = n
  BY DEF Paths
<1>3. \A n, m \in Names : <<n, m>> \in Paths /\ Len(<<n, m>>) = 2 /\ <<n, m>>[1] = n
  BY DEF Paths
<1>4. QED
  BY <1>1, <1>2, <1>3

LEMMA PlaceFacts ==
  ASSUME FInv, NEW b \in Asked, batch[b].at \in {"looking", "files"}
  PROVE  /\ EntryOf(b).dir \in BOOLEAN /\ EntryOf(b).name \in Names
         /\ <<batch[b].name>> \in Paths
         /\ \A f \in FilesOf(b) :
              /\ f \in Files /\ f \notin scene.loose
              /\ PathOf(b, f) \in Paths /\ PathOf(b, f)[1] = batch[b].name
              /\ Len(PathOf(b, f)) = IF EntryOf(b).dir THEN 2 ELSE 1
              /\ \A g \in FilesOf(b) : PathOf(b, f) = PathOf(b, g) => f = g
<1>1. /\ batch[b].entry \in DOMAIN scene.plans[b].entries /\ batch[b].name \in Names
      /\ scene \in Scenes
  BY DEF FInv, WhereOf, Resting, BatchTypes
<1> DEFINE e == EntryOf(b)
<1>2. /\ e.name \in Names /\ e.dir \in BOOLEAN
      /\ \A f \in FilesOf(b) : f \in Files /\ f \notin scene.loose
      /\ \A f, g \in FilesOf(b) : ~e.dir \/ Base[f] = Base[g] => f = g
  BY <1>1, EntryFacts DEF EntryOf, FilesOf
<1> HIDE DEF e
<1>3. \A f \in FilesOf(b) : Base[f] \in Names
  BY <1>2, NamesAssumption
<1>4. \A f \in FilesOf(b) : PathOf(b, f) = IF e.dir THEN <<batch[b].name, Base[f]>> ELSE <<batch[b].name>>
  BY DEF PathOf, e
<1>5. \A f, g \in FilesOf(b) : PathOf(b, f) = PathOf(b, g) => f = g
  BY <1>2, <1>3, <1>4
<1>6. \A f \in FilesOf(b) : /\ PathOf(b, f) \in Paths /\ PathOf(b, f)[1] = batch[b].name
                            /\ Len(PathOf(b, f)) = IF e.dir THEN 2 ELSE 1
  BY <1>1, <1>2, <1>3, <1>4, PathFacts
<1>7. QED
  BY <1>1, <1>2, <1>5, <1>6, PathFacts DEF e

(* A call under way is of one request, the one that waits for it.          *)
LEMMA OwnerOfBusy ==
  ASSUME FInv, NEW f \in Files, f \notin scene.loose, phase[f] # "idle"
  PROVE  \E b \in Asked : /\ batch[b].at = "files" /\ f \in FilesOf(b)
                          /\ path[f] = PathOf(b, f) /\ path[f] \in Paths
                          /\ \A c \in Asked : batch[c].at = "files" /\ f \in FilesOf(c) => c = b
<1>1. PICK b \in Asked : batch[b].at = "files" /\ f \in FilesOf(b)
  BY DEF FInv, BusyIsAsked
<1>2. path[f] = PathOf(b, f) /\ path[f] \in Paths
  BY <1>1, PlaceFacts DEF FInv, Placed
<1>3. ASSUME NEW c \in Asked, batch[c].at = "files", f \in FilesOf(c)
      PROVE  c = b
  <2>1. /\ batch[b].entry \in DOMAIN scene.plans[b].entries
        /\ batch[c].entry \in DOMAIN scene.plans[c].entries /\ scene \in Scenes
    BY <1>1, <1>3 DEF FInv, WhereOf, Resting, BatchTypes
  <2>2. QED
    BY <1>1, <1>3, <2>1, EntryFacts DEF EntryOf, FilesOf
<1>4. QED
  BY <1>1, <1>2, <1>3

-----------------------------------------------------------------------------
(* The files' steps.                                                       *)

(* A step of one call moves no other one but out of the queue.             *)
Undisturbed(f) ==
  \A g \in Files : g # f => phase'[g] = phase[g] \/ (phase[g] = "waiting" /\ phase'[g] = "woken")

LEMMA ReleaseMoves ==
  ASSUME IInv, NEW f \in Files, f \in Holders, Release(f)
  PROVE  phase'[f] = "idle" /\ Undisturbed(f)
<1>0. phase \in [Files -> Phases] /\ waiters \in Seq(Files)
  BY DEF IInv, TypeOK
<1>1. CASE waiters = <<>>
  BY <1>0, <1>1 DEF Release, Undisturbed
<1>2. CASE waiters # <<>>
  <2> DEFINE h == Head(waiters)
  <2>1. h \in Files /\ h = waiters[1] /\ 1 \in DOMAIN waiters
    BY <1>0, <1>2
  <2>2. phase[h] = "waiting" /\ h # f
    BY <2>1 DEF IInv, QueueIsWaiting, Holders, InPhase
  <2>3. phase' = [phase EXCEPT ![f] = "idle", ![h] = "woken"]
    BY <1>2 DEF Release
  <2> HIDE DEF h
  <2>4. QED
    BY <1>0, <2>1, <2>2, <2>3 DEF Undisturbed
<1>3. QED
  BY <1>1, <1>2

(* What a step of a file may do to its outcome and to the destination.     *)
LEMMA FileKeeps ==
  ASSUME FInv, NEW f \in Files, Undisturbed(f), phase' \in [Files -> Phases],
         UNCHANGED <<scene, batch, told, path>>, OutcomeOf(f)', IsTree',
         outcome' \in [Files -> Outcomes], there' \in [Paths -> Marks],
         \A g \in Files : g # f => outcome'[g] = outcome[g],
         \/ f \in scene.loose /\ UNCHANGED <<there, outcome>>
         \/ /\ f \notin scene.loose /\ phase[f] # "idle" /\ outcome'[f] # "none"
            /\ \A p \in Paths : p # path[f] => there'[p] = there[p]
            /\ outcome'[f] = "called" => outcome[f] = "called" /\ there' = there
            /\ scene.calm /\ outcome'[f] \in {"writing", "done"} => there'[path[f]] = f
            /\ scene.calm /\ outcome'[f] \in {"stray", "cancelled"} /\ Len(path[f]) = 2 =>
                 there'[path[f]] \in {Nothing, f}
  PROVE  FInv'
<1>1. BatchTypes'
  BY DEF FInv, BatchTypes
<1>2. \A b \in Asked : batch'[b] = batch[b] /\ EntryOf(b)' = EntryOf(b) /\ FilesOf(b)' = FilesOf(b) /\ Kind(b)' = Kind(b)
  BY DEF EntryOf, FilesOf, Kind
<1>3. Asked' = Asked /\ scene' = scene /\ path' = path
  BY DEF Asked
<1>4. BusyIsAsked'
  <2>1. ASSUME NEW g \in Files, phase'[g] # "idle"
        PROVE  g \in scene.loose \/ \E b \in Asked : batch[b].at = "files" /\ g \in FilesOf(b)
    <3>1. CASE phase[g] # "idle"
      BY <3>1 DEF FInv, BusyIsAsked
    <3>2. CASE phase[g] = "idle"
      BY <2>1, <3>2 DEF Undisturbed
    <3>3. QED
      BY <3>1, <3>2
  <2>2. QED
    BY <1>2, <1>3, <2>1 DEF BusyIsAsked
<1>5. OneAtATime'
  BY <1>2, <1>3 DEF FInv, OneAtATime, Resting
<1>6. \A g \in Files : OutcomeOf(g)'
  <2>1. ASSUME NEW g \in Files, g # f PROVE OutcomeOf(g)'
    <3>1. OutcomeOf(g) /\ outcome'[g] = outcome[g]
      BY <2>1 DEF FInv
    <3>2. phase'[g] = phase[g] \/ (phase[g] = "waiting" /\ phase'[g] = "woken")
      BY <2>1 DEF Undisturbed
    <3>3. QED
      BY <1>3, <3>1, <3>2 DEF OutcomeOf
  <2>2. QED
    BY <2>1
<1>7. \A b \in Asked : WhereOf(b)'
  BY <1>2, <1>3 DEF FInv, WhereOf, Resting
<1>8. CASE f \in scene.loose
  <2>1. UNCHANGED <<there, outcome>>
    BY <1>8
  <2>2. ASSUME NEW b \in Asked
        PROVE  NotYet(b)' /\ Placed(b)' /\ KeepsPlaces(b)' /\ KnowsTaken(b)' /\ WasFree(b)'
    <3>1. NotYet(b) /\ Placed(b) /\ KeepsPlaces(b) /\ KnowsTaken(b) /\ WasFree(b)
      BY DEF FInv
    <3>2. NotYet(b)'
      BY <1>2, <1>3, <2>1, <3>1 DEF NotYet
    <3>3. Placed(b)'
      BY <1>2, <1>3, <2>1, <3>1 DEF Placed, PathOf
    <3>4. KeepsPlaces(b)'
      BY <1>2, <1>3, <2>1, <3>1 DEF KeepsPlaces
    <3>5. KnowsTaken(b)'
      BY <1>2, <1>3, <2>1, <3>1 DEF KnowsTaken, Watchful
    <3>6. WasFree(b)'
      BY <1>2, <1>3, <2>1, <3>1 DEF WasFree, Sparing, Watchful, PathOf
    <3>7. QED
      BY <3>2, <3>3, <3>4, <3>5, <3>6
  <2>3. QED
    BY <1>1, <1>3, <1>4, <1>5, <1>6, <1>7, <2>2 DEF FInv
<1>9. CASE f \notin scene.loose
  <2>1. /\ phase[f] # "idle" /\ outcome'[f] # "none"
        /\ \A p \in Paths : p # path[f] => there'[p] = there[p]
        /\ outcome'[f] = "called" => outcome[f] = "called" /\ there' = there
        /\ scene.calm /\ outcome'[f] \in {"writing", "done"} => there'[path[f]] = f
        /\ scene.calm /\ outcome'[f] \in {"stray", "cancelled"} /\ Len(path[f]) = 2 =>
             there'[path[f]] \in {Nothing, f}
    BY <1>9
  <2>2. PICK b \in Asked : /\ batch[b].at = "files" /\ f \in FilesOf(b)
                           /\ path[f] = PathOf(b, f) /\ path[f] \in Paths
                           /\ \A c \in Asked : batch[c].at = "files" /\ f \in FilesOf(c) => c = b
    BY <1>9, <2>1, OwnerOfBusy
  <2>3. \A c \in Asked : scene.calm /\ ~Resting(c) => c = b
    BY <2>2 DEF FInv, OneAtATime, Resting
  <2>4. \A c \in Asked : NotYet(c)'
    <3>1. ASSUME NEW c \in Asked, NEW i \in DOMAIN scene.plans[c].entries,
                 i > batch[c].entry \/ (i = batch[c].entry /\ batch[c].at # "files"),
                 NEW g \in ToSet(scene.plans[c].entries[i].files)
          PROVE  outcome'[g] = "none"
      <4>1. outcome[g] = "none" /\ g \in Files
        BY <3>1, EntryFacts DEF FInv, NotYet, BatchTypes
      <4>2. outcome[f] # "none"
        BY <2>2 DEF FInv, Placed
      <4>3. QED
        BY <4>1, <4>2
    <3>2. QED
      BY <1>2, <1>3, <3>1 DEF NotYet
  <2>5. \A c \in Asked : Placed(c)'
    <3>1. ASSUME NEW c \in Asked, batch[c].at = "files", NEW g \in FilesOf(c)
          PROVE  path[g] = PathOf(c, g) /\ outcome'[g] # "none"
      <4>1. path[g] = PathOf(c, g) /\ outcome[g] # "none" /\ g \in Files
        BY <3>1, PlaceFacts DEF FInv, Placed
      <4>2. QED
        BY <2>1, <4>1
    <3>2. QED
      BY <1>2, <1>3, <3>1 DEF Placed, PathOf
  <2>6. ASSUME NEW c \in Asked, c # b
        PROVE  KeepsPlaces(c)' /\ KnowsTaken(c)' /\ WasFree(c)'
    <3>1. ~scene.calm \/ Resting(c)
      BY <2>3, <2>6
    <3>2. KeepsPlaces(c)' /\ KnowsTaken(c)'
      BY <1>2, <1>3, <3>1 DEF KeepsPlaces, KnowsTaken, Watchful, Resting
    <3>3. WasFree(c)'
      BY <1>2, <1>3, <3>1 DEF WasFree, Sparing, Watchful, Resting
    <3>4. QED
      BY <3>2, <3>3
  <2>7. KeepsPlaces(b)'
    <3>1. ASSUME scene.calm, NEW g \in FilesOf(b)
          PROVE  /\ outcome'[g] \in {"writing", "done"} => there'[path[g]] = g
                 /\ outcome'[g] \in {"stray", "cancelled"} /\ EntryOf(b).dir => there'[path[g]] \in {Nothing, g}
      <4>0. /\ g \in Files /\ f \in FilesOf(b) /\ path[g] = PathOf(b, g) /\ path[g] \in Paths
            /\ Len(path[g]) = IF EntryOf(b).dir THEN 2 ELSE 1
            /\ path[g] = path[f] => g = f
        <5>1. path[g] = PathOf(b, g) /\ path[f] = PathOf(b, f)
          BY <2>2, <3>1 DEF FInv, Placed
        <5>2. /\ g \in Files /\ PathOf(b, g) \in Paths
              /\ Len(PathOf(b, g)) = IF EntryOf(b).dir THEN 2 ELSE 1
              /\ PathOf(b, g) = PathOf(b, f) => g = f
          BY <2>2, <3>1, PlaceFacts
        <5>3. QED
          BY <2>2, <5>1, <5>2
      <4>1. CASE g = f
        BY <2>1, <3>1, <4>0, <4>1
      <4>2. CASE g # f
        <5>1. there'[path[g]] = there[path[g]] /\ outcome'[g] = outcome[g]
          BY <2>1, <4>0, <4>2
        <5>2. QED
          BY <2>2, <3>1, <5>1 DEF FInv, KeepsPlaces
      <4>3. QED
        BY <4>1, <4>2
    <3>2. QED
      BY <1>2, <1>3, <3>1 DEF KeepsPlaces
  <2>8. KnowsTaken(b)'
    <3>1. ASSUME Watchful(b)
          PROVE  /\ \A n \in Names : there'[<<n>>] # Nothing => n \in batch[b].existing
                 /\ batch[b].name \in batch[b].existing
      <4>1. /\ \A n \in Names : there[<<n>>] # Nothing => n \in batch[b].existing
            /\ batch[b].name \in batch[b].existing
        BY <2>2, <3>1 DEF FInv, KnowsTaken
      <4>2. path[f][1] = batch[b].name
        BY <2>2, PlaceFacts
      <4>3. \A n \in Names : <<n>> \in Paths /\ <<n>>[1] = n
        BY PathFacts
      <4>4. QED
        BY <2>1, <4>1, <4>2, <4>3
    <3>2. Watchful(b)' <=> Watchful(b)
      BY <1>2, <1>3 DEF Watchful
    <3>3. QED
      BY <1>2, <1>3, <3>1, <3>2 DEF KnowsTaken
  <2>9. WasFree(b)'
    <3>1. ASSUME Sparing(b), NEW p \in Paths, p[1] = batch[b].name, there'[p] # Nothing
          PROVE  (EntryOf(b).dir /\ Len(p) = 1)
                 \/ \E g \in FilesOf(b) : p = PathOf(b, g) /\ outcome'[g] # "called"
      <4>1. CASE outcome'[f] # "called" /\ p = path[f]
        BY <2>2, <4>1
      <4>2. CASE outcome'[f] = "called" \/ p # path[f]
        <5>1. there'[p] = there[p]
          BY <2>1, <4>2
        <5>2. CASE EntryOf(b).dir /\ Len(p) = 1
          BY <5>2
        <5>3. CASE ~(EntryOf(b).dir /\ Len(p) = 1)
          <6>1. PICK g \in FilesOf(b) : p = PathOf(b, g) /\ outcome[g] # "called"
            BY <2>2, <3>1, <5>1, <5>3 DEF FInv, WasFree
          <6>2. g # f /\ g \in Files
            BY <2>1, <2>2, <4>2, <6>1, PlaceFacts
          <6>3. QED
            BY <6>1, <6>2
        <5>4. QED
          BY <5>2, <5>3
      <4>3. QED
        BY <4>1, <4>2
    <3>2. Sparing(b)' <=> Sparing(b)
      BY <1>2, <1>3 DEF Sparing, Watchful
    <3>3. \A g : PathOf(b, g)' = PathOf(b, g)
      BY <1>2 DEF PathOf
    <3>4. QED
      BY <1>2, <1>3, <2>2, <3>1, <3>2, <3>3 DEF WasFree
  <2>10. QED
    BY <1>1, <1>3, <1>4, <1>5, <1>6, <1>7, <2>4, <2>5, <2>6, <2>7, <2>8, <2>9 DEF FInv
<1>10. QED
  BY <1>8, <1>9

(* Every step of the whole keeps the gate's invariant: a folder whose turn *)
(* has come has idle files only.                                           *)
LEMMA CallsAreIdle ==
  ASSUME FInv, NEW b \in Asked, batch[b].at = "looking"
  PROVE  /\ EntryOf(b).files \in Seq(Files)
         /\ \A i, j \in DOMAIN EntryOf(b).files : EntryOf(b).files[i] = EntryOf(b).files[j] => i = j
         /\ \A i \in DOMAIN EntryOf(b).files : phase[EntryOf(b).files[i]] = "idle"
         /\ \A f \in FilesOf(b) : phase[f] = "idle" /\ outcome[f] = "none"
<1>1. batch[b].entry \in DOMAIN scene.plans[b].entries /\ scene \in Scenes
  BY DEF FInv, WhereOf, Resting, BatchTypes
<1>2. /\ EntryOf(b).files \in Seq(Files)
      /\ \A i, j \in DOMAIN EntryOf(b).files : EntryOf(b).files[i] = EntryOf(b).files[j] => i = j
      /\ \A f \in FilesOf(b) : f \in Files /\ f \notin scene.loose
  BY <1>1, EntryFacts DEF EntryOf, FilesOf
<1>3. ASSUME NEW f \in FilesOf(b) PROVE phase[f] = "idle" /\ outcome[f] = "none"
  <2>1. ASSUME phase[f] # "idle" PROVE FALSE
    <3>1. PICK c \in Asked : batch[c].at = "files" /\ f \in FilesOf(c)
      BY <1>2, <1>3, <2>1, OwnerOfBusy
    <3>2. batch[c].entry \in DOMAIN scene.plans[c].entries
      BY <3>1 DEF FInv, WhereOf, Resting
    <3>3. b = c
      BY <1>1, <1>3, <3>1, <3>2, EntryFacts DEF EntryOf, FilesOf
    <3>4. QED
      BY <3>1, <3>3
  <2>2. outcome[f] = "none"
    BY <1>1, <1>3 DEF FInv, NotYet, EntryOf, FilesOf
  <2>3. QED
    BY <2>1, <2>2
<1>4. \A i \in DOMAIN EntryOf(b).files : EntryOf(b).files[i] \in FilesOf(b)
  BY DEF FilesOf, ToSet
<1>5. QED
  BY <1>2, <1>3, <1>4

LEMMA FNextIInv ==
  ASSUME IInv, FInv, [FNext]_allvars
  PROVE  IInv'
<1>1. ASSUME NEW f \in Files, FileStep(f) PROVE [Next]_vars
  BY <1>1 DEF FileStep, LooseCall, FileOpenFails, FileStarts, FileSettles, Next, CallStep
<1>2. ASSUME NEW n \in Limits, SetLimit(n) PROVE [Next]_vars
  BY <1>2 DEF Next
<1>3. ASSUME NEW b \in Asked, Starts(b) PROVE IInv'
  <2>1. batch[b].at = "looking" /\ Acquires(EntryOf(b).files, active) /\ UNCHANGED <<limit, paused>>
    BY <1>3 DEF Starts, At, Calls
  <2>2. QED
    BY <2>1, CallsAreIdle, AcquiresKeepIInv
<1>4. ASSUME NEW b \in Asked, Drop(b) \/ (Goes(b) /\ ~Starts(b)) PROVE [Next]_vars
  BY <1>4 DEF Goes, Drop, Listed, ListingFails, ResolveName, Answers, Opens, LookFails, Settled,
              Deletes, Unlinks, Rmdir
<1>5. CASE UNCHANGED allvars
  BY <1>5, NextIInv DEF allvars
<1>6. QED
  BY <1>1, <1>2, <1>3, <1>4, <1>5, NextIInv DEF FNext

LEMMA FileStepKeeps ==
  ASSUME FInv, IInv, IInv', NEW f \in Files, FileStep(f)
  PROVE  FInv'
<1>0. /\ phase \in [Files -> Phases] /\ phase' \in [Files -> Phases]
      /\ outcome \in [Files -> Outcomes] /\ there \in [Paths -> Marks] /\ path \in [Files -> Paths \cup {Nothing}]
      /\ OutcomeOf(f) /\ IsTree
  BY DEF IInv, TypeOK, FInv, BatchTypes
<1>1. UNCHANGED <<scene, batch, told, path>>
  BY DEF FileStep, LooseCall, FileOpenFails, FileStarts, FileSettles, batchvars
<1>2. CASE f \in scene.loose
  <2>1. UNCHANGED <<there, outcome>>
    BY <1>0, <1>2 DEF FileStep, LooseCall, FileOpenFails, FileStarts, FileSettles, batchvars,
                      Becomes, OutcomeOf
  <2>2. Undisturbed(f)
    <3>1. CASE OpenFails(f) \/ Leave(f)
      BY <3>1, ReleaseMoves DEF OpenFails, Leave, Holders, InPhase
    <3>2. CASE ~(OpenFails(f) \/ Leave(f))
      BY <1>0, <3>2 DEF FileStep, LooseCall, FileOpenFails, FileStarts, FileSettles, AcquireNow,
                        AcquireLater, StartStreaming, Settle, ResumeAcquire, Pause, Unpause, Undisturbed
    <3>3. QED
      BY <3>1, <3>2
  <2>3. OutcomeOf(f)' /\ IsTree'
    BY <1>0, <1>1, <1>2, <2>1 DEF OutcomeOf, IsTree
  <2>4. QED
    BY <1>0, <1>1, <1>2, <2>1, <2>2, <2>3, FileKeeps
<1>3. CASE f \notin scene.loose
  <2>0. /\ phase[f] \in {"waiting", "woken", "opening"} => outcome[f] = "called"
        /\ phase[f] = "streaming" => outcome[f] \in {"writing", "stray"}
        /\ phase[f] = "settled" => outcome[f] \in {"done", "failed", "cancelled"}
    BY <1>0, <1>3 DEF OutcomeOf
  <2>1. ~LooseCall(f)
    BY <1>3 DEF LooseCall
  <2>2. phase[f] # "idle"
    BY <2>1 DEF FileStep, FileOpenFails, OpenFails, FileStarts, StartStreaming, FileSettles, Settle,
                ResumeAcquire, Leave, Pause, Unpause
  <2>3. PICK b \in Asked : /\ batch[b].at = "files" /\ f \in FilesOf(b)
                           /\ path[f] = PathOf(b, f) /\ path[f] \in Paths
    BY <1>3, <2>2, OwnerOfBusy
  <2>4. CASE FileOpenFails(f)
    <3>1. phase[f] = "opening" /\ phase'[f] = "idle" /\ Undisturbed(f)
      BY <2>4, ReleaseMoves DEF FileOpenFails, OpenFails, Holders, InPhase
    <3>2. there' = there /\ outcome' = [outcome EXCEPT ![f] = "failed"]
      BY <1>3, <2>4 DEF FileOpenFails, Becomes
    <3>3. /\ outcome'[f] = "failed" /\ outcome' \in [Files -> Outcomes]
          /\ \A g \in Files : g # f => outcome'[g] = outcome[g]
      BY <1>0, <3>2 DEF Outcomes
    <3>4. OutcomeOf(f)' /\ IsTree'
      BY <1>0, <1>1, <1>3, <3>1, <3>2, <3>3 DEF OutcomeOf, IsTree
    <3>5. QED
      BY <1>0, <1>1, <1>3, <2>2, <3>1, <3>2, <3>3, <3>4, FileKeeps
  <2>5. CASE FileStarts(f)
    <3>1. phase[f] = "opening" /\ phase'[f] = "streaming" /\ Undisturbed(f)
      BY <1>0, <2>5 DEF FileStarts, StartStreaming, Undisturbed
    <3>2. CASE ~Writable(path[f])
      <4>1. there' = there /\ outcome' = [outcome EXCEPT ![f] = "stray"]
        BY <1>3, <2>5, <3>2 DEF FileStarts, Becomes
      <4>2. /\ outcome'[f] = "stray" /\ outcome' \in [Files -> Outcomes]
            /\ \A g \in Files : g # f => outcome'[g] = outcome[g]
        BY <1>0, <4>1 DEF Outcomes
      <4>3. OutcomeOf(f)' /\ IsTree'
        BY <1>0, <1>1, <1>3, <3>1, <4>1, <4>2 DEF OutcomeOf, IsTree
      <4>4. Len(path[f]) = 2 => there[path[f]] = Nothing
        <5>1. ASSUME Len(path[f]) = 2 PROVE there[path[f]] = Nothing
          <6>1. PICK n \in Names, m \in Names : path[f] = <<n, m>>
            BY <2>3, <5>1, PathFacts
          <6>2. there[<<n, m>>] # Nothing => there[<<n, m>>] # "dir" /\ there[<<n>>] = "dir"
            BY <1>0 DEF IsTree
          <6>3. there[<<n, m>>] # Nothing => Writable(<<n, m>>)
            BY <6>2 DEF Writable
          <6>4. QED
            BY <3>2, <6>1, <6>3
        <5>2. QED
          BY <5>1
      <4>5. QED
        BY <1>0, <1>1, <1>3, <2>2, <3>1, <4>1, <4>2, <4>3, <4>4, FileKeeps
    <3>3. CASE Writable(path[f])
      <4>1. there' = [there EXCEPT ![path[f]] = f] /\ outcome' = [outcome EXCEPT ![f] = "writing"]
        BY <1>3, <2>5, <3>3 DEF FileStarts, Becomes
      <4>2. /\ outcome'[f] = "writing" /\ outcome' \in [Files -> Outcomes]
            /\ \A g \in Files : g # f => outcome'[g] = outcome[g]
        BY <1>0, <4>1 DEF Outcomes
      <4>3. /\ there'[path[f]] = f /\ there' \in [Paths -> Marks]
            /\ \A p \in Paths : p # path[f] => there'[p] = there[p]
        BY <1>0, <2>3, <4>1 DEF Marks
      <4>4. OutcomeOf(f)'
        BY <1>1, <1>3, <3>1, <4>2 DEF OutcomeOf
      <4>5. IsTree'
        <5>1. ASSUME NEW n \in Names, NEW m \in Names, there'[<<n, m>>] # Nothing
              PROVE  there'[<<n, m>>] # "dir" /\ there'[<<n>>] = "dir"
          <6>0. <<n>> \in Paths /\ <<n, m>> \in Paths /\ <<n>> # <<n, m>>
            BY PathFacts
          <6>1. there[<<n, m>>] # Nothing => there[<<n, m>>] # "dir" /\ there[<<n>>] = "dir"
            BY <1>0 DEF IsTree
          <6>2. there[path[f]] # "dir" /\ (Len(path[f]) = 2 => there[<<path[f][1]>>] = "dir")
            BY <3>3 DEF Writable
          <6>3. CASE path[f] = <<n, m>>
            <7>1. there[<<n>>] = "dir"
              BY <6>2, <6>3, PathFacts
            <7>2. f # "dir"
              BY NamesAssumption
            <7>3. QED
              BY <4>3, <6>0, <6>3, <7>1, <7>2
          <6>4. CASE path[f] # <<n, m>>
            BY <4>3, <5>1, <6>0, <6>1, <6>2, <6>4
          <6>5. QED
            BY <6>3, <6>4
        <5>2. QED
          BY <5>1 DEF IsTree
      <4>6. QED
        BY <1>0, <1>1, <1>3, <2>2, <3>1, <4>2, <4>3, <4>4, <4>5, FileKeeps
    <3>4. QED
      BY <3>2, <3>3
  <2>6. CASE FileSettles(f)
    <3>1. phase[f] = "streaming" /\ phase'[f] = "settled" /\ Undisturbed(f)
      BY <1>0, <2>6 DEF FileSettles, Settle, Undisturbed
    <3>2. CASE outcome[f] = "writing" /\ Becomes(f, "done") /\ UNCHANGED there
      <4>1. /\ outcome'[f] = "done" /\ outcome' \in [Files -> Outcomes]
            /\ \A g \in Files : g # f => outcome'[g] = outcome[g]
        BY <1>0, <3>2 DEF Outcomes, Becomes
      <4>2. OutcomeOf(f)' /\ IsTree'
        BY <1>0, <1>1, <1>3, <3>1, <3>2, <4>1 DEF OutcomeOf, IsTree
      <4>3. scene.calm => there'[path[f]] = f
        BY <2>3, <3>2 DEF FInv, KeepsPlaces
      <4>4. QED
        BY <1>0, <1>1, <1>3, <2>2, <3>1, <3>2, <4>1, <4>2, <4>3, FileKeeps
    <3>3. CASE Becomes(f, "failed") /\ UNCHANGED there
      <4>1. /\ outcome'[f] = "failed" /\ outcome' \in [Files -> Outcomes]
            /\ \A g \in Files : g # f => outcome'[g] = outcome[g]
        BY <1>0, <3>3 DEF Outcomes, Becomes
      <4>2. OutcomeOf(f)' /\ IsTree'
        BY <1>0, <1>1, <1>3, <3>1, <3>3, <4>1 DEF OutcomeOf, IsTree
      <4>3. QED
        BY <1>0, <1>1, <1>3, <2>2, <3>1, <3>3, <4>1, <4>2, FileKeeps
    <3>4. CASE Becomes(f, "cancelled") /\ Removed(f)
      <4>1. /\ outcome'[f] = "cancelled" /\ outcome' \in [Files -> Outcomes]
            /\ \A g \in Files : g # f => outcome'[g] = outcome[g]
        BY <1>0, <3>4 DEF Outcomes, Becomes
      <4>2. /\ there' \in [Paths -> Marks]
            /\ there'[path[f]] \in {there[path[f]], Nothing}
            /\ there[path[f]] = "dir" => there'[path[f]] = "dir"
            /\ \A p \in Paths : p # path[f] => there'[p] = there[p]
        <5>1. CASE there' = [there EXCEPT ![path[f]] = IF @ = "dir" THEN @ ELSE Nothing]
          BY <1>0, <2>3, <5>1 DEF Marks
        <5>2. CASE UNCHANGED there
          BY <1>0, <5>2
        <5>3. QED
          BY <3>4, <5>1, <5>2 DEF Removed
      <4>3. OutcomeOf(f)'
        BY <1>1, <1>3, <3>1, <4>1 DEF OutcomeOf
      <4>4. IsTree'
        <5>1. ASSUME NEW n \in Names, NEW m \in Names, there'[<<n, m>>] # Nothing
              PROVE  there'[<<n, m>>] # "dir" /\ there'[<<n>>] = "dir"
          <6>0. <<n>> \in Paths /\ <<n, m>> \in Paths
            BY PathFacts
          <6>1. there[<<n, m>>] # Nothing => there[<<n, m>>] # "dir" /\ there[<<n>>] = "dir"
            BY <1>0 DEF IsTree
          <6>2. there[<<n, m>>] # Nothing /\ there'[<<n, m>>] = there[<<n, m>>]
            BY <4>2, <5>1, <6>0
          <6>3. there'[<<n>>] = there[<<n>>]
            BY <4>2, <6>0, <6>1, <6>2
          <6>4. QED
            BY <6>1, <6>2, <6>3
        <5>2. QED
          BY <5>1 DEF IsTree
      <4>5. scene.calm /\ Len(path[f]) = 2 => there'[path[f]] \in {Nothing, f}
        <5>1. Len(PathOf(b, f)) = IF EntryOf(b).dir THEN 2 ELSE 1
          BY <2>3, PlaceFacts
        <5>2. Len(path[f]) = 2 => EntryOf(b).dir
          BY <2>3, <5>1
        <5>3. scene.calm /\ Len(path[f]) = 2 => there[path[f]] \in {Nothing, f}
          BY <2>0, <2>3, <3>1, <5>2 DEF FInv, KeepsPlaces
        <5>4. QED
          BY <4>2, <5>3
      <4>6. QED
        BY <1>0, <1>1, <1>3, <2>2, <3>1, <4>1, <4>2, <4>3, <4>4, <4>5, FileKeeps
    <3>5. QED
      BY <1>3, <2>6, <3>2, <3>3, <3>4 DEF FileSettles
  <2>7. CASE (ResumeAcquire(f) \/ Leave(f) \/ Pause(f) \/ Unpause(f)) /\ UNCHANGED batchvars
    <3>1. UNCHANGED <<there, outcome>>
      BY <2>7 DEF batchvars
    <3>2. Undisturbed(f) /\ OutcomeOf(f)'
      <4>1. CASE Leave(f)
        <5>1. phase[f] = "settled" /\ phase'[f] = "idle" /\ Undisturbed(f)
          BY <4>1, ReleaseMoves DEF Leave, Holders, InPhase
        <5>2. QED
          BY <1>1, <1>3, <2>0, <3>1, <5>1 DEF OutcomeOf
      <4>2. CASE ResumeAcquire(f)
        <5>1. phase[f] = "woken" /\ phase'[f] = "opening" /\ Undisturbed(f)
          BY <1>0, <4>2 DEF ResumeAcquire, Undisturbed
        <5>2. QED
          BY <1>1, <1>3, <2>0, <3>1, <5>1 DEF OutcomeOf
      <4>3. CASE Pause(f) \/ Unpause(f)
        <5>1. phase' = phase
          BY <4>3 DEF Pause, Unpause
        <5>2. QED
          BY <1>0, <1>1, <3>1, <5>1 DEF OutcomeOf, Undisturbed
      <4>4. QED
        BY <2>7, <4>1, <4>2, <4>3
    <3>3. outcome[f] # "none"
      BY <2>3 DEF FInv, Placed
    <3>4. /\ outcome'[f] = outcome[f] /\ \A g \in Files : outcome'[g] = outcome[g]
          /\ outcome' \in [Files -> Outcomes] /\ there' \in [Paths -> Marks] /\ IsTree'
      BY <1>0, <3>1 DEF IsTree
    <3>5. scene.calm /\ outcome'[f] \in {"writing", "done"} => there'[path[f]] = f
      BY <2>3, <3>1 DEF FInv, KeepsPlaces
    <3>6. scene.calm /\ outcome'[f] \in {"stray", "cancelled"} /\ Len(path[f]) = 2 =>
            there'[path[f]] \in {Nothing, f}
      <4>1. Len(path[f]) = 2 => EntryOf(b).dir
        <5>1. Len(PathOf(b, f)) = IF EntryOf(b).dir THEN 2 ELSE 1
          BY <2>3, PlaceFacts
        <5>2. Len(PathOf(b, f)) = 2 => EntryOf(b).dir
          BY <5>1
        <5>3. QED
          BY <2>3, <5>2
      <4>2. QED
        BY <2>3, <3>1, <4>1 DEF FInv, KeepsPlaces
    <3>7. QED
      BY <1>0, <1>1, <1>3, <2>2, <3>1, <3>2, <3>3, <3>4, <3>5, <3>6, FileKeeps
  <2>8. QED
    BY <2>1, <2>4, <2>5, <2>6, <2>7 DEF FileStep
<1>4. QED
  BY <1>2, <1>3

-----------------------------------------------------------------------------
(* The requests' steps.                                                    *)

(* A request's record.                                                     *)
LEMMA RequestFields ==
  ASSUME NEW r \in Request
  PROVE  /\ r.at \in Steps /\ r.entry \in Nat /\ r.existing \subseteq Names
         /\ r.name \in Names \cup {Nothing} /\ r.said \subseteq Names /\ r.todo \subseteq Paths
<1>1. QED
  BY DEF Request

(* A step of one request that calls no file and writes nothing.            *)
LEMMA RequestKeeps ==
  ASSUME FInv, NEW b \in Asked, UNCHANGED <<phase, scene, path, outcome>>,
         batch' \in [Batches -> Request], told' \in [Batches -> Seq(Told)], there' \in [Paths -> Marks],
         \A c \in Batches : c # b => batch'[c] = batch[c],
         WhereOf(b)', IsTree', KnowsTaken(b)', WasFree(b)',
         batch'[b].at # "files", batch'[b].entry >= batch[b].entry,
         batch[b].at = "files" =>
           batch'[b].entry > batch[b].entry /\ \A f \in FilesOf(b) : phase[f] = "idle",
         \A p \in Paths : there'[p] # Nothing => there'[p] = there[p],
         there' = there \/ ~Resting(b),
         ~Resting(b) \/ (scene.calm => \A c \in Asked : Resting(c))
  PROVE  FInv'
<1>0. /\ Asked \subseteq Batches /\ batch \in [Batches -> Request] /\ batch[b].entry \in Nat /\ batch'[b].entry \in Nat
      /\ \A c \in Asked : c # b => batch'[c] = batch[c]
  <2>1. Asked \subseteq Batches
    BY PlanFacts DEF FInv, BatchTypes
  <2>2. batch \in [Batches -> Request]
    BY DEF FInv, BatchTypes
  <2>3. QED
    <3>1. batch[b] \in Request /\ batch'[b] \in Request
      BY <2>1, <2>2
    <3>2. batch[b].entry \in Nat /\ batch'[b].entry \in Nat
      BY <3>1, RequestFields
    <3>3. QED
      BY <2>1, <2>2, <3>2
<1>1. Asked' = Asked /\ scene' = scene /\ path' = path /\ outcome' = outcome /\ phase' = phase
  BY DEF Asked
<1>2. /\ \A c \in Asked : Kind(c)' = Kind(c)
      /\ \A c \in Asked : c # b => EntryOf(c)' = EntryOf(c) /\ FilesOf(c)' = FilesOf(c)
      /\ \A c \in Asked : c # b => \A f : PathOf(c, f)' = PathOf(c, f)
  BY <1>0, <1>1 DEF Kind, EntryOf, FilesOf, PathOf
<1>3. BatchTypes'
  BY <1>1 DEF FInv, BatchTypes
<1>4. BusyIsAsked'
  <2>1. ASSUME NEW f \in Files, phase[f] # "idle", f \notin scene.loose
        PROVE  \E c \in Asked : batch'[c].at = "files" /\ f \in FilesOf(c)'
    <3>1. PICK c \in Asked : batch[c].at = "files" /\ f \in FilesOf(c)
      BY <2>1 DEF FInv, BusyIsAsked
    <3>2. c # b
      BY <2>1, <3>1
    <3>3. QED
      BY <1>0, <1>2, <3>1, <3>2
  <2>2. QED
    BY <1>1, <2>1 DEF BusyIsAsked
<1>5. OneAtATime'
  BY <1>0, <1>1 DEF FInv, OneAtATime, Resting
<1>6. \A f \in Files : OutcomeOf(f)'
  BY <1>1 DEF FInv, OutcomeOf
<1>7. \A c \in Asked : scene.calm /\ c # b /\ ~Resting(c) => Resting(b) /\ there' = there
  BY DEF FInv, OneAtATime
<1>8. ASSUME NEW c \in Asked, c # b
      PROVE  /\ WhereOf(c)' /\ NotYet(c)' /\ Placed(c)'
             /\ KeepsPlaces(c)' /\ KnowsTaken(c)' /\ WasFree(c)'
  <2>0. /\ WhereOf(c) /\ NotYet(c) /\ Placed(c) /\ KeepsPlaces(c) /\ KnowsTaken(c) /\ WasFree(c)
        /\ batch'[c] = batch[c]
    BY <1>0, <1>8 DEF FInv
  <2>1. WhereOf(c)'
    BY <1>1, <1>2, <2>0 DEF WhereOf, Resting
  <2>2. NotYet(c)'
    BY <1>1, <2>0 DEF NotYet
  <2>3. Placed(c)'
    BY <1>1, <1>2, <1>8, <2>0 DEF Placed
  <2>4. KeepsPlaces(c)'
    <3>1. scene.calm /\ batch[c].at = "files" => there' = there
      BY <1>7, <1>8 DEF Resting
    <3>2. QED
      BY <1>1, <1>2, <1>8, <2>0, <3>1 DEF KeepsPlaces
  <2>5. \A p \in Paths : there'[p] # Nothing => there[p] # Nothing
    OBVIOUS
  <2>6. KnowsTaken(c)'
    BY <1>1, <1>2, <2>0, <2>5, PathFacts DEF KnowsTaken, Watchful
  <2>7. WasFree(c)'
    BY <1>1, <1>2, <1>8, <2>0, <2>5 DEF WasFree, Sparing, Watchful
  <2>8. QED
    BY <2>1, <2>2, <2>3, <2>4, <2>6, <2>7
<1>9. NotYet(b)' /\ Placed(b)' /\ KeepsPlaces(b)'
  <2>1. ASSUME NEW i \in DOMAIN scene.plans[b].entries, i >= batch'[b].entry
        PROVE  i > batch[b].entry \/ (i = batch[b].entry /\ batch[b].at # "files")
    <3>1. i \in Nat
      BY PlanFacts DEF FInv, BatchTypes
    <3>2. QED
      BY <1>0, <2>1, <3>1
  <2>2. \A i \in DOMAIN scene.plans[b].entries : i > batch'[b].entry \/ i = batch'[b].entry => i >= batch'[b].entry
    <3>1. \A i \in DOMAIN scene.plans[b].entries : i \in Nat
      BY PlanFacts DEF FInv, BatchTypes
    <3>2. QED
      BY <1>0, <3>1
  <2>3. NotYet(b)'
    BY <1>1, <2>1, <2>2 DEF FInv, NotYet
  <2>4. QED
    BY <2>3 DEF Placed, KeepsPlaces
<1>10. QED
  BY <1>1, <1>3, <1>4, <1>5, <1>6, <1>8, <1>9 DEF FInv

(* The turn to the next entry.                                             *)
LEMMA TurnIs ==
  ASSUME FInv, NEW b \in Asked, NEW t \in Told, Turn(b, t),
         batch[b].at \in {"naming", "asking", "looking", "files", "unlinking"}
  PROVE  /\ batch' \in [Batches -> Request] /\ told' \in [Batches -> Seq(Told)]
         /\ \A c \in Batches : c # b => batch'[c] = batch[c] /\ told'[c] = told[c]
         /\ batch'[b].entry = batch[b].entry + 1 /\ batch[b].entry \in DOMAIN scene.plans[b].entries
         /\ batch'[b].at = IF batch[b].entry = Len(scene.plans[b].entries) THEN "done" ELSE "naming"
         /\ batch'[b].existing = batch[b].existing /\ batch'[b].todo = batch[b].todo
         /\ told'[b] = Append(told[b], t)
<1>0. b \in Batches /\ batch \in [Batches -> Request] /\ told \in [Batches -> Seq(Told)] /\ batch[b].entry \in DOMAIN scene.plans[b].entries
  <2>1. Asked \subseteq Batches
    BY PlanFacts DEF FInv, BatchTypes
  <2>2. batch \in [Batches -> Request] /\ told \in [Batches -> Seq(Told)]
    BY DEF FInv, BatchTypes
  <2>3. batch[b].entry \in DOMAIN scene.plans[b].entries
    BY DEF FInv, WhereOf, Resting
  <2>4. QED
    BY <2>1, <2>2, <2>3
<1>1. /\ told' = [told EXCEPT ![b] = Append(@, t)]
      /\ batch' = [batch EXCEPT ![b].entry = @ + 1,
                     ![b].at = IF batch[b].entry = Len(scene.plans[b].entries) THEN "done" ELSE "naming"]
  BY DEF Turn
<1>2. told' \in [Batches -> Seq(Told)] /\ told'[b] = Append(told[b], t) /\ \A c \in Batches : c # b => told'[c] = told[c]
  BY <1>0, <1>1
<1> DEFINE a == IF batch[b].entry = Len(scene.plans[b].entries) THEN "done" ELSE "naming"
<1>3. a \in Steps
  BY DEF Steps
<1>4. batch' = [batch EXCEPT ![b].entry = @ + 1, ![b].at = a]
  BY <1>1
<1> HIDE DEF a
<1>5. /\ batch' \in [Batches -> Request]
      /\ \A c \in Batches : c # b => batch'[c] = batch[c]
      /\ batch'[b].entry = batch[b].entry + 1 /\ batch'[b].at = a
      /\ batch'[b].existing = batch[b].existing /\ batch'[b].todo = batch[b].todo
  <2> DEFINE r == [batch[b] EXCEPT !.entry = batch[b].entry + 1, !.at = a]
  <2>1. batch' = [batch EXCEPT ![b] = r]
    BY <1>4
  <2>2. batch[b] \in Request /\ batch[b].entry + 1 \in Nat
    BY <1>0, RequestFields
  <2> HIDE DEF r
  <2>3. r = [batch[b] EXCEPT !.entry = batch[b].entry + 1, !.at = a]
    BY DEF r
  <2>4. /\ r \in Request /\ r.entry = batch[b].entry + 1 /\ r.at = a
        /\ r.existing = batch[b].existing /\ r.todo = batch[b].todo
    <3> DEFINE q == batch[b]
               n == batch[b].entry + 1
    <3>1. q \in Request /\ n \in Nat /\ r = [q EXCEPT !.entry = n, !.at = a]
      BY <2>2, <2>3
    <3> HIDE DEF q, n
    <3>2. /\ r \in Request /\ r.entry = n /\ r.at = a
          /\ r.existing = q.existing /\ r.todo = q.todo
      BY <1>3, <3>1 DEF Request
    <3>3. QED
      BY <3>2 DEF q, n
  <2>5. QED
    BY <1>0, <2>1, <2>4
<1>6. QED
  BY <1>0, <1>2, <1>5 DEF a

LEMMA TurnKeeps ==
  ASSUME FInv, NEW b \in Asked, NEW t \in Told, Turn(b, t),
         batch[b].at \in {"naming", "asking", "looking", "files", "unlinking"},
         UNCHANGED <<phase, scene, path, outcome>>, there' \in [Paths -> Marks], IsTree',
         batch[b].at = "files" => \A f \in FilesOf(b) : phase[f] = "idle",
         \A p \in Paths : there'[p] # Nothing => there'[p] = there[p]
  PROVE  FInv'
<1> DEFINE E == scene.plans[b].entries
<1>1. /\ batch' \in [Batches -> Request] /\ told' \in [Batches -> Seq(Told)]
      /\ \A c \in Batches : c # b => batch'[c] = batch[c]
      /\ batch'[b].entry = batch[b].entry + 1 /\ batch[b].entry \in DOMAIN E
      /\ batch'[b].at = IF batch[b].entry = Len(E) THEN "done" ELSE "naming"
      /\ batch'[b].existing = batch[b].existing /\ batch'[b].todo = batch[b].todo
  BY TurnIs
<1>2. /\ scene' = scene /\ Kind(b)' = Kind(b) /\ E \in Seq(Entry)
      /\ ~Resting(b) /\ WhereOf(b) /\ KnowsTaken(b)
  BY PlanFacts DEF Kind, FInv, BatchTypes, Resting
<1> HIDE DEF E
<1>3. batch'[b].at \in {"done", "naming"}
  BY <1>1
<1>4. batch'[b].entry \in 1 .. (Len(E) + 1) /\ (batch'[b].at # "done" => batch'[b].entry \in DOMAIN E)
  BY <1>1, <1>2
<1>5. WhereOf(b)'
  BY <1>1, <1>2, <1>3, <1>4 DEF WhereOf, Resting, E
<1>6. KnowsTaken(b)'
  <2>1. batch[b].at # "unlinking" \/ ~Watchful(b)
    BY <1>2 DEF WhereOf, Watchful
  <2>2. Watchful(b)' <=> Watchful(b)
    BY <1>2 DEF Watchful
  <2>3. \A n \in Names : there'[<<n>>] # Nothing => there[<<n>>] # Nothing
    BY PathFacts
  <2>4. QED
    BY <1>1, <1>2, <1>3, <2>1, <2>2, <2>3 DEF KnowsTaken
<1>7. WasFree(b)'
  BY <1>3 DEF WasFree
<1>8. batch'[b].at # "files" /\ batch'[b].entry > batch[b].entry
  BY <1>1, <1>2, <1>3
<1>9. batch'[b].entry >= batch[b].entry
  BY <1>1, <1>2
<1>10. QED
  BY <1>1, <1>2, <1>5, <1>6, <1>7, <1>8, <1>9, RequestKeeps

(* What a request's record becomes, when the rest of it stays.             *)
LEMMA RecordBecomes ==
  ASSUME FInv, NEW b \in Asked, NEW r \in Request, batch' = [batch EXCEPT ![b] = r]
  PROVE  /\ batch' \in [Batches -> Request] /\ batch'[b] = r
         /\ \A c \in Batches : c # b => batch'[c] = batch[c]
<1>1. b \in Batches /\ batch \in [Batches -> Request]
  BY PlanFacts DEF FInv, BatchTypes
<1>2. QED
  BY <1>1

(* A drop, a double click or a deletion begins.                            *)
LEMMA DropKeeps ==
  ASSUME FInv, NEW b \in Asked, Drop(b)
  PROVE  FInv'
<1> DEFINE a == IF Kind(b) = "copy" THEN "listing" ELSE "naming"
           q == batch[b]
           r == [q EXCEPT !.entry = 1, !.at = a]
<1>0. /\ batch[b].at = "idle" /\ UNCHANGED <<phase, scene, told, there, path, outcome>>
      /\ batch' = [batch EXCEPT ![b] = r]
      /\ scene.calm => \A c \in Asked : Resting(c)
  BY DEF Drop, At, vars, Resting
<1>1. /\ q \in Request /\ a \in Steps
      /\ told' \in [Batches -> Seq(Told)] /\ there' \in [Paths -> Marks] /\ IsTree'
  BY <1>0, PlanFacts DEF FInv, BatchTypes, Steps, IsTree
<1> HIDE DEF q, a
<1>2. /\ r \in Request /\ r.entry = 1 /\ r.at = a /\ r.todo = q.todo
  BY <1>1 DEF Request
<1> HIDE DEF r
<1>3. /\ batch' \in [Batches -> Request] /\ batch'[b] = r
      /\ \A c \in Batches : c # b => batch'[c] = batch[c]
  BY <1>0, <1>2, RecordBecomes
<1>4. /\ batch'[b].at \in {"listing", "naming"} /\ (batch'[b].at = "listing" => Kind(b) = "copy")
      /\ Watchful(b)' => batch'[b].at = "listing"
      /\ batch'[b].entry = 1 /\ batch'[b].todo = batch[b].todo /\ Kind(b)' = Kind(b)
  BY <1>0, <1>2, <1>3 DEF a, q, Watchful, Kind
<1>5. WhereOf(b) /\ batch[b].entry = 0 /\ 1 \in DOMAIN scene.plans[b].entries
      /\ Len(scene.plans[b].entries) \in Nat
  BY <1>0, PlanFacts DEF FInv, WhereOf, BatchTypes
<1>6. WhereOf(b)'
  BY <1>0, <1>4, <1>5 DEF WhereOf, Resting
<1>7. KnowsTaken(b)' /\ WasFree(b)'
  BY <1>4 DEF KnowsTaken, WasFree, Sparing
<1>8. /\ batch[b].at # "files" /\ batch'[b].at # "files" /\ batch'[b].entry >= batch[b].entry
      /\ there' = there
  BY <1>0, <1>4, <1>5
<1>9. QED
  BY <1>0, <1>1, <1>3, <1>6, <1>7, <1>8, RequestKeeps

(* The listing of the destination, read or not.                            *)
LEMMA ListingKeeps ==
  ASSUME FInv, NEW b \in Asked, Listed(b) \/ ListingFails(b)
  PROVE  FInv'
<1> DEFINE taken == {n \in Names : there[<<n>>] # Nothing}
           x == IF Listed(b) THEN taken ELSE batch[b].existing
           a == IF Listed(b) \/ ~scene.plans[b].up THEN "naming" ELSE "done"
           q == batch[b]
           r == [q EXCEPT !.at = a, !.existing = x]
<1>0. /\ batch[b].at = "listing" /\ UNCHANGED <<phase, scene, told, there, path, outcome>>
      /\ scene.plans[b].up \in BOOLEAN /\ b \in Batches
  BY PlanFacts DEF Listed, ListingFails, At, vars, FInv, BatchTypes
<1>1. /\ q \in Request /\ a \in Steps /\ x \subseteq Names
      /\ told' \in [Batches -> Seq(Told)] /\ there' \in [Paths -> Marks] /\ IsTree'
  <2>1. q \in Request
    BY <1>0 DEF FInv, BatchTypes
  <2>2. x \subseteq Names /\ a \in Steps
    BY <2>1, RequestFields DEF Steps
  <2>3. QED
    BY <1>0, <2>1, <2>2 DEF FInv, BatchTypes, IsTree
<1>2. batch' = [batch EXCEPT ![b] = r]
  <2>1. CASE Listed(b)
    BY <2>1 DEF Listed
  <2>2. CASE ~Listed(b)
    <3>1. batch' = [batch EXCEPT ![b].at = a]
      BY <1>0, <2>2 DEF ListingFails
    <3>2. [q EXCEPT !.at = a] = r
      <4>1. x = q.existing
        BY <2>2
      <4> HIDE DEF q, a, x
      <4>2. QED
        BY <1>1, <4>1 DEF Request
    <3> HIDE DEF r, a
    <3>3. QED
      BY <3>1, <3>2
  <2>3. QED
    BY <2>1, <2>2
<1>3. a = "naming" \/ a = "done"
  OBVIOUS
<1>4. Watchful(b) /\ a = "naming" => \A n \in Names : there[<<n>>] # Nothing => n \in x
  <2>1. ASSUME Watchful(b), a = "naming" PROVE Listed(b)
    BY <1>0, <2>1 DEF Listed, ListingFails, Watchful
  <2>2. QED
    BY <2>1
<1> HIDE DEF q, a, x
<1>5. /\ r \in Request /\ r.at = a /\ r.existing = x /\ r.entry = q.entry /\ r.todo = q.todo
  BY <1>1 DEF Request
<1> HIDE DEF r
<1>6. /\ batch' \in [Batches -> Request] /\ batch'[b] = r
      /\ \A c \in Batches : c # b => batch'[c] = batch[c]
  BY <1>2, <1>5, RecordBecomes
<1>7. /\ batch'[b].at = a /\ batch'[b].existing = x /\ batch'[b].entry = batch[b].entry
      /\ batch'[b].todo = batch[b].todo /\ Kind(b)' = Kind(b) /\ (Watchful(b)' <=> Watchful(b))
  BY <1>0, <1>5, <1>6 DEF q, Kind, Watchful
<1>8. WhereOf(b)'
  <2>1. WhereOf(b)
    BY DEF FInv
  <2>2. QED
    BY <1>0, <1>3, <1>7, <2>1 DEF WhereOf, Resting
<1>9. KnowsTaken(b)' /\ WasFree(b)'
  BY <1>0, <1>3, <1>4, <1>7 DEF KnowsTaken, WasFree, Sparing
<1>10. /\ batch[b].at # "files" /\ batch'[b].at # "files" /\ batch'[b].entry >= batch[b].entry
       /\ there' = there /\ ~Resting(b)
  <2>1. batch[b].entry \in Nat
    BY <1>1, RequestFields DEF q
  <2>2. QED
    BY <1>0, <1>3, <1>7, <2>1 DEF Resting
<1>11. QED
  BY <1>0, <1>1, <1>6, <1>8, <1>9, <1>10, RequestKeeps

(* A name is settled: a free one, or one the user or the setting gave up.  *)
LEMMA AsKeeps ==
  ASSUME FInv, NEW b \in Asked, NEW n \in Names, NEW give \in SUBSET Names,
         batch[b].at \in {"naming", "asking"}, Kind(b) # "delete", As(b, n, give),
         UNCHANGED <<phase, scene, told, there, path, outcome>>,
         Watchful(b) /\ scene.policy # "overwrite" /\ n \notin give => n \notin batch[b].existing
  PROVE  FInv'
<1> DEFINE q == batch[b]
           r == [q EXCEPT !.at = "looking", !.name = n, !.existing = q.existing \cup {n},
                          !.said = q.said \cup give]
<1>1. /\ b \in Batches /\ q \in Request
      /\ told' \in [Batches -> Seq(Told)] /\ there' \in [Paths -> Marks] /\ IsTree'
  BY PlanFacts DEF FInv, BatchTypes, IsTree
<1>2. batch' = [batch EXCEPT ![b] = r]
  BY DEF As
<1> HIDE DEF q
<1>3. /\ q.existing \cup {n} \subseteq Names /\ q.said \cup give \subseteq Names /\ q.entry \in Nat
  BY <1>1, RequestFields
<1>4. /\ r \in Request /\ r.at = "looking" /\ r.name = n /\ r.existing = q.existing \cup {n}
      /\ r.said = q.said \cup give /\ r.entry = q.entry /\ r.todo = q.todo
  BY <1>1, <1>3 DEF Request, Steps
<1> HIDE DEF r
<1>5. /\ batch' \in [Batches -> Request] /\ batch'[b] = r
      /\ \A c \in Batches : c # b => batch'[c] = batch[c]
  BY <1>2, <1>4, RecordBecomes
<1>6. /\ batch'[b].at = "looking" /\ batch'[b].name = n /\ batch'[b].existing = batch[b].existing \cup {n}
      /\ batch'[b].said = batch[b].said \cup give /\ batch'[b].entry = batch[b].entry
      /\ batch'[b].todo = batch[b].todo /\ Kind(b)' = Kind(b) /\ (Watchful(b)' <=> Watchful(b))
  BY <1>4, <1>5 DEF q, Kind, Watchful
<1>7. WhereOf(b)'
  <2>1. WhereOf(b)
    BY DEF FInv
  <2>2. QED
    BY <1>6, <2>1 DEF WhereOf, Resting
<1>8. Watchful(b) => \A m \in Names : there[<<m>>] # Nothing => m \in batch[b].existing
  BY DEF FInv, KnowsTaken
<1>9. KnowsTaken(b)'
  BY <1>6, <1>8 DEF KnowsTaken
<1>10. WasFree(b)'
  <2>1. ASSUME Sparing(b)', NEW p \in Paths, p[1] = n, there[p] # Nothing
        PROVE  FALSE
    <3>1. there[<<n>>] = Nothing
      BY <1>6, <1>8, <2>1 DEF Sparing, Watchful
    <3>2. p = <<n>> \/ \E m \in Names : p = <<n, m>>
      BY <2>1, PathFacts
    <3>3. PICK m \in Names : p = <<n, m>>
      BY <2>1, <3>1, <3>2
    <3>4. there[<<n>>] = "dir"
      BY <2>1, <3>3 DEF FInv, IsTree
    <3>5. QED
      BY <3>1, <3>4, NamesAssumption
  <2>2. QED
    BY <1>6, <2>1 DEF WasFree
<1>11. /\ batch[b].at # "files" /\ batch'[b].at # "files" /\ batch'[b].entry >= batch[b].entry
       /\ there' = there /\ ~Resting(b)
  BY <1>3, <1>6 DEF Resting, q
<1>12. QED
  BY <1>1, <1>5, <1>7, <1>9, <1>10, <1>11, RequestKeeps

(* A drop's entry gets its name, is skipped, or waits for the user.        *)
LEMMA ResolveNameKeeps ==
  ASSUME FInv, NEW b \in Asked, ResolveName(b)
  PROVE  FInv'
<1> DEFINE n == EntryOf(b).name
           policy == scene.policy
           clash == n \in batch[b].existing
<1>0. /\ batch[b].at = "naming" /\ Kind(b) = "copy"
      /\ UNCHANGED <<phase, scene, there, path, outcome>>
      /\ \/ (~clash \/ policy = "overwrite") /\ As(b, n, {}) /\ UNCHANGED told
         \/ /\ clash /\ policy = "rename" /\ UNCHANGED told
            /\ \E m \in FreeName(n, batch[b].existing) : As(b, m, {})
         \/ clash /\ policy = "skip" /\ Turn(b, "skipped")
         \/ clash /\ policy = "prompt" /\ batch' = [batch EXCEPT ![b].at = "asking"] /\ UNCHANGED told
  BY DEF ResolveName, At, vars
<1>1. n \in Names
  BY <1>0, EntryFacts DEF FInv, BatchTypes, WhereOf, Resting, EntryOf
<1>2. CASE (~clash \/ policy = "overwrite") /\ As(b, n, {}) /\ UNCHANGED told
  BY <1>0, <1>1, <1>2, AsKeeps
<1>3. CASE \E m \in FreeName(n, batch[b].existing) : As(b, m, {}) /\ UNCHANGED told
  <2>1. PICK m \in FreeName(n, batch[b].existing) : As(b, m, {}) /\ UNCHANGED told
    BY <1>3
  <2>2. Numbered[n] \in Seq(Names)
    BY <1>1, NamesAssumption
  <2>3. m \in Names /\ m \notin batch[b].existing
    BY <2>1, <2>2 DEF FreeName
  <2>4. QED
    BY <1>0, <2>1, <2>3, AsKeeps
<1>4. there' \in [Paths -> Marks] /\ IsTree'
  BY <1>0 DEF FInv, BatchTypes, IsTree
<1>5. CASE Turn(b, "skipped")
  BY <1>0, <1>4, <1>5, TurnKeeps DEF Told
<1>6. CASE batch' = [batch EXCEPT ![b].at = "asking"] /\ UNCHANGED told
  <2> DEFINE q == batch[b]
             r == [q EXCEPT !.at = "asking"]
  <2>1. /\ q \in Request /\ told' \in [Batches -> Seq(Told)] /\ batch' = [batch EXCEPT ![b] = r]
    BY <1>6, PlanFacts DEF FInv, BatchTypes
  <2> HIDE DEF q
  <2>2. /\ r \in Request /\ r.at = "asking" /\ r.existing = q.existing /\ r.entry = q.entry /\ r.todo = q.todo
        /\ q.entry \in Nat
    BY <2>1 DEF Request, Steps
  <2> HIDE DEF r
  <2>3. /\ batch' \in [Batches -> Request] /\ batch'[b] = r
        /\ \A c \in Batches : c # b => batch'[c] = batch[c]
    BY <2>1, <2>2, RecordBecomes
  <2>4. /\ batch'[b].at = "asking" /\ batch'[b].existing = batch[b].existing /\ batch'[b].entry = batch[b].entry
        /\ batch'[b].todo = batch[b].todo /\ Kind(b)' = Kind(b) /\ (Watchful(b)' <=> Watchful(b))
        /\ batch'[b].entry >= batch[b].entry
    BY <1>0, <2>2, <2>3 DEF q, Kind, Watchful
  <2>5. WhereOf(b) /\ KnowsTaken(b)
    BY DEF FInv
  <2>6. WhereOf(b)'
    BY <1>0, <2>4, <2>5 DEF WhereOf, Resting
  <2>7. KnowsTaken(b)' /\ WasFree(b)'
    BY <1>0, <2>4, <2>5 DEF KnowsTaken, WasFree
  <2>8. batch[b].at # "files" /\ batch'[b].at # "files" /\ there' = there /\ ~Resting(b)
    BY <1>0, <2>4 DEF Resting
  <2>9. QED
    BY <1>0, <1>4, <2>1, <2>3, <2>4, <2>6, <2>7, <2>8, RequestKeeps
<1>7. QED
  BY <1>0, <1>2, <1>3, <1>5, <1>6

(* The user's answer, a double click's name, and a walk that fails.        *)
LEMMA AnswersKeeps ==
  ASSUME FInv, NEW b \in Asked, Answers(b) \/ Opens(b) \/ LookFails(b)
  PROVE  FInv'
<1>0. /\ UNCHANGED <<phase, scene, there, path, outcome>>
      /\ batch[b].at \in {"asking", "naming", "looking"}
  BY DEF Answers, Opens, LookFails, At, vars
<1>1. there' \in [Paths -> Marks] /\ IsTree' /\ "skipped" \in Told /\ "failed" \in Told
  BY <1>0 DEF FInv, BatchTypes, IsTree, Told
<1>2. EntryOf(b).name \in Names
  BY <1>0, EntryFacts DEF FInv, BatchTypes, WhereOf, Resting, EntryOf
<1>3. CASE Turn(b, "skipped") \/ Turn(b, "failed")
  BY <1>0, <1>1, <1>3, TurnKeeps
<1>4. CASE Answers(b) /\ As(b, EntryOf(b).name, {EntryOf(b).name}) /\ UNCHANGED told
  <2>1. batch[b].at = "asking" /\ Kind(b) # "delete"
    BY <1>4 DEF Answers, At, FInv, WhereOf
  <2>2. QED
    BY <1>0, <1>2, <1>4, <2>1, AsKeeps
<1>5. CASE Opens(b)
  <2>1. /\ batch[b].at = "naming" /\ Kind(b) = "open" /\ As(b, EntryOf(b).name, {}) /\ UNCHANGED told
    BY <1>5 DEF Opens, At
  <2>2. ~Watchful(b) /\ Kind(b) # "delete"
    BY <2>1 DEF Watchful
  <2>3. QED
    BY <1>0, <1>2, <2>1, <2>2, AsKeeps
<1>6. QED
  BY <1>3, <1>4, <1>5 DEF Answers, LookFails

(* The files of an entry have all come to their end.                       *)
LEMMA SettledKeeps ==
  ASSUME FInv, NEW b \in Asked, Settled(b)
  PROVE  FInv'
<1>1. /\ batch[b].at = "files" /\ \A f \in FilesOf(b) : phase[f] = "idle"
      /\ UNCHANGED <<phase, scene, there, path, outcome>>
      /\ Turn(b, "ok") \/ Turn(b, "failed")
  BY DEF Settled, At, vars
<1>2. there' \in [Paths -> Marks] /\ IsTree' /\ "ok" \in Told /\ "failed" \in Told
  BY <1>1 DEF FInv, BatchTypes, IsTree, Told
<1>3. QED
  BY <1>1, <1>2, TurnKeeps

(* A deletion: of a file or a folder of this machine at once, of a remote  *)
(* folder name by name.                                                    *)
LEMMA GoneIsTree ==
  ASSUME FInv, NEW ps \in SUBSET Paths, Gone(ps),
         \A n, m \in Names : <<n>> \in ps => <<n, m>> \in ps \/ there[<<n, m>>] = Nothing
  PROVE  /\ there' \in [Paths -> Marks] /\ IsTree'
         /\ \A p \in Paths : there'[p] = IF p \in ps THEN Nothing ELSE there[p]
<1>1. /\ there \in [Paths -> Marks] /\ Nothing \in Marks /\ IsTree
      /\ there' = [p \in Paths |-> IF p \in ps THEN Nothing ELSE there[p]]
  BY DEF FInv, BatchTypes, Marks, Gone
<1>2. there' \in [Paths -> Marks] /\ \A p \in Paths : there'[p] = IF p \in ps THEN Nothing ELSE there[p]
  BY <1>1
<1>3. ASSUME NEW n \in Names, NEW m \in Names, there'[<<n, m>>] # Nothing
      PROVE  there'[<<n, m>>] # "dir" /\ there'[<<n>>] = "dir"
  <2>1. <<n>> \in Paths /\ <<n, m>> \in Paths
    BY PathFacts
  <2>2. <<n, m>> \notin ps /\ there'[<<n, m>>] = there[<<n, m>>] /\ there[<<n, m>>] # Nothing
    BY <1>2, <1>3, <2>1
  <2>3. there[<<n, m>>] # "dir" /\ there[<<n>>] = "dir"
    BY <1>1, <2>2 DEF IsTree
  <2>4. <<n>> \notin ps
    BY <2>2
  <2>5. QED
    BY <1>2, <2>1, <2>2, <2>3, <2>4
<1>4. IsTree'
  BY <1>3 DEF IsTree
<1>5. QED
  BY <1>2, <1>4

LEMMA InsideFacts ==
  ASSUME NEW n \in Names
  PROVE  /\ Inside(n) \subseteq Paths
         /\ \A p \in Inside(n) : Len(p) = 2 /\ p[1] = n
         /\ \A m \in Names : <<n, m>> \in Inside(n) <=> there[<<n, m>>] # Nothing
<1>1. \A m \in Names : <<n, m>> \in Paths /\ Len(<<n, m>>) = 2 /\ <<n, m>>[1] = n
  BY PathFacts
<1>2. QED
  BY <1>1 DEF Inside

LEMMA DeletesKeeps ==
  ASSUME FInv, NEW b \in Asked, Deletes(b)
  PROVE  FInv'
<1> DEFINE n == EntryOf(b).name
<1>0. /\ batch[b].at = "naming" /\ Kind(b) = "delete" /\ UNCHANGED <<phase, scene, path, outcome>>
      /\ \/ Turn(b, "failed") /\ UNCHANGED there
         \/ batch' = [batch EXCEPT ![b].at = "unlinking", ![b].todo = Inside(n)] /\ UNCHANGED <<told, there>>
         \/ Gone({<<n>>} \cup Inside(n)) /\ Turn(b, "ok")
  BY DEF Deletes, At, vars
<1>1. n \in Names
  BY <1>0, EntryFacts DEF FInv, BatchTypes, WhereOf, Resting, EntryOf
<1> HIDE DEF n
<1>2. <<n>> \in Paths /\ Inside(n) \subseteq Paths /\ \A p \in Inside(n) : Len(p) = 2
  BY <1>1, InsideFacts, PathFacts
<1>3. CASE Turn(b, "failed") /\ UNCHANGED there
  <2>1. there' \in [Paths -> Marks] /\ IsTree' /\ "failed" \in Told
    BY <1>3 DEF FInv, BatchTypes, IsTree, Told
  <2>2. QED
    BY <1>0, <1>3, <2>1, TurnKeeps
<1>4. CASE Gone({<<n>>} \cup Inside(n)) /\ Turn(b, "ok")
  <2>1. \A k, m \in Names : <<k>> \in {<<n>>} \cup Inside(n) => k = n
    BY <1>1, InsideFacts
  <2>2. \A k, m \in Names : <<k>> \in {<<n>>} \cup Inside(n) =>
          <<k, m>> \in {<<n>>} \cup Inside(n) \/ there[<<k, m>>] = Nothing
    BY <1>1, <2>1, InsideFacts
  <2>3. {<<n>>} \cup Inside(n) \in SUBSET Paths
    BY <1>2
  <2>4. /\ there' \in [Paths -> Marks] /\ IsTree'
        /\ \A p \in Paths : there'[p] # Nothing => there'[p] = there[p]
    BY <1>4, <2>2, <2>3, GoneIsTree
  <2>5. QED
    BY <1>0, <1>4, <2>4, TurnKeeps DEF Told
<1>5. CASE batch' = [batch EXCEPT ![b].at = "unlinking", ![b].todo = Inside(n)] /\ UNCHANGED <<told, there>>
  <2> DEFINE q == batch[b]
             I == Inside(n)
             r == [q EXCEPT !.at = "unlinking", !.todo = I]
  <2>1. /\ q \in Request /\ told' \in [Batches -> Seq(Told)] /\ there' \in [Paths -> Marks] /\ IsTree'
        /\ batch' = [batch EXCEPT ![b] = r] /\ I \subseteq Paths
    BY <1>2, <1>5, PlanFacts DEF FInv, BatchTypes, IsTree
  <2> HIDE DEF q, I
  <2>2. /\ r \in Request /\ r.at = "unlinking" /\ r.entry = q.entry /\ r.todo = I /\ q.entry \in Nat
    BY <2>1 DEF Request, Steps
  <2> HIDE DEF r
  <2>3. /\ batch' \in [Batches -> Request] /\ batch'[b] = r
        /\ \A c \in Batches : c # b => batch'[c] = batch[c]
    BY <2>1, <2>2, RecordBecomes
  <2>4. /\ batch'[b].at = "unlinking" /\ batch'[b].entry = batch[b].entry
        /\ \A p \in batch'[b].todo : Len(p) = 2
        /\ Kind(b)' = Kind(b) /\ batch'[b].entry >= batch[b].entry
    BY <1>0, <1>2, <2>2, <2>3 DEF q, I, Kind
  <2>5. WhereOf(b)
    BY DEF FInv
  <2>6. WhereOf(b)'
    BY <1>0, <2>4, <2>5 DEF WhereOf, Resting
  <2>7. KnowsTaken(b)' /\ WasFree(b)'
    BY <2>4 DEF KnowsTaken, WasFree
  <2>8. batch[b].at # "files" /\ batch'[b].at # "files" /\ there' = there /\ ~Resting(b)
    BY <1>0, <1>5, <2>4 DEF Resting
  <2>9. QED
    BY <1>0, <2>1, <2>3, <2>4, <2>6, <2>7, <2>8, RequestKeeps
<1>6. QED
  BY <1>0, <1>3, <1>4, <1>5

LEMMA UnlinksKeeps ==
  ASSUME FInv, NEW b \in Asked, Unlinks(b)
  PROVE  FInv'
<1>0. /\ batch[b].at = "unlinking" /\ UNCHANGED <<phase, scene, path, outcome>>
      /\ b \in Batches /\ WhereOf(b) /\ batch[b] \in Request
  BY PlanFacts DEF Unlinks, At, vars, FInv, BatchTypes
<1>1. batch[b].todo \subseteq Paths /\ \A p \in batch[b].todo : Len(p) = 2
  BY <1>0, RequestFields DEF WhereOf
<1>2. PICK p \in batch[b].todo :
        \/ Gone({p}) /\ batch' = [batch EXCEPT ![b].todo = @ \ {p}] /\ UNCHANGED told
        \/ Turn(b, "failed") /\ UNCHANGED there
  BY DEF Unlinks
<1>3. CASE Turn(b, "failed") /\ UNCHANGED there
  <2>1. there' \in [Paths -> Marks] /\ IsTree' /\ "failed" \in Told
    BY <1>3 DEF FInv, BatchTypes, IsTree, Told
  <2>2. QED
    BY <1>0, <1>3, <2>1, TurnKeeps
<1>4. CASE Gone({p}) /\ batch' = [batch EXCEPT ![b].todo = @ \ {p}] /\ UNCHANGED told
  <2> DEFINE q == batch[b]
             r == [q EXCEPT !.todo = q.todo \ {p}]
  <2>1. q \in Request /\ told' \in [Batches -> Seq(Told)] /\ batch' = [batch EXCEPT ![b] = r]
    BY <1>0, <1>4 DEF FInv, BatchTypes
  <2> HIDE DEF q
  <2>2. /\ r \in Request /\ r.at = q.at /\ r.entry = q.entry /\ r.todo = q.todo \ {p} /\ q.entry \in Nat
    BY <2>1 DEF Request
  <2> HIDE DEF r
  <2>3. /\ batch' \in [Batches -> Request] /\ batch'[b] = r
        /\ \A c \in Batches : c # b => batch'[c] = batch[c]
    BY <2>1, <2>2, RecordBecomes
  <2>4. \A k \in Names : <<k>> \notin {p}
    BY <1>1, PathFacts
  <2>5. /\ there' \in [Paths -> Marks] /\ IsTree'
        /\ \A o \in Paths : there'[o] # Nothing => there'[o] = there[o]
    BY <1>1, <1>4, <2>4, GoneIsTree
  <2>6. /\ batch'[b].at = "unlinking" /\ batch'[b].entry = batch[b].entry
        /\ \A o \in batch'[b].todo : Len(o) = 2
        /\ Kind(b)' = Kind(b) /\ batch'[b].entry >= batch[b].entry
    BY <1>0, <1>1, <2>2, <2>3 DEF q, Kind
  <2>7. WhereOf(b)'
    BY <1>0, <2>6 DEF WhereOf, Resting
  <2>8. KnowsTaken(b)' /\ WasFree(b)'
    BY <2>6 DEF KnowsTaken, WasFree
  <2>9. batch[b].at # "files" /\ batch'[b].at # "files" /\ ~Resting(b)
    BY <1>0, <2>6 DEF Resting
  <2>10. QED
    BY <1>0, <2>1, <2>3, <2>5, <2>6, <2>7, <2>8, <2>9, RequestKeeps
<1>5. QED
  BY <1>2, <1>3, <1>4

LEMMA RmdirKeeps ==
  ASSUME FInv, NEW b \in Asked, Rmdir(b)
  PROVE  FInv'
<1> DEFINE n == EntryOf(b).name
<1>0. /\ batch[b].at = "unlinking" /\ UNCHANGED <<phase, scene, path, outcome>>
      /\ \/ Inside(n) = {} /\ Gone({<<n>>}) /\ Turn(b, "ok")
         \/ Turn(b, "failed") /\ UNCHANGED there
  BY DEF Rmdir, At, vars
<1>1. n \in Names
  BY <1>0, EntryFacts DEF FInv, BatchTypes, WhereOf, Resting, EntryOf
<1> HIDE DEF n
<1>2. CASE Turn(b, "failed") /\ UNCHANGED there
  <2>1. there' \in [Paths -> Marks] /\ IsTree' /\ "failed" \in Told
    BY <1>2 DEF FInv, BatchTypes, IsTree, Told
  <2>2. QED
    BY <1>0, <1>2, <2>1, TurnKeeps
<1>3. CASE Inside(n) = {} /\ Gone({<<n>>}) /\ Turn(b, "ok")
  <2>1. \A k, m \in Names : <<k>> \in {<<n>>} => <<k, m>> \in {<<n>>} \/ there[<<k, m>>] = Nothing
    BY <1>1, <1>3, InsideFacts
  <2>2. {<<n>>} \in SUBSET Paths
    BY <1>1, PathFacts
  <2>3. /\ there' \in [Paths -> Marks] /\ IsTree'
        /\ \A p \in Paths : there'[p] # Nothing => there'[p] = there[p]
    BY <1>3, <2>1, <2>2, GoneIsTree
  <2>4. QED
    BY <1>0, <1>3, <2>3, TurnKeeps DEF Told
<1>4. QED
  BY <1>0, <1>2, <1>3

(* The files of an entry are called, in a folder made for them.            *)
LEMMA StartsKeeps ==
  ASSUME FInv, IInv, NEW b \in Asked, Starts(b)
  PROVE  FInv'
<1> DEFINE n == batch[b].name
           F == FilesOf(b)
<1>0. /\ batch[b].at = "looking" /\ UNCHANGED <<scene, told>>
      /\ Acquires(EntryOf(b).files, active) /\ batch' = [batch EXCEPT ![b].at = "files"]
      /\ path' = [f \in Files |-> IF f \in F THEN PathOf(b, f) ELSE path[f]]
      /\ outcome' = [f \in Files |-> IF f \in F THEN "called" ELSE outcome[f]]
      /\ IF EntryOf(b).dir THEN there' = [there EXCEPT ![<<n>>] = IF @ = Nothing THEN "dir" ELSE @]
         ELSE there' = there
  BY DEF Starts, At, Calls
<1>1. /\ b \in Batches /\ Asked \subseteq Batches /\ scene \in Scenes /\ batch \in [Batches -> Request]
      /\ batch[b].entry \in DOMAIN scene.plans[b].entries /\ batch[b].entry \in Nat
      /\ n \in Names /\ Kind(b) # "delete" /\ WhereOf(b) /\ KnowsTaken(b) /\ WasFree(b)
  <2>1. b \in Batches /\ batch \in [Batches -> Request] /\ scene \in Scenes /\ Asked \subseteq Batches
    BY PlanFacts DEF FInv, BatchTypes
  <2>2. batch[b].entry \in Nat
    BY <2>1, RequestFields
  <2>3. WhereOf(b) /\ KnowsTaken(b) /\ WasFree(b)
    BY DEF FInv
  <2>4. QED
    BY <1>0, <2>1, <2>2, <2>3 DEF WhereOf, Resting
<1>2. /\ EntryOf(b).files \in Seq(Files)
      /\ \A f \in F : f \in Files /\ f \notin scene.loose /\ PathOf(b, f) \in Paths
      /\ \A f \in F : phase[f] = "idle" /\ outcome[f] = "none"
      /\ EntryOf(b).dir \in BOOLEAN /\ <<n>> \in Paths
  <2>1. EntryOf(b).files \in Seq(Files) /\ \A f \in F : phase[f] = "idle" /\ outcome[f] = "none"
    BY <1>0, CallsAreIdle
  <2>2. /\ EntryOf(b).dir \in BOOLEAN /\ <<n>> \in Paths
        /\ \A f \in F : f \in Files /\ f \notin scene.loose /\ PathOf(b, f) \in Paths
    BY <1>0, PlaceFacts
  <2>3. QED
    BY <2>1, <2>2
<1>3. /\ \A f \in F : phase'[f] \in {"opening", "waiting"}
      /\ \A f \in Files : f \notin F => phase'[f] = phase[f]
  <2> DEFINE fs == EntryOf(b).files
  <2>0. \A f : f \in F <=> \E i \in DOMAIN fs : fs[i] = f
    BY DEF FilesOf, ToSet
  <2>1. fs \in Seq(Files) /\ Acquires(fs, active) /\ TypeOK
    BY <1>0, <1>2 DEF IInv
  <2>2. /\ \A i, j \in DOMAIN fs : fs[i] = fs[j] => i = j
    BY <1>0, CallsAreIdle
  <2> HIDE DEF fs
  <2>3. PICK now \in 0 .. Len(fs) :
           /\ \A i \in 1 .. now : phase'[fs[i]] = "opening"
           /\ \A i \in (now + 1) .. Len(fs) :
                (\A j \in 1 .. now : fs[j] # fs[i]) => phase'[fs[i]] = "waiting"
           /\ \A f \in Files : (\A i \in DOMAIN fs : fs[i] # f) => phase'[f] = phase[f]
    BY <2>1, AcquiresFacts
  <2>4. ASSUME NEW i \in DOMAIN fs PROVE phase'[fs[i]] \in {"opening", "waiting"}
    <3>1. i \in 1 .. now \/ i \in (now + 1) .. Len(fs)
      BY <2>1
    <3>2. CASE i \in (now + 1) .. Len(fs)
      <4>1. \A j \in 1 .. now : j \in DOMAIN fs /\ j # i
        BY <2>1, <3>2
      <4>2. \A j \in 1 .. now : fs[j] # fs[i]
        BY <2>2, <4>1
      <4>3. QED
        BY <2>3, <3>2, <4>2
    <3>3. QED
      BY <2>3, <3>1, <3>2
  <2>5. QED
    BY <2>0, <2>3, <2>4
<1>4. /\ \A f \in F : path'[f] = PathOf(b, f) /\ outcome'[f] = "called"
      /\ \A f \in Files : f \notin F => path'[f] = path[f] /\ outcome'[f] = outcome[f]
      /\ path' \in [Files -> Paths \cup {Nothing}] /\ outcome' \in [Files -> Outcomes]
  BY <1>0, <1>2 DEF FInv, BatchTypes, Outcomes
<1>5. /\ there' \in [Paths -> Marks]
      /\ \A p \in Paths : p # <<n>> => there'[p] = there[p]
      /\ there'[<<n>>] = IF EntryOf(b).dir /\ there[<<n>>] = Nothing THEN "dir" ELSE there[<<n>>]
  BY <1>0, <1>2 DEF FInv, BatchTypes, Marks
<1> HIDE DEF F, n
<1>6. /\ batch' \in [Batches -> Request] /\ batch'[b].at = "files" /\ batch'[b].entry = batch[b].entry
      /\ batch'[b].existing = batch[b].existing /\ batch'[b].said = batch[b].said
      /\ batch'[b].name = batch[b].name /\ batch'[b].todo = batch[b].todo
      /\ \A c \in Batches : c # b => batch'[c] = batch[c]
  <2> DEFINE q == batch[b]
             r == [q EXCEPT !.at = "files"]
  <2>1. batch' = [batch EXCEPT ![b] = r] /\ q \in Request
    BY <1>0, <1>1
  <2> HIDE DEF q
  <2>2. /\ r \in Request /\ r.at = "files" /\ r.entry = q.entry /\ r.existing = q.existing
        /\ r.said = q.said /\ r.name = q.name /\ r.todo = q.todo
    BY <2>1 DEF Request, Steps
  <2> HIDE DEF r
  <2>3. /\ batch' \in [Batches -> Request] /\ batch'[b] = r
        /\ \A c \in Batches : c # b => batch'[c] = batch[c]
    BY <2>1, <2>2, RecordBecomes
  <2>4. QED
    BY <2>2, <2>3 DEF q
<1>7. /\ Asked' = Asked /\ scene' = scene
      /\ \A c \in Asked : Kind(c)' = Kind(c) /\ EntryOf(c)' = EntryOf(c) /\ FilesOf(c)' = FilesOf(c)
      /\ \A c \in Asked : \A f : PathOf(c, f)' = PathOf(c, f)
  <2>1. Asked' = Asked /\ scene' = scene /\ \A c \in Asked : Kind(c)' = Kind(c)
    BY <1>0 DEF Asked, Kind
  <2>2. \A c \in Asked : batch'[c].entry = batch[c].entry /\ batch'[c].name = batch[c].name
    BY <1>1, <1>6
  <2>3. \A c \in Asked : EntryOf(c)' = EntryOf(c)
    BY <2>1, <2>2 DEF EntryOf
  <2>4. QED
    BY <2>1, <2>2, <2>3 DEF FilesOf, PathOf
<1>8. BatchTypes'
  BY <1>0, <1>4, <1>5, <1>6 DEF FInv, BatchTypes
<1>9. BusyIsAsked'
  <2>1. ASSUME NEW f \in Files, phase'[f] # "idle", f \notin scene.loose
        PROVE  \E c \in Asked : batch'[c].at = "files" /\ f \in FilesOf(c)
    <3>1. CASE f \in F
      BY <1>6, <3>1 DEF F
    <3>2. CASE f \notin F
      <4>1. PICK c \in Asked : batch[c].at = "files" /\ f \in FilesOf(c)
        BY <1>3, <2>1, <3>2 DEF FInv, BusyIsAsked
      <4>2. batch'[c].at = "files"
        BY <1>1, <1>6, <4>1
      <4>3. QED
        BY <4>1, <4>2
    <3>3. QED
      BY <3>1, <3>2
  <2>2. QED
    BY <1>7, <2>1 DEF BusyIsAsked
<1>10. \A c \in Asked : Resting(c)' <=> Resting(c)
  BY <1>0, <1>1, <1>6 DEF Resting
<1>11. OneAtATime'
  BY <1>7, <1>10 DEF FInv, OneAtATime
<1>12. \A c \in Asked : scene.calm /\ c # b => Resting(c)
  BY <1>0 DEF FInv, OneAtATime, Resting
<1>13. IsTree'
  <2>1. ASSUME NEW k \in Names, NEW m \in Names, there'[<<k, m>>] # Nothing
        PROVE  there'[<<k, m>>] # "dir" /\ there'[<<k>>] = "dir"
    <3>1. <<k>> \in Paths /\ <<k, m>> \in Paths /\ <<k, m>> # <<n>>
      BY PathFacts
    <3>2. there'[<<k, m>>] = there[<<k, m>>]
      BY <1>5, <3>1
    <3>3. there[<<k, m>>] # "dir" /\ there[<<k>>] = "dir"
      BY <2>1, <3>2 DEF FInv, IsTree
    <3>4. there'[<<k>>] = "dir"
      BY <1>5, <3>1, <3>3, NamesAssumption
    <3>5. QED
      BY <3>2, <3>3, <3>4
  <2>2. QED
    BY <2>1 DEF IsTree
<1>14. \A f \in Files : OutcomeOf(f)'
  <2>1. ASSUME NEW f \in Files PROVE OutcomeOf(f)'
    <3>1. CASE f \in F
      BY <1>0, <1>2, <1>3, <1>4, <3>1 DEF OutcomeOf
    <3>2. CASE f \notin F
      <4>1. OutcomeOf(f)
        BY DEF FInv
      <4>2. QED
        BY <1>0, <1>3, <1>4, <3>2, <4>1 DEF OutcomeOf
    <3>3. QED
      BY <3>1, <3>2
  <2>2. QED
    BY <2>1
<1>15. \A c \in Asked : WhereOf(c)'
  <2>1. ASSUME NEW c \in Asked PROVE WhereOf(c)'
    <3>1. WhereOf(c)
      BY DEF FInv
    <3>2. CASE c = b
      BY <1>0, <1>1, <1>6, <1>7, <3>1, <3>2 DEF WhereOf, Resting
    <3>3. CASE c # b
      BY <1>1, <1>6, <1>7, <3>1, <3>3 DEF WhereOf, Resting
    <3>4. QED
      BY <3>2, <3>3
  <2>2. QED
    BY <2>1
<1>16. \A c \in Asked : NotYet(c)'
  <2>1. ASSUME NEW c \in Asked, NEW i \in DOMAIN scene.plans[c].entries,
               i > batch'[c].entry \/ (i = batch'[c].entry /\ batch'[c].at # "files"),
               NEW f \in ToSet(scene.plans[c].entries[i].files)
        PROVE  outcome'[f] = "none"
    <3>1. f \in Files
      BY <1>1, <2>1, EntryFacts
    <3>2. i \in Nat
      BY <1>1, PlanFacts
    <3>3. outcome[f] = "none"
      <4>1. i > batch[c].entry \/ (i = batch[c].entry /\ batch[c].at # "files")
        BY <1>0, <1>1, <1>6, <2>1
      <4>2. QED
        BY <2>1, <4>1 DEF FInv, NotYet
    <3>4. f \notin F
      <4>1. ASSUME f \in F PROVE FALSE
        <5>1. c = b /\ i = batch[b].entry
          BY <1>1, <2>1, <4>1, EntryFacts DEF F, FilesOf, EntryOf
        <5>2. QED
          BY <1>1, <1>6, <2>1, <5>1
      <4>2. QED
        BY <4>1
    <3>5. QED
      BY <1>4, <3>1, <3>3, <3>4
  <2>2. QED
    BY <1>7, <2>1 DEF NotYet
<1>17. \A c \in Asked : Placed(c)'
  <2>1. ASSUME NEW c \in Asked, batch'[c].at = "files", NEW f \in FilesOf(c)
        PROVE  path'[f] = PathOf(c, f) /\ outcome'[f] # "none"
    <3>1. CASE c = b
      BY <1>4, <2>1, <3>1 DEF F
    <3>2. CASE c # b
      <4>1. batch[c].at = "files"
        BY <1>1, <1>6, <2>1, <3>2
      <4>2. path[f] = PathOf(c, f) /\ outcome[f] # "none" /\ f \in Files
        BY <2>1, <4>1, PlaceFacts DEF FInv, Placed
      <4>3. f \notin F
        BY <1>2, <4>2
      <4>4. QED
        BY <1>4, <4>2, <4>3
    <3>3. QED
      BY <3>1, <3>2
  <2>2. QED
    BY <1>7, <2>1 DEF Placed
<1>18. ASSUME NEW c \in Asked, c # b
       PROVE  KeepsPlaces(c)' /\ KnowsTaken(c)' /\ WasFree(c)'
  <2>1. ~scene.calm \/ Resting(c)'
    BY <1>10, <1>12, <1>18
  <2>2. KeepsPlaces(c)' /\ KnowsTaken(c)'
    BY <1>7, <2>1 DEF KeepsPlaces, KnowsTaken, Watchful, Resting
  <2>3. WasFree(c)'
    BY <1>7, <2>1 DEF WasFree, Sparing, Watchful, Resting
  <2>4. QED
    BY <2>2, <2>3
<1>19. KeepsPlaces(b)'
  BY <1>4, <1>7 DEF KeepsPlaces, F
<1>20. Watchful(b)' <=> Watchful(b)
  BY <1>7 DEF Watchful
<1>21. KnowsTaken(b)'
  <2>1. ASSUME Watchful(b)
        PROVE  /\ \A m \in Names : there'[<<m>>] # Nothing => m \in batch[b].existing
               /\ batch[b].name \in batch[b].existing
    <3>1. /\ \A m \in Names : there[<<m>>] # Nothing => m \in batch[b].existing
          /\ batch[b].name \in batch[b].existing
      BY <1>0, <1>1, <2>1 DEF KnowsTaken
    <3>2. \A m \in Names : m # n => there'[<<m>>] = there[<<m>>]
      BY <1>5, PathFacts
    <3>3. QED
      BY <3>1, <3>2 DEF n
  <2>2. QED
    BY <1>6, <1>20, <2>1 DEF KnowsTaken
<1>22. WasFree(b)'
  <2>1. ASSUME Sparing(b), NEW p \in Paths, p[1] = batch[b].name, there'[p] # Nothing
        PROVE  EntryOf(b).dir /\ Len(p) = 1
    <3>1. there[p] = Nothing
      BY <1>0, <1>1, <2>1 DEF WasFree
    <3>2. p = <<n>>
      BY <1>5, <2>1, <3>1
    <3>3. QED
      BY <1>2, <1>5, <2>1, <3>1, <3>2
  <2>2. Sparing(b)' <=> Sparing(b)
    BY <1>0, <1>6, <1>20 DEF Sparing
  <2>3. QED
    BY <1>6, <1>7, <2>1, <2>2 DEF WasFree
<1>23. QED
  BY <1>7, <1>8, <1>9, <1>11, <1>13, <1>14, <1>15, <1>16, <1>17, <1>18, <1>19, <1>21, <1>22 DEF FInv

-----------------------------------------------------------------------------

LEMMA FInitFInv == FInit => FInv
<1> SUFFICES ASSUME FInit PROVE FInv
  OBVIOUS
<1>0. /\ scene \in Scenes /\ Asked \subseteq Batches /\ scene.loose \subseteq Files
      /\ \A b \in Asked : Len(scene.plans[b].entries) \in Nat \ {0} /\ scene.plans[b].entries \in Seq(Entry)
  BY PlanFacts DEF FInit
<1>1. /\ phase = [f \in Files |-> "idle"] /\ outcome = [f \in Files |-> "none"]
      /\ batch = [b \in Batches |-> [at |-> "idle", entry |-> 0, existing |-> {}, name |-> Nothing,
                                     said |-> {}, todo |-> {}]]
      /\ there = [p \in Paths |-> IF p \in DOMAIN scene.old THEN scene.old[p] ELSE Nothing]
      /\ told = [b \in Batches |-> <<>>] /\ path = [f \in Files |-> Nothing]
  BY DEF FInit, Init
<1>2. \A b \in Asked : batch[b].at = "idle" /\ batch[b].entry = 0 /\ batch[b].todo = {}
  BY <1>0, <1>1
<1>3. scene.old \in [DOMAIN scene.old -> {"old", "dir"}] /\ DOMAIN scene.old \subseteq Paths
  BY <1>0, SceneAssumption
<1>4. BatchTypes
  <2>1. there \in [Paths -> Marks]
    BY <1>1, <1>3 DEF Marks
  <2>2. [at |-> "idle", entry |-> 0, existing |-> {}, name |-> Nothing, said |-> {}, todo |-> {}] \in Request
    BY DEF Request, Steps
  <2>3. batch \in [Batches -> Request]
    BY <1>1, <2>2
  <2>4. told \in [Batches -> Seq(Told)] /\ path \in [Files -> Paths \cup {Nothing}] /\ outcome \in [Files -> Outcomes]
    BY <1>1 DEF Told, Outcomes
  <2>5. QED
    BY <1>0, <2>1, <2>3, <2>4 DEF BatchTypes
<1>5. IsTree
  <2>1. ASSUME NEW n \in Names, NEW m \in Names, there[<<n, m>>] # Nothing
        PROVE  there[<<n, m>>] # "dir" /\ there[<<n>>] = "dir"
    <3>1. <<n>> \in Paths /\ <<n, m>> \in Paths
      BY PathFacts
    <3>2. <<n, m>> \in DOMAIN scene.old
      BY <1>1, <2>1, <3>1
    <3>3. /\ scene.old[<<n, m>>] = "old" /\ <<n>> \in DOMAIN scene.old /\ scene.old[<<n>>] = "dir"
      BY <1>0, <3>2, TreeAssumption
    <3>4. QED
      BY <1>1, <3>1, <3>2, <3>3
  <2>2. QED
    BY <2>1 DEF IsTree
<1>6. BusyIsAsked /\ OneAtATime /\ \A f \in Files : OutcomeOf(f)
  <2>1. \A f \in Files : phase[f] = "idle" /\ outcome[f] = "none"
    BY <1>1
  <2>2. BusyIsAsked
    BY <2>1 DEF BusyIsAsked
  <2>3. \A f \in Files : OutcomeOf(f)
    BY <2>1 DEF OutcomeOf
  <2>4. OneAtATime
    BY <1>2 DEF OneAtATime, Resting
  <2>5. QED
    BY <2>2, <2>3, <2>4
<1>7. ASSUME NEW b \in Asked PROVE WhereOf(b) /\ NotYet(b) /\ Placed(b)
  <2>1. WhereOf(b) /\ Placed(b)
    BY <1>2 DEF WhereOf, Resting, Placed
  <2>2. \A i \in DOMAIN scene.plans[b].entries : \A f \in ToSet(scene.plans[b].entries[i].files) : f \in Files
    BY <1>0, EntryFacts
  <2>3. NotYet(b)
    BY <1>1, <2>2 DEF NotYet
  <2>4. QED
    BY <2>1, <2>3
<1>8. \A b \in Asked : KeepsPlaces(b) /\ KnowsTaken(b) /\ WasFree(b)
  BY <1>2 DEF KeepsPlaces, KnowsTaken, WasFree
<1>9. QED
  BY <1>4, <1>5, <1>6, <1>7, <1>8 DEF FInv

LEMMA FNextFInv ==
  ASSUME FInv, IInv, [FNext]_allvars
  PROVE  FInv' /\ IInv'
<1>0. IInv'
  BY FNextIInv
<1>1. ASSUME UNCHANGED <<scene, batch, told, there, path, outcome, phase>> PROVE FInv'
  <2>1. UNCHANGED <<scene, batch, told, there, path, outcome, phase>>
    BY <1>1
  <2>2. /\ Asked' = Asked /\ BatchTypes' /\ IsTree' /\ \A f \in Files : OutcomeOf(f)'
        /\ \A b \in Asked : EntryOf(b)' = EntryOf(b) /\ FilesOf(b)' = FilesOf(b) /\ Kind(b)' = Kind(b)
        /\ \A b \in Asked : \A f : PathOf(b, f)' = PathOf(b, f)
    BY <2>1 DEF Asked, FInv, BatchTypes, IsTree, OutcomeOf, EntryOf, FilesOf, Kind, PathOf
  <2>3. BusyIsAsked' /\ OneAtATime'
    BY <2>1, <2>2 DEF FInv, BusyIsAsked, OneAtATime, Resting
  <2>4. \A b \in Asked : WhereOf(b)' /\ NotYet(b)' /\ Placed(b)'
    BY <2>1, <2>2 DEF FInv, WhereOf, NotYet, Placed, Resting
  <2>5. \A b \in Asked : KeepsPlaces(b)' /\ KnowsTaken(b)' /\ WasFree(b)'
    BY <2>1, <2>2 DEF FInv, KeepsPlaces, KnowsTaken, WasFree, Sparing, Watchful
  <2>6. QED
    BY <2>2, <2>3, <2>4, <2>5 DEF FInv
<1>2. ASSUME NEW f \in Files, FileStep(f) PROVE FInv'
  BY <1>0, <1>2, FileStepKeeps
<1>3. ASSUME NEW n \in Limits, SetLimit(n) /\ UNCHANGED batchvars PROVE FInv'
  BY <1>1, <1>3 DEF SetLimit, batchvars
<1>4. ASSUME NEW b \in Asked, Drop(b) \/ Goes(b) PROVE FInv'
  <2>1. Drop(b) => FInv'
    BY DropKeeps
  <2>2. Listed(b) \/ ListingFails(b) => FInv'
    BY ListingKeeps
  <2>3. ResolveName(b) => FInv'
    BY ResolveNameKeeps
  <2>4. Answers(b) \/ Opens(b) \/ LookFails(b) => FInv'
    BY AnswersKeeps
  <2>5. Starts(b) => FInv'
    BY StartsKeeps
  <2>6. Settled(b) => FInv'
    BY SettledKeeps
  <2>7. Deletes(b) => FInv'
    BY DeletesKeeps
  <2>8. Unlinks(b) => FInv'
    BY UnlinksKeeps
  <2>9. Rmdir(b) => FInv'
    BY RmdirKeeps
  <2>10. QED
    BY <1>4, <2>1, <2>2, <2>3, <2>4, <2>5, <2>6, <2>7, <2>8, <2>9 DEF Goes
<1>5. CASE UNCHANGED allvars
  <2>1. UNCHANGED <<scene, batch, told, there, path, outcome, phase>>
    BY <1>5 DEF allvars, vars, batchvars
  <2>2. QED
    BY <1>0, <1>1, <2>1
<1>6. QED
  BY <1>0, <1>2, <1>3, <1>4, <1>5 DEF FNext

(* The inductive invariant of the gate and the requests together.          *)
THEOREM BatchesInductive == FSpec => [](IInv /\ FInv)
<1>1. FInit => IInv /\ FInv
  BY InitIInv, FInitFInv DEF FInit
<1>2. IInv /\ FInv /\ [FNext]_allvars => (IInv /\ FInv)'
  BY FNextFInv
<1>3. QED
  BY <1>1, <1>2, PTL DEF FSpec

(***************************************************************************)
(* No slot is leaked or returned twice, and no wake-up is lost, when whole *)
(* folders call acquire() for all their files in a row, whatever the       *)
(* requests, the conflict setting and the failures.                        *)
(***************************************************************************)
THEOREM BatchesKeepSlots == FSpec => [](SlotAccounting /\ NoLostWakeup)
<1>1. IInv => SlotAccounting /\ NoLostWakeup
  BY DEF IInv
<1>2. QED
  BY <1>1, BatchesInductive, PTL

(***************************************************************************)
(* release() serves the queue from its head only, also when a folder       *)
(* queues its files in a row: they join at the end.                        *)
(***************************************************************************)
THEOREM BatchesServedInOrder == FSpec => FifoService
<1>1. ASSUME IInv, FInv, [FNext]_allvars, NEW f \in Files, phase[f] = "waiting", phase'[f] # "waiting"
      PROVE  Head(waiters) = f /\ waiters' = Tail(waiters)
  <2>0. phase \in [Files -> Phases] /\ IInv'
    BY <1>1, FNextIInv DEF IInv, TypeOK
  <2>1. PICK g \in Files : OpenFails(g) \/ Leave(g)
    <3>1. ASSUME NEW b \in Asked, Starts(b) PROVE FALSE
      <4>1. batch[b].at = "looking" /\ Acquires(EntryOf(b).files, active)
        BY <3>1 DEF Starts, At, Calls
      <4>2. EntryOf(b).files \in Seq(Files) /\ \A i \in DOMAIN EntryOf(b).files : phase[EntryOf(b).files[i]] = "idle"
        BY <1>1, <4>1, CallsAreIdle
      <4>3. \A i \in DOMAIN EntryOf(b).files : EntryOf(b).files[i] # f
        BY <1>1, <4>2
      <4> DEFINE fs == EntryOf(b).files
      <4>4. phase'[f] = phase[f]
        <5>1. fs \in Seq(Files) /\ Acquires(fs, active) /\ TypeOK /\ \A i \in DOMAIN fs : fs[i] # f
          BY <1>1, <4>1, <4>2, <4>3 DEF IInv
        <5> HIDE DEF fs
        <5>2. \A g \in Files : (\A i \in DOMAIN fs : fs[i] # g) => phase'[g] = phase[g]
          BY <5>1, AcquiresFacts
        <5>3. QED
          BY <5>1, <5>2
      <4>5. QED
        BY <1>1, <4>4
    <3>2. ASSUME NEW b \in Asked, Drop(b) \/ (Goes(b) /\ ~Starts(b)) PROVE phase' = phase
      BY <3>2 DEF Goes, Drop, Listed, ListingFails, ResolveName, Answers, Opens, LookFails, Settled,
                  Deletes, Unlinks, Rmdir, vars
    <3>3. ASSUME NEW g \in Files, FileStep(g), ~(OpenFails(g) \/ Leave(g)) PROVE phase'[f] = phase[f]
      BY <1>1, <2>0, <3>3 DEF FileStep, LooseCall, FileOpenFails, FileStarts, FileSettles, AcquireNow,
            AcquireLater, ResumeAcquire, StartStreaming, Pause, Unpause, Settle
    <3>4. ASSUME NEW n \in Limits, SetLimit(n) PROVE phase' = phase
      BY <3>4 DEF SetLimit
    <3>5. CASE UNCHANGED allvars
      BY <1>1, <3>5 DEF allvars, vars
    <3>6. QED
      BY <1>1, <3>1, <3>2, <3>3, <3>4, <3>5 DEF FNext
  <2>2. Release(g) /\ g # f
    BY <1>1, <2>1 DEF OpenFails, Leave
  <2>3. CASE waiters = <<>>
    BY <1>1, <2>0, <2>2, <2>3 DEF Release
  <2>4. CASE waiters # <<>>
    BY <1>1, <2>0, <2>2, <2>4 DEF Release
  <2>5. QED
    BY <2>3, <2>4
<1>2. IInv /\ FInv /\ [FNext]_allvars =>
        [\A f \in Files :
           phase[f] = "waiting" /\ phase'[f] # "waiting" =>
             Head(waiters) = f /\ waiters' = Tail(waiters)]_vars
  BY <1>1
<1>3. QED
  BY <1>2, BatchesInductive, PTL DEF FSpec, FifoService

(* The request a file is of.                                               *)
LEMMA OwnerIs ==
  ASSUME FInv, NEW b \in Asked, batch[b].at = "files", NEW f \in FilesOf(b)
  PROVE  Owner(f) = b
<1>1. scene \in Scenes /\ batch[b].entry \in DOMAIN scene.plans[b].entries
  BY DEF FInv, BatchTypes, WhereOf, Resting
<1>2. f \in ToSet(scene.plans[b].entries[batch[b].entry].files)
  BY DEF FilesOf, EntryOf
<1>3. \A c \in Asked : (\E i \in DOMAIN scene.plans[c].entries : f \in ToSet(scene.plans[c].entries[i].files)) => c = b
  BY <1>1, <1>2, EntryFacts
<1>4. \E i \in DOMAIN scene.plans[b].entries : f \in ToSet(scene.plans[b].entries[i].files)
  BY <1>1, <1>2
<1>5. QED
  BY <1>3, <1>4 DEF Owner

(* Who writes over what was there: a file's stream, in its place.          *)
LEMMA OverwritesStep ==
  ASSUME FInv, IInv, [FNext]_allvars, scene.calm, scene.readable, NEW p \in Paths,
         there[p] # Nothing, there'[p] \notin {Nothing, there[p]}, Kind(Owner(there'[p])) = "copy"
  PROVE  scene.policy = "overwrite" \/ p[1] \in batch[Owner(there'[p])].said
<1>0. there \in [Paths -> Marks] /\ path \in [Files -> Paths \cup {Nothing}]
  BY DEF FInv, BatchTypes
<1>1. ASSUME NEW b \in Asked, Starts(b) PROVE FALSE
  <2>1. <<batch[b].name>> \in Paths
    BY <1>1, PlaceFacts DEF Starts, At
  <2>2. there' = there \/ there' = [there EXCEPT ![<<batch[b].name>>] = IF @ = Nothing THEN "dir" ELSE @]
    BY <1>1 DEF Starts
  <2>3. QED
    BY <1>0, <2>1, <2>2
<1>2. ASSUME NEW b \in Asked, Drop(b) \/ (Goes(b) /\ ~Starts(b)) PROVE FALSE
  <2>1. there' = there \/ \E ps : Gone(ps)
    BY <1>2 DEF Goes, Drop, Listed, ListingFails, ResolveName, Answers, Opens, LookFails, Settled,
                Deletes, Unlinks, Rmdir
  <2>2. ASSUME NEW ps, Gone(ps) PROVE there'[p] \in {Nothing, there[p]}
    BY <2>2 DEF Gone
  <2>3. QED
    BY <2>1, <2>2
<1>3. ASSUME NEW f \in Files, FileStep(f)
      PROVE  scene.policy = "overwrite" \/ p[1] \in batch[Owner(there'[p])].said
  <2>1. \/ there' = there
        \/ there' = [there EXCEPT ![path[f]] = IF @ = "dir" THEN @ ELSE Nothing]
        \/ /\ there' = [there EXCEPT ![path[f]] = f]
           /\ f \notin scene.loose /\ phase[f] = "opening"
    BY <1>3 DEF FileStep, LooseCall, FileOpenFails, FileStarts, StartStreaming, FileSettles, Removed,
                batchvars
  <2>2. /\ p = path[f] /\ there'[p] = f
        /\ f \notin scene.loose /\ phase[f] = "opening"
    BY <1>0, <2>1
  <2>3. PICK b \in Asked : batch[b].at = "files" /\ f \in FilesOf(b) /\ path[f] = PathOf(b, f)
    BY <2>2, OwnerOfBusy
  <2>4. Owner(there'[p]) = b
    BY <2>2, <2>3, OwnerIs
  <2>5. ASSUME scene.policy # "overwrite", p[1] \notin batch[b].said PROVE FALSE
    <3>1. p = PathOf(b, f) /\ p[1] = batch[b].name /\ Len(p) = IF EntryOf(b).dir THEN 2 ELSE 1
      BY <2>2, <2>3, PlaceFacts
    <3>2. Sparing(b)
      BY <2>4, <2>5, <3>1 DEF Sparing, Watchful
    <3>3. (EntryOf(b).dir /\ Len(p) = 1) \/ \E g \in FilesOf(b) : p = PathOf(b, g) /\ outcome[g] # "called"
      BY <2>3, <3>1, <3>2 DEF FInv, WasFree
    <3>4. PICK g \in FilesOf(b) : p = PathOf(b, g) /\ outcome[g] # "called"
      BY <3>1, <3>3
    <3>5. g = f
      BY <2>3, <3>1, <3>4, PlaceFacts
    <3>6. outcome[f] = "called"
      BY <2>2 DEF FInv, OutcomeOf
    <3>7. QED
      BY <3>4, <3>5, <3>6
  <2>6. QED
    BY <2>4, <2>5
<1>4. CASE UNCHANGED there
  BY <1>4
<1>5. QED
  BY <1>1, <1>2, <1>3, <1>4 DEF FNext, batchvars, allvars

(* Who reports a success: a deletion that left nothing, and a transfer     *)
(* whose files are where they were sent.                                   *)
LEMMA ReportedStep ==
  ASSUME FInv, IInv, [FNext]_allvars, scene.calm, NEW b \in Asked,
         told'[b] # told[b], Last(told'[b]) = "ok"
  PROVE  LET e == EntryOf(b)
         IN IF Kind(b) = "delete" THEN ~\E p \in Paths : p[1] = e.name /\ there'[p] # Nothing
            ELSE \A f \in FilesOf(b) :
                   \/ outcome[f] = "done" /\ there'[path[f]] = f
                   \/ outcome[f] = "cancelled" /\ e.dir /\ there'[path[f]] \in {Nothing, f}
<1>0. /\ b \in Batches /\ Asked \subseteq Batches /\ told \in [Batches -> Seq(Told)] /\ scene \in Scenes
  BY PlanFacts DEF FInv, BatchTypes
<1>1. PICK c \in Asked : Drop(c) \/ Goes(c)
  <2>1. ASSUME NEW f \in Files, FileStep(f) PROVE told' = told
    BY <2>1 DEF FileStep, LooseCall, FileOpenFails, FileStarts, FileSettles, batchvars
  <2>2. QED
    BY <2>1 DEF FNext, batchvars, allvars
<1>2. ASSUME NEW t \in Told, Turn(c, t), batch[c].at \in {"naming", "asking", "looking", "files", "unlinking"}
      PROVE  c = b /\ t = "ok"
  <2>1. told'[c] = Append(told[c], t) /\ \A d \in Batches : d # c => told'[d] = told[d]
    BY <1>2, TurnIs
  <2>2. c = b
    BY <1>0, <2>1
  <2>3. told[b] \in Seq(Told)
    BY <1>0
  <2>4. Last(Append(told[b], t)) = t
    BY <2>3 DEF Last
  <2>5. QED
    BY <2>1, <2>2, <2>4
<1>3. "failed" \in Told /\ "skipped" \in Told /\ "ok" \in Told
  BY DEF Told
<1>4. Deletes(c) \/ Rmdir(c) \/ Settled(c)
  <2>1. told' # told
    BY <1>0
  <2>2. ~Drop(c) /\ ~Listed(c) /\ ~ListingFails(c) /\ ~Opens(c) /\ ~Starts(c)
    BY <2>1 DEF Drop, Listed, ListingFails, Opens, Starts
  <2>3. ~ResolveName(c)
    BY <1>2, <1>3, <2>1 DEF ResolveName, At
  <2>4. ~Answers(c) /\ ~LookFails(c)
    BY <1>2, <1>3, <2>1 DEF Answers, LookFails, At
  <2>5. ~Unlinks(c)
    BY <1>2, <1>3, <2>1 DEF Unlinks, At
  <2>6. QED
    BY <1>1, <2>2, <2>3, <2>4, <2>5 DEF Goes
<1>5. CASE Settled(c)
  <2>1. batch[c].at = "files" /\ there' = there /\ Turn(c, IF Summary(c) THEN "ok" ELSE "failed")
    BY <1>5 DEF Settled, At
  <2>2. c = b /\ Summary(b)
    BY <1>2, <1>3, <2>1
  <2>3. Kind(b) # "delete"
    BY <2>1, <2>2 DEF FInv, WhereOf
  <2>4. \A f \in FilesOf(b) : outcome[f] = "done" \/ (EntryOf(b).dir /\ outcome[f] = "cancelled")
    BY <2>2 DEF Summary
  <2>5. \A f \in FilesOf(b) :
          /\ outcome[f] \in {"writing", "done"} => there[path[f]] = f
          /\ outcome[f] = "cancelled" /\ EntryOf(b).dir => there[path[f]] \in {Nothing, f}
    BY <2>1, <2>2 DEF FInv, KeepsPlaces
  <2>6. QED
    BY <2>1, <2>3, <2>4, <2>5
<1>6. CASE Deletes(c) \/ Rmdir(c)
  <2> DEFINE n == EntryOf(b).name
  <2>1. /\ batch[c].at \in {"naming", "unlinking"}
        /\ Turn(c, "ok") \/ Turn(c, "failed")
    <3>1. told' # told
      BY <1>0
    <3>2. QED
      BY <1>6, <3>1 DEF Deletes, Rmdir, At
  <2>2. c = b
    BY <1>2, <1>3, <2>1
  <2>3. Kind(b) = "delete"
    BY <1>6, <2>2 DEF Deletes, Rmdir, At, FInv, WhereOf
  <2>4. \/ Gone({<<n>>} \cup Inside(n))
        \/ Inside(n) = {} /\ Gone({<<n>>})
    <3>1. ~Turn(c, "failed") /\ told' # told
      BY <1>0, <1>2, <1>3, <2>1
    <3>2. QED
      BY <1>6, <2>2, <3>1 DEF Deletes, Rmdir
  <2>5. n \in Names
    BY <1>0, <2>1, <2>2, EntryFacts DEF FInv, WhereOf, Resting, EntryOf
  <2> HIDE DEF n
  <2>6. ASSUME NEW p \in Paths, p[1] = n PROVE there'[p] = Nothing
    <3>1. p = <<n>> \/ \E m \in Names : p = <<n, m>>
      BY <2>6, PathFacts
    <3>2. p = <<n>> \/ p \in Inside(n) \/ there[p] = Nothing
      BY <2>5, <3>1, InsideFacts
    <3>3. QED
      BY <2>4, <3>2 DEF Gone
  <2>7. QED
    BY <2>3, <2>6 DEF n
<1>7. QED
  BY <1>4, <1>5, <1>6

(***************************************************************************)
(* The file manager does what was asked for and reports what it did, for   *)
(* any requests, entries, names, destination and conflict setting, and     *)
(* whatever fails, is paused or is cancelled: one request at a time, a     *)
(* drop writes over nothing it was not told to (resolveName), an entry     *)
(* reported as transferred is in its place, and one reported as deleted is *)
(* gone (SftpPanel.transfer, summarize).                                   *)
(***************************************************************************)
THEOREM BatchesAlwaysSound == FSpec => BatchesAreSound
<1>1. IInv /\ FInv => FTypeOK
  <2> SUFFICES ASSUME IInv, FInv PROVE FTypeOK
    OBVIOUS
  <2>1. /\ TypeOK /\ scene \in Scenes /\ there \in [Paths -> {Nothing, "old", "dir"} \cup Files]
        /\ path \in [Files -> Paths \cup {Nothing}]
        /\ outcome \in [Files -> {"none", "called", "writing", "stray", "done", "failed", "cancelled"}]
    BY DEF IInv, FInv, BatchTypes, Marks, Outcomes
  <2>2. ASSUME NEW b \in Asked
        PROVE  /\ batch[b].at \in {"idle", "listing", "naming", "asking", "looking", "files",
                                   "unlinking", "done"}
               /\ batch[b].existing \cup batch[b].said \subseteq Names /\ batch[b].todo \subseteq Paths
               /\ told[b] \in Seq({"ok", "failed", "skipped"})
               /\ batch[b].at # "idle" => batch[b].entry \in 1 .. (Len(scene.plans[b].entries) + 1)
    <3>1. b \in Batches /\ batch[b] \in Request /\ told[b] \in Seq(Told) /\ WhereOf(b)
      BY <2>1, PlanFacts DEF FInv, BatchTypes
    <3>2. batch[b].at \in Steps /\ batch[b].existing \cup batch[b].said \subseteq Names /\ batch[b].todo \subseteq Paths
      BY <3>1, RequestFields
    <3>3. QED
      BY <3>1, <3>2 DEF Steps, Told, WhereOf
  <2>3. QED
    BY <2>1, <2>2 DEF FTypeOK
<1>2. IInv /\ FInv /\ [FNext]_allvars =>
        [scene.calm /\ scene.readable => \A p \in Paths :
           there[p] # Nothing /\ there'[p] \notin {Nothing, there[p]} /\ Kind(Owner(there'[p])) = "copy"
             => scene.policy = "overwrite" \/ p[1] \in batch[Owner(there'[p])].said]_allvars
  BY OverwritesStep
<1>3. IInv /\ FInv /\ [FNext]_allvars =>
        [scene.calm => \A b \in Asked :
           told'[b] # told[b] /\ Last(told'[b]) = "ok" =>
             LET e == EntryOf(b)
             IN IF Kind(b) = "delete" THEN ~\E p \in Paths : p[1] = e.name /\ there'[p] # Nothing
                ELSE \A f \in FilesOf(b) :
                       \/ outcome[f] = "done" /\ there'[path[f]] = f
                       \/ outcome[f] = "cancelled" /\ e.dir /\ there'[path[f]] \in {Nothing, f}]_allvars
  BY ReportedStep
<1>4. QED
  BY <1>1, <1>2, <1>3, BatchesInductive, PTL DEF FSpec, BatchesAreSound, OverwritesAsked, ReportedIsSo

-----------------------------------------------------------------------------
(***************************************************************************)
(* For files and buffers of any size: one transfer is reported once, what  *)
(* is reported done is whole, and the user's cancel decides                *)
(* (TransferStream).                                                       *)
(***************************************************************************)

(* The id leaves the map in the step that settles the promise.             *)
ListedUntilSettled == listed <=> result = "pending"

(* Only a cancel destroys the sink of a listed transfer, and 'finish'      *)
(* takes the transfer off the map before 'close' asks again.               *)
SinkTellsWhy ==
  /\ listed /\ sink = "destroyed" => cancelled
  /\ sink \in {"finished", "closed"} => ~listed
  /\ cancelled => sink \in {"destroyed", "closed"}
  /\ result = "done" => sink \in {"finished", "closed"}

(* A sink that was ended has been handed every chunk, and one that has     *)
(* none left to write has written the whole file.                          *)
EndedIsComplete ==
  /\ sink \in {"ending", "finished"} => left = 0
  /\ sink \in {"open", "ending", "finished"} /\ left = 0 /\ buffered = 0 =>
       file = "whole"

(* Nothing that ended a transfer leaves its source running.                *)
StoppedSource ==
  /\ cancelled \/ sink \in {"ending", "finished"} => src # "open"
  /\ ~listed => src # "open" \/ (~flowing /\ sink \in {"destroyed", "closed"})

(* The arithmetic of StreamTypeOK.                                         *)
Counts == left \in 0..Chunks /\ buffered \in 0..Chunks /\ left + buffered <= Chunks

(* The inductive invariant.                                                *)
SInv ==
  /\ StreamTypeOK
  /\ ListedUntilSettled /\ SinkTellsWhy /\ EndedIsComplete /\ StoppedSource
  /\ DoneIsWhole /\ CancelWins

-----------------------------------------------------------------------------

LEMMA InitSInv == StreamInit => SInv
<1> SUFFICES ASSUME StreamInit PROVE SInv
  OBVIOUS
<1>0. Counts
  BY ChunksAssumption DEF StreamInit, Counts
<1>1. StreamTypeOK
  BY <1>0, Zenon DEF StreamInit, Counts, StreamTypeOK, Results, Statuses
<1>2. ListedUntilSettled
  BY ChunksAssumption DEF StreamInit, ListedUntilSettled
<1>3. SinkTellsWhy
  BY ChunksAssumption DEF StreamInit, SinkTellsWhy, ListedUntilSettled
<1>4. EndedIsComplete
  BY ChunksAssumption DEF StreamInit, EndedIsComplete, StreamTypeOK, SinkTellsWhy
<1>5. StoppedSource
  BY ChunksAssumption DEF StreamInit, StoppedSource, SinkTellsWhy
<1>6. DoneIsWhole
  BY ChunksAssumption DEF StreamInit, DoneIsWhole, ListedUntilSettled, SinkTellsWhy, EndedIsComplete
<1>7. CancelWins
  BY ChunksAssumption DEF StreamInit, CancelWins, ListedUntilSettled
<1>8. QED
  BY <1>1, <1>2, <1>3, <1>4, <1>5, <1>6, <1>7 DEF SInv

(* The steps in which no handler of runTransfer runs.                      *)
LEMMA QuietStep ==
  ASSUME SInv, \/ PauseStream \/ ResumeStream \/ Cancel \/ Read \/ SourceEnd \/ Written
               \/ UNCHANGED streamvars
  PROVE  SInv'
<1> USE ChunksAssumption DEF SInv
<1>1. CASE PauseStream
  <2>1. StreamTypeOK'
    BY <1>1 DEF PauseStream, StreamTypeOK, Results, Statuses
  <2>2. ListedUntilSettled'
    BY <1>1 DEF PauseStream, ListedUntilSettled
  <2>3. SinkTellsWhy'
    BY <1>1 DEF PauseStream, SinkTellsWhy, ListedUntilSettled
  <2>4. EndedIsComplete'
    BY <1>1 DEF PauseStream, EndedIsComplete, StreamTypeOK, SinkTellsWhy
  <2>5. StoppedSource'
    BY <1>1 DEF PauseStream, StoppedSource, SinkTellsWhy
  <2>6. DoneIsWhole'
    BY <1>1 DEF PauseStream, DoneIsWhole, ListedUntilSettled, SinkTellsWhy, EndedIsComplete
  <2>7. CancelWins'
    BY <1>1 DEF PauseStream, CancelWins, ListedUntilSettled
  <2>8. QED
    BY <2>1, <2>2, <2>3, <2>4, <2>5, <2>6, <2>7
<1>2. CASE ResumeStream
  <2>1. StreamTypeOK'
    BY <1>2 DEF ResumeStream, streams, StreamTypeOK, Results, Statuses
  <2>2. ListedUntilSettled'
    BY <1>2 DEF ResumeStream, streams, ListedUntilSettled
  <2>3. SinkTellsWhy'
    BY <1>2 DEF ResumeStream, streams, SinkTellsWhy, ListedUntilSettled
  <2>4. EndedIsComplete'
    BY <1>2 DEF ResumeStream, streams, EndedIsComplete, StreamTypeOK, SinkTellsWhy
  <2>5. StoppedSource'
    BY <1>2 DEF ResumeStream, streams, StoppedSource, SinkTellsWhy
  <2>6. DoneIsWhole'
    BY <1>2 DEF ResumeStream, streams, DoneIsWhole, ListedUntilSettled, SinkTellsWhy, EndedIsComplete
  <2>7. CancelWins'
    BY <1>2 DEF ResumeStream, streams, CancelWins, ListedUntilSettled
  <2>8. QED
    BY <2>1, <2>2, <2>3, <2>4, <2>5, <2>6, <2>7
<1>3. CASE Cancel
  <2>0. Counts'
    BY <1>3 DEF Cancel, Counts, StreamTypeOK
  <2>1. StreamTypeOK'
    BY <1>3, <2>0, Zenon DEF Cancel, Counts, StreamTypeOK, Results, Statuses
  <2>2. ListedUntilSettled'
    BY <1>3 DEF Cancel, ListedUntilSettled
  <2>3. SinkTellsWhy'
    BY <1>3 DEF Cancel, SinkTellsWhy, ListedUntilSettled
  <2>4. EndedIsComplete'
    BY <1>3 DEF Cancel, EndedIsComplete, StreamTypeOK, SinkTellsWhy
  <2>5. StoppedSource'
    BY <1>3 DEF Cancel, StoppedSource, SinkTellsWhy
  <2>6. DoneIsWhole'
    BY <1>3 DEF Cancel, DoneIsWhole, ListedUntilSettled, SinkTellsWhy, EndedIsComplete
  <2>7. CancelWins'
    BY <1>3 DEF Cancel, CancelWins, ListedUntilSettled
  <2>8. QED
    BY <2>1, <2>2, <2>3, <2>4, <2>5, <2>6, <2>7
<1>4. CASE Read
  <2>1. StreamTypeOK'
    BY <1>4, HighWaterAssumption DEF Read, user, StreamTypeOK, Results, Statuses
  <2>2. ListedUntilSettled'
    BY <1>4, HighWaterAssumption DEF Read, user, ListedUntilSettled
  <2>3. SinkTellsWhy'
    BY <1>4, HighWaterAssumption DEF Read, user, SinkTellsWhy, ListedUntilSettled
  <2>4. EndedIsComplete'
    BY <1>4, HighWaterAssumption DEF Read, user, EndedIsComplete, StreamTypeOK, SinkTellsWhy
  <2>5. StoppedSource'
    BY <1>4, HighWaterAssumption DEF Read, user, StoppedSource, SinkTellsWhy
  <2>6. DoneIsWhole'
    BY <1>4, HighWaterAssumption DEF Read, user, DoneIsWhole, ListedUntilSettled, SinkTellsWhy, EndedIsComplete
  <2>7. CancelWins'
    BY <1>4, HighWaterAssumption DEF Read, user, CancelWins, ListedUntilSettled
  <2>8. QED
    BY <2>1, <2>2, <2>3, <2>4, <2>5, <2>6, <2>7
<1>5. CASE SourceEnd
  <2>1. StreamTypeOK'
    BY <1>5 DEF SourceEnd, user, StreamTypeOK, Results, Statuses
  <2>2. ListedUntilSettled'
    BY <1>5 DEF SourceEnd, user, ListedUntilSettled
  <2>3. SinkTellsWhy'
    BY <1>5 DEF SourceEnd, user, SinkTellsWhy, ListedUntilSettled, StoppedSource
  <2>4. EndedIsComplete'
    BY <1>5 DEF SourceEnd, user, EndedIsComplete, StreamTypeOK, SinkTellsWhy, StoppedSource
  <2>5. StoppedSource'
    BY <1>5 DEF SourceEnd, user, StoppedSource, SinkTellsWhy
  <2>6. DoneIsWhole'
    BY <1>5 DEF SourceEnd, user, DoneIsWhole, ListedUntilSettled, SinkTellsWhy, EndedIsComplete
  <2>7. CancelWins'
    BY <1>5 DEF SourceEnd, user, CancelWins, ListedUntilSettled
  <2>8. QED
    BY <2>1, <2>2, <2>3, <2>4, <2>5, <2>6, <2>7
<1>6. CASE Written
  <2>0. Counts'
    BY <1>6 DEF Written, Counts, StreamTypeOK
  <2>a. flowing' \in BOOLEAN /\ needDrain' \in BOOLEAN
    BY <1>6 DEF Written, StreamTypeOK
  <2>b. /\ file' \in {"absent", "partial", "whole"}
        /\ UNCHANGED <<listed, onHold, cancelled, shown, result, src, sink>>
    BY <1>6 DEF Written, user
  <2>1. StreamTypeOK'
    BY <2>0, <2>a, <2>b, Zenon DEF Counts, StreamTypeOK
  <2>2. ListedUntilSettled'
    BY <1>6 DEF Written, user, ListedUntilSettled
  <2>3. SinkTellsWhy'
    BY <1>6 DEF Written, user, SinkTellsWhy, ListedUntilSettled
  <2>4. EndedIsComplete'
    BY <1>6 DEF Written, user, EndedIsComplete, StreamTypeOK, SinkTellsWhy
  <2>5. StoppedSource'
    BY <1>6 DEF Written, user, StoppedSource, SinkTellsWhy
  <2>6. DoneIsWhole'
    BY <1>6 DEF Written, user, DoneIsWhole, ListedUntilSettled, SinkTellsWhy, EndedIsComplete
  <2>7. CancelWins'
    BY <1>6 DEF Written, user, CancelWins, ListedUntilSettled
  <2>8. QED
    BY <2>1, <2>2, <2>3, <2>4, <2>5, <2>6, <2>7
<1>7. CASE UNCHANGED streamvars
  <2>1. StreamTypeOK'
    BY <1>7 DEF streamvars, user, streams, StreamTypeOK, Results, Statuses
  <2>2. ListedUntilSettled'
    BY <1>7 DEF streamvars, user, streams, ListedUntilSettled
  <2>3. SinkTellsWhy'
    BY <1>7 DEF streamvars, user, streams, SinkTellsWhy, ListedUntilSettled
  <2>4. EndedIsComplete'
    BY <1>7 DEF streamvars, user, streams, EndedIsComplete, StreamTypeOK, SinkTellsWhy
  <2>5. StoppedSource'
    BY <1>7 DEF streamvars, user, streams, StoppedSource, SinkTellsWhy
  <2>6. DoneIsWhole'
    BY <1>7 DEF streamvars, user, streams, DoneIsWhole, ListedUntilSettled, SinkTellsWhy, EndedIsComplete
  <2>7. CancelWins'
    BY <1>7 DEF streamvars, user, streams, CancelWins, ListedUntilSettled
  <2>8. QED
    BY <2>1, <2>2, <2>3, <2>4, <2>5, <2>6, <2>7
<1>8. QED
  BY <1>1, <1>2, <1>3, <1>4, <1>5, <1>6, <1>7

(* What onDone and onErr may leave behind.                                 *)
LEMMA HandlersKeepTypes ==
  ASSUME StreamTypeOK, OnDone \/ OnErr
  PROVE  /\ listed' \in BOOLEAN /\ result' \in Results /\ shown' \in Statuses
         /\ file' \in {"absent", "partial", "whole"}
BY DEF StreamTypeOK, OnDone, OnErr, Cancelled, Report, Results, Statuses

(* The steps that run onDone or onErr: the first settles the transfer, the *)
(* others find it off the map.                                             *)
LEMMA HandlerStep ==
  ASSUME SInv, Finish \/ Close \/ CloseFails \/ SourceError \/ SinkError
  PROVE  SInv'
<1> USE DEF SInv, OnDone, OnErr, Cancelled, Report, user
<1>1. CASE Finish
  <2>1. StreamTypeOK'
    BY <1>1 DEF Finish, StreamTypeOK, Results, Statuses
  <2>2. ListedUntilSettled'
    BY <1>1 DEF Finish, ListedUntilSettled
  <2>3. SinkTellsWhy'
    BY <1>1 DEF Finish, SinkTellsWhy, ListedUntilSettled
  <2>4. EndedIsComplete'
    BY <1>1 DEF Finish, EndedIsComplete, StreamTypeOK, SinkTellsWhy
  <2>5. StoppedSource'
    BY <1>1 DEF Finish, StoppedSource, SinkTellsWhy
  <2>6. DoneIsWhole'
    BY <1>1 DEF Finish, DoneIsWhole, ListedUntilSettled, SinkTellsWhy, EndedIsComplete
  <2>7. CancelWins'
    BY <1>1 DEF Finish, CancelWins, ListedUntilSettled
  <2>8. QED
    BY <2>1, <2>2, <2>3, <2>4, <2>5, <2>6, <2>7
<1>2. CASE Close
  <2>0. Counts'
    BY <1>2 DEF Close, Counts, StreamTypeOK
  <2>a. sink' = "closed" /\ UNCHANGED <<onHold, cancelled, src, flowing, needDrain>>
    BY <1>2 DEF Close
  <2>b. OnDone
    BY <1>2 DEF Close
  <2>1. StreamTypeOK'
    BY <2>0, <2>a, <2>b, HandlersKeepTypes, Zenon DEF Counts, StreamTypeOK
  <2>2. ListedUntilSettled'
    BY <1>2 DEF Close, ListedUntilSettled
  <2>3. SinkTellsWhy'
    BY <1>2 DEF Close, SinkTellsWhy, ListedUntilSettled
  <2>4. EndedIsComplete'
    BY <1>2 DEF Close, EndedIsComplete, StreamTypeOK, SinkTellsWhy
  <2>5. StoppedSource'
    BY <1>2 DEF Close, StoppedSource, SinkTellsWhy
  <2>6. DoneIsWhole'
    BY <1>2 DEF Close, DoneIsWhole, ListedUntilSettled, SinkTellsWhy, EndedIsComplete
  <2>7. CancelWins'
    BY <1>2 DEF Close, CancelWins, ListedUntilSettled
  <2>8. QED
    BY <2>1, <2>2, <2>3, <2>4, <2>5, <2>6, <2>7
<1>3. CASE CloseFails
  <2>0. Counts'
    BY <1>3 DEF CloseFails, Counts, StreamTypeOK
  <2>a. sink' = "closed" /\ UNCHANGED <<onHold, cancelled, src, flowing, needDrain>>
    BY <1>3 DEF CloseFails
  <2>b. OnErr
    BY <1>3 DEF CloseFails
  <2>1. StreamTypeOK'
    BY <2>0, <2>a, <2>b, HandlersKeepTypes, Zenon DEF Counts, StreamTypeOK
  <2>2. ListedUntilSettled'
    BY <1>3 DEF CloseFails, ListedUntilSettled
  <2>3. SinkTellsWhy'
    BY <1>3 DEF CloseFails, SinkTellsWhy, ListedUntilSettled
  <2>4. EndedIsComplete'
    BY <1>3 DEF CloseFails, EndedIsComplete, StreamTypeOK, SinkTellsWhy
  <2>5. StoppedSource'
    BY <1>3 DEF CloseFails, StoppedSource, SinkTellsWhy
  <2>6. DoneIsWhole'
    BY <1>3 DEF CloseFails, DoneIsWhole, ListedUntilSettled, SinkTellsWhy, EndedIsComplete
  <2>7. CancelWins'
    BY <1>3 DEF CloseFails, CancelWins, ListedUntilSettled
  <2>8. QED
    BY <2>1, <2>2, <2>3, <2>4, <2>5, <2>6, <2>7
<1>4. CASE SourceError
  <2>0. Counts'
    BY <1>4 DEF SourceError, Counts, StreamTypeOK
  <2>a. src' = "failed" /\ flowing' = FALSE /\ UNCHANGED <<onHold, cancelled, sink, needDrain>>
    BY <1>4 DEF SourceError
  <2>b. OnErr
    BY <1>4 DEF SourceError
  <2>1. StreamTypeOK'
    BY <2>0, <2>a, <2>b, HandlersKeepTypes, Zenon DEF Counts, StreamTypeOK
  <2>2. ListedUntilSettled'
    BY <1>4 DEF SourceError, ListedUntilSettled
  <2>3. SinkTellsWhy'
    BY <1>4 DEF SourceError, SinkTellsWhy, ListedUntilSettled
  <2>4. EndedIsComplete'
    BY <1>4 DEF SourceError, EndedIsComplete, StreamTypeOK, SinkTellsWhy
  <2>5. StoppedSource'
    BY <1>4 DEF SourceError, StoppedSource, SinkTellsWhy
  <2>6. DoneIsWhole'
    BY <1>4 DEF SourceError, DoneIsWhole, ListedUntilSettled, SinkTellsWhy, EndedIsComplete
  <2>7. CancelWins'
    BY <1>4 DEF SourceError, CancelWins, ListedUntilSettled
  <2>8. QED
    BY <2>1, <2>2, <2>3, <2>4, <2>5, <2>6, <2>7
<1>5. CASE SinkError
  <2>0. Counts'
    <3>1. buffered' = 0 /\ left' = left
      BY <1>5 DEF SinkError
    <3>2. QED
      BY <3>1, ChunksAssumption DEF Counts, StreamTypeOK
  <2>a. sink' = "destroyed" /\ flowing' = FALSE /\ UNCHANGED <<onHold, cancelled, src, needDrain>>
    BY <1>5 DEF SinkError
  <2>b. OnErr
    BY <1>5 DEF SinkError
  <2>1. StreamTypeOK'
    BY <2>0, <2>a, <2>b, HandlersKeepTypes, Zenon DEF Counts, StreamTypeOK
  <2>2. ListedUntilSettled'
    BY <1>5 DEF SinkError, ListedUntilSettled
  <2>3. SinkTellsWhy'
    BY <1>5 DEF SinkError, SinkTellsWhy, ListedUntilSettled
  <2>4. EndedIsComplete'
    BY <1>5 DEF SinkError, EndedIsComplete, StreamTypeOK, SinkTellsWhy
  <2>5. StoppedSource'
    BY <1>5 DEF SinkError, StoppedSource, SinkTellsWhy
  <2>6. DoneIsWhole'
    BY <1>5 DEF SinkError, DoneIsWhole, ListedUntilSettled, SinkTellsWhy, EndedIsComplete
  <2>7. CancelWins'
    BY <1>5 DEF SinkError, CancelWins, ListedUntilSettled
  <2>8. QED
    BY <2>1, <2>2, <2>3, <2>4, <2>5, <2>6, <2>7
<1>6. QED
  BY <1>1, <1>2, <1>3, <1>4, <1>5

LEMMA NextSInv == SInv /\ [StreamNext]_streamvars => SInv'
BY QuietStep, HandlerStep DEF StreamNext

(* The inductive invariant holds of the specification.                     *)
THEOREM StreamInductive == StreamSpec => []SInv
<1>1. QED
  BY InitSInv, NextSInv, PTL DEF StreamSpec

(***************************************************************************)
(* runTransfer never reports a half-written file as done, whatever fails,  *)
(* is paused or cancelled on the way.                                      *)
(***************************************************************************)
THEOREM DoneAlwaysWhole == StreamSpec => []DoneIsWhole
<1>1. SInv => DoneIsWhole
  BY DEF SInv
<1>2. QED
  BY <1>1, StreamInductive, PTL

(***************************************************************************)
(* After the user's cancel the outcome is "cancelled", also when onErr or  *)
(* onDone is what settles the transfer.                                    *)
(***************************************************************************)
THEOREM CancelAlwaysWins == StreamSpec => []CancelWins
<1>1. SInv => CancelWins
  BY DEF SInv
<1>2. QED
  BY <1>1, StreamInductive, PTL

(***************************************************************************)
(* No later event, chunk or button changes what was reported.              *)
(***************************************************************************)
THEOREM AlwaysReportedOnce == StreamSpec => ReportedOnce
<1>1. SInv /\ [StreamNext]_streamvars => [result # "pending" => UNCHANGED <<result, shown>>]_streamvars
  <2> SUFFICES ASSUME SInv, StreamNext, result # "pending"
               PROVE  UNCHANGED <<result, shown>>
    OBVIOUS
  <2>1. ~listed /\ (src # "open" \/ ~flowing)
    BY DEF SInv, ListedUntilSettled, StoppedSource
  <2>2. QED
    BY <2>1 DEF StreamNext, PauseStream, ResumeStream, Cancel, Read, SourceEnd, Written, Finish,
                Close, CloseFails, SourceError, SinkError, OnDone, OnErr
<1>2. QED
  BY <1>1, StreamInductive, PTL DEF StreamSpec, ReportedOnce

(***************************************************************************)
(* What the streams, the handlers and the buttons do to one transfer is,   *)
(* seen from the gate, a pause, a resume, the one settling or nothing.     *)
(***************************************************************************)
THEOREM StreamKeepsToGate == StreamSpec => KeepsToGate
<1> DEFINE Seen == Gate!Pause(1) \/ Gate!Unpause(1) \/ Gate!Settle(1) \/ UNCHANGED Gate!vars
<1>1. ASSUME SInv, SInv', [StreamNext]_streamvars PROVE Seen
  <2>1. listed = (result = "pending") /\ listed' = (result' = "pending")
    BY <1>1 DEF SInv, ListedUntilSettled, StreamTypeOK
  <2>2. CASE result # "pending"
    <3>1. result' = result
      BY <1>1, <2>1, <2>2 DEF streamvars, StreamNext, PauseStream, ResumeStream, Cancel, Read,
           SourceEnd, Written, Finish, Close, CloseFails, SourceError, SinkError, OnDone, OnErr
    <3>2. QED
      BY <2>2, <3>1 DEF Gate!vars
  <2>3. CASE result = "pending" /\ result' # "pending"
    BY <2>3 DEF Gate!Settle
  <2>4. CASE result = "pending" /\ result' = "pending"
    <3>1. CASE onHold = onHold'
      BY <2>4, <3>1 DEF Gate!vars
    <3>2. CASE ~onHold /\ onHold'
      BY <2>4, <3>2 DEF Gate!Pause
    <3>3. CASE onHold /\ ~onHold'
      BY <2>4, <3>3 DEF Gate!Unpause
    <3>4. onHold \in BOOLEAN /\ onHold' \in BOOLEAN
      BY <1>1 DEF SInv, StreamTypeOK
    <3>5. QED
      BY <3>1, <3>2, <3>3, <3>4
  <2>5. QED
    BY <2>2, <2>3, <2>4
<1>2. QED
  BY <1>1, StreamInductive, PTL DEF StreamSpec, KeepsToGate

=============================================================================
