--------------------------- MODULE PaneResources ----------------------------
(***************************************************************************)
(* The services of a pane beside its terminal, over one connection that    *)
(* comes, drops and is closed: port forwards, recordings, the file manager *)
(* and the monitor. spawnTerminal starts some of them; only terminal:kill  *)
(* and the closing of the window end them.                                 *)
(***************************************************************************)
EXTENDS PaneTunnels, PaneRecordings, PaneFiles, PaneStats

vars == <<lvars, tunvars, recvars, filevars, statvars>>

Init == LinkInit /\ TunnelInit /\ RecordingInit /\ FileInit /\ StatsInit

Uses(s) == s \in scene.use

(* The renderer's part in every change of the tab or its connection.       *)
Views ==
  /\ IF Uses("files") THEN OnTab ELSE UNCHANGED <<run, error>>
  /\ IF Uses("stats") THEN OnTarget ELSE UNCHANGED statvars

(* maybeAutoRecord                                                         *)
AutoRecord(p) ==
  IF scene.auto /\ Uses("recordings") /\ Unmade # {} THEN StartRecording(p)
  ELSE UNCHANGED <<row, files, recording, recorders>>

ToStart == IF scene.auto /\ Uses("tunnels") THEN saved ELSE {}

(* register; then the auto-start, or the auto-record at once.              *)
Spawn(p) ==
  /\ Connect(p)
  /\ IF ToStart = {} THEN AutoRecord(p) /\ UNCHANGED starting
     ELSE /\ starting' = [starting EXCEPT ![p] = ToStart]
          /\ UNCHANGED <<row, files, recording, recorders>>
  /\ Views
  /\ UNCHANGED <<saved, rt, running, shown, replies, wrapper, channels, panel, listing>>

(* autoStartTunnels is done; the pane may be gone by now.                  *)
Spawned(p) ==
  /\ starting[p] = {} /\ ~\E s \in Starts : Pending(s) /\ rt[s].auto /\ rt[s].pane = p
  /\ starting' = [starting EXCEPT ![p] = None]
  /\ AutoRecord(p)
  /\ UNCHANGED <<lvars, saved, rt, running, shown, replies, filevars, statvars>>

LinkDrops(p) ==
  /\ Drop(p)
  /\ OnDrop(p)
  /\ Views
  /\ UNCHANGED <<tunvars, shown, replies, wrapper, channels, panel, listing>>

(* A patient user closes a pane that nothing is under way for.             *)
MayClose(p) ==
  scene.patient =>
    /\ starting[p] = None /\ replies[p] = <<>> /\ ~Loading
    /\ ~\E s \in Starts : Pending(s) /\ rt[s].pane = p

(* terminal:kill, and the same calls when a window closes.                 *)
Kill(p) ==
  /\ MayClose(p)
  /\ EndRecording(p)
  /\ CloseSftp(p)
  /\ StopForTab(p)
  /\ CloseLink(p)
  /\ Views
  /\ UNCHANGED <<saved, starting, shown, replies, channels, panel, listing>>

Switch(p) ==
  /\ Uses("files") \/ Uses("stats")
  /\ scene.patient => ~Loading
  /\ Activate(p)
  /\ Views
  /\ UNCHANGED <<tunvars, recvars, wrapper, channels, panel, listing>>

TunnelStep ==
  /\ Uses("tunnels")
  /\ \/ \E t \in Tunnels : \/ StopTunnel(t) \/ DeleteTunnel(t)
                           \/ \E p \in Panes : UserStarts(t, p)
     \/ \E s \in Starts : Opens(s) \/ Fails(s)
     \/ \E p \in Panes : AutoStart(p)
  /\ UNCHANGED <<lvars, recvars, filevars, statvars>>

RecordingStep ==
  /\ Uses("recordings")
  /\ \/ \E p \in Panes : Toggle(p) \/ Reply(p)
     \/ \E r \in Recs : DeleteRecording(r)
  /\ UNCHANGED <<lvars, tunvars, filevars, statvars>>

FileReplies(n) ==
  /\ Asks(n) \/ Opened(n) \/ OpenFails(n) \/ Home(n) \/ Listed(n) \/ ListFails(n)
  /\ UNCHANGED <<lvars, tunvars, recvars, statvars>>

FileUser ==
  /\ Uses("files")
  /\ TogglePanel \/ \E d \in Dirs : ListDir(d)
  /\ UNCHANGED <<lvars, tunvars, recvars, statvars>>

Others == UNCHANGED <<lvars, tunvars, recvars, filevars>>
StatsTicks == Uses("stats") /\ Ticks /\ Others
StatsFetched == Fetched /\ Others
StatsFails == FetchFails /\ Others

Next ==
  \/ \E p \in Panes : Spawn(p) \/ Spawned(p) \/ LinkDrops(p) \/ Kill(p) \/ Switch(p)
  \/ TunnelStep \/ RecordingStep \/ FileUser
  \/ \E n \in Runs : FileReplies(n)
  \/ StatsTicks \/ StatsFetched \/ StatsFails

(* Replies come; the poller ticks, its 12 s end, and a host that answers at*)
(* all answers in time now and then.                                       *)
Fairness ==
  /\ \A n \in Runs : WF_vars(FileReplies(n))
  /\ WF_vars(StatsTicks) /\ WF_vars(StatsFails) /\ SF_vars(StatsFetched)

Spec == Init /\ [][Next]_vars /\ Fairness

-----------------------------------------------------------------------------

TypeOK == LinkTypeOK /\ TunnelTypeOK /\ RecordingTypeOK /\ FileTypeOK /\ StatsTypeOK

(* The panel comes to show the tab it is for, or an error, for a user who  *)
(* waits (usePane).                                                        *)
PanelSettles ==
  \A p \in Panes :
    scene.patient /\ panel /\ TabId(active, conn) = p
      ~> error \/ ~panel \/ TabId(active, conn) # p \/ (listing # None /\ listing.pane = p)

(* The monitor comes to show the machine of the tab, though a fetch of the *)
(* tab before was still under way when it was selected (StatsPoller).      *)
StatsArrive ==
  \A p \in Panes : Uses("stats") /\ Target(active, conn) = p
                     ~> latest = p \/ Target(active, conn) # p

(* The tunnels in the list, their ports, their panes and their links agree.*)
TunnelsAgree == PortsAreOwned /\ TunnelsEndWithPane /\ ActiveTunnelIsLive

(* The recordings' rows, their panes and the button agree.                 *)
RecordingsAgree == OpenRowsAreLive /\ ButtonTells

(* What the panel and the monitor show is of the active tab's machine, over*)
(* the one channel of its connection.                                      *)
ShownIsTabs == TypeOK /\ ListingIsTabs /\ StatsAreTargets /\ OneChannel /\ ChannelIsLive

(* What the panel and the monitor are to show comes.                       *)
ShownArrives == PanelSettles /\ StatsArrive
=============================================================================
