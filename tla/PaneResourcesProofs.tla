------------------------ MODULE PaneResourcesProofs -------------------------
(***************************************************************************)
(* Proofs about PaneResources, for every set of panes, clients, tunnels,   *)
(* recordings and runs and every scene, those included in which one pane   *)
(* uses all the services: what each service keeps agrees with the pane and *)
(* with the connection it was begun on.                                    *)
(*                                                                         *)
(* The invariant has a part for the connections, which the steps of the    *)
(* services leave alone, and a part for each service, which reads the      *)
(* connections but no other service. Links: each client is of one pane,    *)
(* and of none that was closed. Tunnels: a start that is awaited is in the *)
(* map, for a patient user, and its client is the one its pane has, while  *)
(* none drops. Recordings: the last reply on its way says what the button's*)
(* last click did. Files: a patient user's runs are of the active tab, one *)
(* at a time if no link drops, and a channel that is counted is in the     *)
(* wrapper or its client is dead. Stats: a fetch that was not cancelled is *)
(* of the target.                                                          *)
(***************************************************************************)
EXTENDS PaneResources, SequenceTheorems, TLAPS

-----------------------------------------------------------------------------
(* The connections.                                                        *)

LinksApart ==
  /\ \A p, q \in Panes : conn[p] # None /\ conn[p] = conn[q] => p = q
  /\ \A p \in closed : conn[p] = None

LinkPart == LinkTypeOK /\ LinksApart

-----------------------------------------------------------------------------
(* Tunnels.                                                                *)

(* What a patient user waits for is in the map; a pane that is still to    *)
(* start tunnels is there.                                                 *)
StartsAreKept ==
  scene.patient =>
    /\ \A s \in Starts : Pending(s) => running[rt[s].tun] = s
    /\ \A p \in Panes : starting[p] # None => p \notin closed

StartsAreLive ==
  ~scene.drops => \A t \in Tunnels :
    running[t] # None => rt[running[t]].link = conn[rt[running[t]].pane]

InMap == \A t \in Tunnels : running[t] # None => rt[running[t]] # None

TunnelPart ==
  /\ TunnelTypeOK /\ InMap /\ StartsAreKept /\ StartsAreLive
  /\ PortsAreOwned /\ TunnelsEndWithPane

-----------------------------------------------------------------------------
(* Recordings.                                                             *)

RecordingsApart ==
  /\ \A p, q \in Panes : recording[p] # None /\ recording[p] = recording[q] => p = q
  /\ \A p \in Panes : recording[p] # None => row[recording[p]] # "none"

LastReplyTells ==
  \A p \in Panes : LET k == Len(replies[p]) IN
    /\ k <= 2
    /\ k > 0 /\ p \notin closed =>
         /\ replies[p][k] => recording[p] # None
         /\ ~scene.auto /\ recording[p] # None => replies[p][k]

RecordsAreSound ==
  /\ row \in [Recs -> {"none", "open", "done", "deleted"}]
  /\ files \subseteq {r \in Recs : row[r] \in {"open", "done"}}
  /\ recording \in [Panes -> Recs \cup {None}]
  /\ recorders = {p \in Panes : recording[p] # None}
  /\ RecordingsApart /\ OpenRowsAreLive

ButtonIsSound ==
  /\ shown \subseteq Panes /\ replies \in [Panes -> Seq(BOOLEAN)]
  /\ LastReplyTells /\ ButtonTells

RecordingPart == RecordsAreSound /\ ButtonIsSound

-----------------------------------------------------------------------------
(* Files.                                                                  *)

(* A run that waits for a channel asked the client of its pane for it; one *)
(* that lists knows what. Without a panel there are only runs that are     *)
(* gone, and without the service there is no panel.                        *)
RunsAreSound ==
  /\ \A n \in Runs : run[n] # None =>
       /\ run[n].step = "opening" =>
            run[n].link \in used /\ (run[n].link \in up => conn[run[n].pane] = run[n].link)
       /\ run[n].step = "list" => run[n].dir \in Dirs
       /\ panel \/ run[n].gone
  /\ panel => Uses("files")

PatientRuns ==
  scene.patient => \A n \in Runs : run[n] # None => ~run[n].gone /\ run[n].pane = active

CalmRuns ==
  scene.patient /\ ~scene.drops =>
    /\ \A m, n \in Runs : run[m] # None /\ run[n] # None => m = n
    /\ \A n \in Runs : run[n] # None =>
         /\ conn[run[n].pane] # None
         /\ run[n].step = "opening" => wrapper[run[n].pane] = None

ChannelsAreKept ==
  scene.patient /\ ~scene.drops => \A l \in Links :
    channels[l] # 0 =>
      channels[l] = 1 /\ l \in used /\ (l \in up => \E p \in Panes : wrapper[p] = l)

FilePart ==
  /\ FileTypeOK /\ RunsAreSound /\ PatientRuns /\ CalmRuns /\ ChannelsAreKept
  /\ ListingIsTabs /\ ChannelIsLive

-----------------------------------------------------------------------------
(* Stats.                                                                  *)

FetchIsTargets ==
  /\ fetch # None /\ ~fetch.stale => fetch.of = Target(active, conn)
  /\ ~Uses("stats") => fetch = None /\ latest = None

StatsPart == StatsTypeOK /\ FetchIsTargets /\ StatsAreTargets

IInv == LinkPart /\ TunnelPart /\ RecordingPart /\ FilePart /\ StatsPart

-----------------------------------------------------------------------------
LEMMA AnyFact == ASSUME NEW S, S # {} PROVE Any(S) \in S
BY DEF Any

(* What the services rely on in every step: clients are not made twice, and*)
(* a pane that is closed stays so.                                         *)
Rely ==
  /\ scene' = scene /\ used \subseteq used' /\ closed \subseteq closed'
  /\ \A l \in used : l \in up' => l \in up

LinkSteps ==
  \/ UNCHANGED lvars
  \/ \E p \in Panes : Connect(p) \/ Drop(p) \/ CloseLink(p) \/ Activate(p)

LEMMA LinkTyped == Init => LinkPart
BY NoneAssumption DEF Init, LinkInit, LinkPart, LinkTypeOK, LinksApart

(* A client connects one pane, once.                                       *)
LEMMA ConnectFacts ==
  ASSUME LinkPart, NEW p \in Panes, Connect(p)
  PROVE  /\ LinkPart' /\ Rely
         /\ conn' = [conn EXCEPT ![p] = conn'[p]] /\ conn'[p] \in Links \ used
         /\ conn[p] = None /\ p \notin closed
         /\ closed' = closed /\ active' = active /\ up \subseteq up' /\ used' = used \cup {conn'[p]}
         /\ up' = up \cup {conn'[p]}
<1> DEFINE l == Any(Links \ used)
<1>1. l \in Links \ used /\ l # None
  <2>1. Links \ used # {}
    BY DEF LinkPart, LinkTypeOK, Connect
  <2> QED BY <2>1, AnyFact, NoneAssumption
<1>2. /\ conn' = [conn EXCEPT ![p] = l] /\ up' = up \cup {l} /\ used' = used \cup {l}
      /\ scene' = scene /\ closed' = closed /\ active' = active
      /\ conn[p] = None /\ p \notin closed
  BY DEF Connect
<1> HIDE DEF l
<1>3. conn \in [Panes -> Links \cup {None}] /\ up \subseteq used
  BY DEF LinkPart, LinkTypeOK
<1>4. conn'[p] = l /\ \A q \in Panes : q # p => conn'[q] = conn[q]
  BY <1>2, <1>3
<1>5. LinkTypeOK'
  <2>1. up' = {conn'[q] : q \in {r \in Panes : conn'[r] # None}}
    <3>1. up = {conn[q] : q \in {r \in Panes : conn[r] # None}}
      BY DEF LinkPart, LinkTypeOK
    <3> QED BY <3>1, <1>1, <1>2, <1>4
  <2> QED BY <2>1, <1>1, <1>2, <1>3 DEF LinkPart, LinkTypeOK
<1>6. LinksApart'
  <2>1. \A q \in Panes : conn[q] # l
    BY <1>1, <1>3 DEF LinkPart, LinkTypeOK
  <2> QED BY <2>1, <1>2, <1>4 DEF LinkPart, LinksApart, LinkTypeOK
<1>7. Rely
  BY <1>1, <1>2 DEF Rely
<1> QED BY <1>1, <1>2, <1>4, <1>5, <1>6, <1>7 DEF LinkPart

(* A pane that loses its client: it drops, or is closed.                   *)
LEMMA LoseFacts ==
  ASSUME LinkPart, NEW p \in Panes, Drop(p) \/ CloseLink(p)
  PROVE  /\ LinkPart' /\ Rely
         /\ conn' = [conn EXCEPT ![p] = None] /\ up' = up \ {conn[p]} /\ used' = used
<1>1. /\ conn' = [conn EXCEPT ![p] = None] /\ up' = up \ {conn[p]}
      /\ scene' = scene /\ used' = used
      /\ \/ closed' = closed /\ active' = active
         \/ closed' = closed \cup {p} /\ active' = IF active = p THEN None ELSE active
  BY DEF Drop, CloseLink
<1>2. conn \in [Panes -> Links \cup {None}] /\ up \subseteq used
  BY DEF LinkPart, LinkTypeOK
<1>3. conn'[p] = None /\ \A q \in Panes : q # p => conn'[q] = conn[q]
  BY <1>1, <1>2
<1>4. LinkTypeOK'
  <2>1. up' = {conn'[q] : q \in {r \in Panes : conn'[r] # None}}
    <3>1. up = {conn[q] : q \in {r \in Panes : conn[r] # None}}
      BY DEF LinkPart, LinkTypeOK
    <3>2. \A q, r \in Panes : conn[q] # None /\ conn[q] = conn[r] => q = r
      BY DEF LinkPart, LinksApart
    <3> QED BY <3>1, <3>2, <1>1, <1>3
  <2> QED BY <2>1, <1>1, <1>2 DEF LinkPart, LinkTypeOK
<1>5. LinksApart'
  BY <1>1, <1>3 DEF LinkPart, LinksApart, LinkTypeOK
<1> QED BY <1>1, <1>4, <1>5 DEF LinkPart, Rely

LEMMA LinkStepFacts == LinkPart /\ LinkSteps => LinkPart' /\ Rely
<1> SUFFICES ASSUME LinkPart, LinkSteps PROVE LinkPart' /\ Rely
  OBVIOUS
<1>1. CASE UNCHANGED lvars
  BY <1>1 DEF LinkPart, LinkTypeOK, LinksApart, lvars, Rely
<1>2. CASE \E p \in Panes : Activate(p)
  BY <1>2 DEF LinkPart, LinkTypeOK, LinksApart, Activate, Rely
<1> QED BY <1>1, <1>2, ConnectFacts, LoseFacts DEF LinkSteps

LEMMA StepsOfLinks == [Next]_vars => LinkSteps
<1> SUFFICES ASSUME [Next]_vars PROVE LinkSteps
  OBVIOUS
<1> USE DEF LinkSteps
<1>1. CASE UNCHANGED vars
  BY <1>1 DEF vars
<1>2. ASSUME NEW p \in Panes, Spawn(p) \/ Spawned(p) \/ LinkDrops(p) \/ Kill(p) \/ Switch(p)
      PROVE  LinkSteps
  BY <1>2 DEF Spawn, Spawned, LinkDrops, Kill, Switch
<1>3. CASE TunnelStep \/ RecordingStep \/ FileUser \/ \E n \in Runs : FileReplies(n)
  BY <1>3 DEF TunnelStep, RecordingStep, FileUser, FileReplies
<1>4. CASE StatsTicks \/ StatsFetched \/ StatsFails
  BY <1>4 DEF StatsTicks, StatsFetched, StatsFails, Others
<1> QED BY <1>1, <1>2, <1>3, <1>4 DEF Next

-----------------------------------------------------------------------------
(* Tunnels.                                                                *)

LEMMA TunnelsBegin == Init => TunnelPart
BY TunnelAssumption
   DEF Init, TunnelInit, LinkInit, TunnelPart, TunnelTypeOK, InMap, StartsAreKept, StartsAreLive,
       PortsAreOwned, TunnelsEndWithPane, Held, Pending

(* Starts of the loops that are still there.                               *)
StartingTyped == starting \in [Panes -> (SUBSET Tunnels) \cup {None}]
LoopsAreOpen ==
  StartingTyped /\ (scene.patient => \A p \in Panes : starting[p] # None => p \notin closed)

(* The connections change under the tunnels, which do not.                 *)
LEMMA TunnelsStay ==
  ASSUME LinkPart, TunnelPart, UNCHANGED <<saved, rt, running>>, LoopsAreOpen',
         \/ UNCHANGED lvars
         \/ \E p \in Panes : Connect(p) \/ Drop(p) \/ Activate(p)
  PROVE  TunnelPart'
<1>1. Rely /\ closed' = closed
  <2>1. LinkSteps
    BY DEF LinkSteps
  <2>2. closed' = closed
    BY DEF lvars, Connect, Drop, Activate
  <2> QED BY <2>1, <2>2, LinkStepFacts
<1>2. StartsAreLive'
  <2> SUFFICES ASSUME ~scene.drops, NEW t \in Tunnels, running[t] # None
               PROVE  rt[running[t]].link = conn'[rt[running[t]].pane]
    BY <1>1 DEF StartsAreLive, Rely
  <2> DEFINE r == rt[running[t]]
  <2>1. r.link = conn[r.pane] /\ r.link \in Links /\ r.pane \in Panes
    <3>1. running[t] \in Starts
      BY DEF TunnelPart, TunnelTypeOK
    <3>2. r \in StartRecords
      BY <3>1 DEF TunnelPart, TunnelTypeOK, InMap
    <3> QED BY <3>2 DEF TunnelPart, StartsAreLive, StartRecords
  <2> HIDE DEF r
  <2>2. ASSUME NEW p \in Panes, Connect(p) PROVE r.link = conn'[r.pane]
    <3>1. conn' = [conn EXCEPT ![p] = conn'[p]] /\ conn[p] = None
      BY <2>2, ConnectFacts
    <3> QED BY <3>1, <2>1, NoneAssumption DEF LinkPart, LinkTypeOK
  <2>3. ASSUME conn' = conn PROVE r.link = conn'[r.pane]
    BY <2>1, <2>3
  <2>4. conn' = conn \/ \E p \in Panes : Connect(p)
    BY DEF Drop, Activate, lvars
  <2>5. r.link = conn'[r.pane]
    BY <2>2, <2>3, <2>4
  <2> QED BY <2>5 DEF r
<1>3. StartsAreKept' /\ InMap'
  BY <1>1 DEF TunnelPart, StartsAreKept, InMap, Pending, Rely, LoopsAreOpen
<1>4. TunnelTypeOK'
  BY <1>1 DEF TunnelPart, TunnelTypeOK, LoopsAreOpen, StartingTyped, Rely
<1>5. PortsAreOwned' /\ TunnelsEndWithPane'
  <2>1. \A s \in Starts : rt[s] # None => rt[s].link \in used
    BY DEF TunnelPart, TunnelTypeOK
  <2>2. \A s \in Starts : rt[s] # None /\ Held(s)' => Held(s)
    BY <1>1, <2>1 DEF Held, Rely
  <2> QED BY <1>1, <2>2 DEF TunnelPart, PortsAreOwned, TunnelsEndWithPane, Rely
<1> QED BY <1>2, <1>3, <1>4, <1>5 DEF TunnelPart

LEMMA RecordOf ==
  ASSUME TunnelPart, NEW s \in Starts, rt[s] # None PROVE rt[s] \in StartRecords
BY DEF TunnelPart, TunnelTypeOK

(* What a stop leaves of a start.                                          *)
LEMMA ReleasedFacts ==
  ASSUME TunnelPart, NEW s \in Starts, rt[s] # None
  PROVE  /\ Released(s) \in StartRecords
         /\ Released(s).tun = rt[s].tun /\ Released(s).pane = rt[s].pane
         /\ Released(s).link = rt[s].link /\ Released(s).status = rt[s].status
         /\ ~Released(s).server
         /\ Released(s).handler => Released(s).link \notin up
<1> DEFINE q == rt[s]
           b == q.handler /\ q.link \notin up
           r == [q EXCEPT !.server = FALSE, !.handler = b]
<1>1. q \in StartRecords /\ Released(s) = r /\ b \in BOOLEAN
  BY RecordOf DEF Released
<1>2. b => q.link \notin up
  OBVIOUS
<1> HIDE DEF q, b
<1>3. /\ r \in StartRecords /\ r.tun = q.tun /\ r.pane = q.pane /\ r.link = q.link
      /\ r.status = q.status /\ r.server = FALSE /\ r.handler = b
  BY <1>1 DEF StartRecords
<1> QED BY <1>1, <1>2, <1>3 DEF q

(* Some of the running starts are stopped; those that are left have their  *)
(* panes.                                                                  *)
LEMMA StopFacts ==
  ASSUME LinkPart, TunnelPart, Rely, NEW S \in SUBSET Starts, Stopped(S),
         \A s \in S : \E t \in Tunnels : running[t] = s,
         scene.patient => \A s \in S : ~Pending(s),
         saved' \subseteq saved, \A t \in saved \ saved' : running[t] \in S \cup {None},
         \A t \in Tunnels : running[t] # None /\ running[t] \notin S =>
            /\ rt[running[t]].pane \notin closed'
            /\ ~scene.drops => conn'[rt[running[t]].pane] = conn[rt[running[t]].pane],
         LoopsAreOpen'
  PROVE  TunnelPart'
<1>1. /\ \A s \in Starts : rt'[s] = IF s \in S THEN Released(s) ELSE rt[s]
      /\ rt' = [s \in Starts |-> rt'[s]]
  BY DEF Stopped
<1>2. /\ \A t \in Tunnels : running'[t] = IF running[t] \in S THEN None ELSE running[t]
      /\ running' = [t \in Tunnels |-> running'[t]]
  BY DEF Stopped
<1>3. \A s \in S : s \in Starts /\ rt[s] # None
  BY TunnelAssumption DEF TunnelPart, InMap
<1>4. ASSUME NEW s \in Starts, rt'[s] # None
      PROVE  /\ rt[s] # None /\ rt'[s] \in StartRecords
             /\ rt'[s].tun = rt[s].tun /\ rt'[s].pane = rt[s].pane /\ rt'[s].link = rt[s].link
             /\ rt'[s].status = rt[s].status
             /\ rt'[s].server => rt[s].server
             /\ Held(s)' => s \notin S /\ Held(s)
  <2>1. rt[s] # None /\ rt[s].link \in used
    BY <1>1, <1>3, <1>4 DEF TunnelPart, TunnelTypeOK
  <2>2. CASE s \in S
    <3>1. rt'[s] = Released(s)
      BY <1>1, <2>2
    <3>2. ~Held(s)'
      BY <2>1, <3>1, ReleasedFacts DEF Held, Rely
    <3> QED BY <2>1, <3>1, <3>2, ReleasedFacts
  <2>3. CASE s \notin S
    <3>1. rt'[s] = rt[s]
      BY <1>1, <2>3
    <3> QED BY <2>1, <2>3, <3>1, RecordOf DEF Held, Rely
  <2> QED BY <2>2, <2>3
<1>5. \A t \in Tunnels : running'[t] # None =>
        /\ running'[t] = running[t] /\ running[t] \in Starts /\ running[t] \notin S
        /\ rt'[running[t]] = rt[running[t]] /\ rt[running[t]] # None
  BY <1>1, <1>2 DEF TunnelPart, TunnelTypeOK, InMap
<1>6. TunnelTypeOK'
  <2>1. rt' \in [Starts -> StartRecords \cup {None}]
    BY <1>1, <1>4
  <2>2. \A s \in Starts : rt'[s] # None =>
          rt'[s].link \in used' /\ (rt'[s].server => rt'[s].status = "active")
    BY <1>4 DEF TunnelPart, TunnelTypeOK, Rely
  <2>3. running' \in [Tunnels -> Starts \cup {None}]
    BY <1>2, <1>5
  <2>4. \A t \in Tunnels : running'[t] # None => rt'[running'[t]].tun = t /\ t \in saved'
    BY <1>5, <1>2, TunnelAssumption DEF TunnelPart, TunnelTypeOK
  <2>5. saved' \subseteq Tunnels
    BY DEF TunnelPart, TunnelTypeOK
  <2> QED BY <2>1, <2>2, <2>3, <2>4, <2>5 DEF TunnelTypeOK, LoopsAreOpen, StartingTyped
<1>7. InMap'
  BY <1>5 DEF InMap
<1>8. StartsAreLive' /\ TunnelsEndWithPane'
  BY <1>5 DEF TunnelPart, StartsAreLive, TunnelsEndWithPane, Rely
<1>9. ASSUME scene.patient, NEW s \in Starts, rt'[s] # None, running[rt[s].tun] = s, s \notin S
      PROVE  running'[rt'[s].tun] = s
  <2>1. rt'[s].tun = rt[s].tun /\ rt[s].tun \in Tunnels
    BY <1>4, <1>9, RecordOf DEF StartRecords
  <2> QED BY <1>2, <1>9, <2>1
<1>10. PortsAreOwned'
  BY <1>4, <1>9 DEF TunnelPart, PortsAreOwned, Rely
<1>11. StartsAreKept'
  <2>1. \A s \in Starts : Pending(s)' => rt'[s] # None /\ Pending(s)
    BY <1>4 DEF Pending
  <2>2. ASSUME scene.patient, NEW s \in Starts, Pending(s)' PROVE running'[rt'[s].tun] = s
    <3>1. Pending(s) /\ rt'[s] # None /\ s \notin S
      BY <2>1, <2>2
    <3>2. running[rt[s].tun] = s
      BY <2>2, <3>1 DEF TunnelPart, StartsAreKept
    <3> QED BY <1>9, <2>2, <3>1, <3>2
  <2> QED BY <2>2 DEF StartsAreKept, Rely, LoopsAreOpen
<1> QED BY <1>6, <1>7, <1>8, <1>10, <1>11 DEF TunnelPart

(* A start takes a free object, and sweeps the failed one before.          *)
LEMMA StartFacts ==
  ASSUME LinkPart, TunnelPart, UNCHANGED lvars, NEW t \in Tunnels, NEW p \in Panes,
         NEW auto \in BOOLEAN, StartTunnel(t, p, auto), saved' = saved, LoopsAreOpen'
  PROVE  TunnelPart'
<1> DEFINE s == Any(Free)
           old == running[t]
           swept == IF old = None THEN rt ELSE [rt EXCEPT ![old] = Released(old)]
           new == [tun |-> t, pane |-> p, link |-> conn[p], status |-> "pending",
                   server |-> FALSE, handler |-> t \in Remote, auto |-> auto]
<1>1. /\ t \in saved /\ conn[p] # None /\ Free # {}
      /\ running[t] # None => rt[running[t]].status = "failed"
      /\ rt' = [swept EXCEPT ![s] = new]
      /\ running' = [running EXCEPT ![t] = s]
  BY DEF StartTunnel, MayStart
<1>2. /\ s \in Starts
      /\ rt[s] # None => /\ \A u \in Tunnels : running[u] # s
                         /\ rt[s].status # "pending" /\ ~Held(s)
  <2>1. s \in Free
    BY <1>1, AnyFact
  <2> QED BY <2>1 DEF Free
<1>3. \A u \in Tunnels : running[u] # s
  BY <1>2, TunnelAssumption DEF TunnelPart, InMap
<1>4. old # None => old \in Starts /\ rt[old] # None /\ rt[old].tun = t /\ old # s
  BY <1>3 DEF TunnelPart, TunnelTypeOK, InMap
<1>5. /\ conn[p] \in Links /\ conn[p] \in up /\ conn[p] \in used /\ p \notin closed
      /\ scene' = scene /\ up' = up /\ used' = used /\ closed' = closed /\ conn' = conn
  BY <1>1 DEF LinkPart, LinkTypeOK, LinksApart, lvars
<1>6. /\ new \in StartRecords /\ new # None /\ new.tun = t /\ new.pane = p
      /\ new.link = conn[p] /\ new.status = "pending" /\ ~new.server
  <2> DEFINE h == t \in Remote
  <2>1. h \in BOOLEAN
    OBVIOUS
  <2> HIDE DEF h
  <2>2. [tun |-> t, pane |-> p, link |-> conn[p], status |-> "pending",
         server |-> FALSE, handler |-> h, auto |-> auto] \in StartRecords
    BY <1>5, <2>1 DEF StartRecords
  <2>3. new \in StartRecords
    BY <2>2 DEF h
  <2> QED BY <2>3, TunnelAssumption
<1>7. /\ rt \in [Starts -> StartRecords \cup {None}]
      /\ running \in [Tunnels -> Starts \cup {None}] /\ s # None
  BY <1>2, TunnelAssumption DEF TunnelPart, TunnelTypeOK
<1> HIDE DEF s, old, new
<1>8. \A u \in Starts : rt'[u] = IF u = s THEN new
                                 ELSE IF u = old THEN Released(old) ELSE rt[u]
  <2>1. \A u \in Starts : swept[u] = IF u = old THEN Released(old) ELSE rt[u]
    BY <1>4, <1>7, TunnelAssumption
  <2>2. DOMAIN swept = Starts
    BY <1>7
  <2> HIDE DEF swept
  <2> QED BY <1>1, <1>2, <2>1, <2>2
<1>9. DOMAIN rt' = Starts /\ rt' = [u \in Starts |-> rt'[u]]
  BY <1>1, <1>7
<1>10. running'[t] = s /\ \A u \in Tunnels : u # t => running'[u] = running[u]
  BY <1>1, <1>7
<1>11. ASSUME NEW u \in Starts, u # s, rt'[u] # None
       PROVE  /\ rt[u] # None /\ rt'[u] \in StartRecords
              /\ rt'[u].tun = rt[u].tun /\ rt'[u].pane = rt[u].pane /\ rt'[u].link = rt[u].link
              /\ rt'[u].status = rt[u].status /\ (rt'[u].server => rt[u].server)
              /\ Held(u)' => u # old /\ Held(u)
  <2>1. CASE u = old
    <3>1. rt'[u] = Released(u) /\ rt[u] # None
      BY <1>4, <1>8, <1>11, <2>1, TunnelAssumption
    <3>2. ~Held(u)'
      BY <1>5, <3>1, ReleasedFacts DEF Held
    <3> QED BY <3>1, <3>2, ReleasedFacts
  <2>2. CASE u # old
    <3>1. rt'[u] = rt[u]
      BY <1>8, <1>11, <2>2
    <3> QED BY <1>5, <1>11, <2>2, <3>1, RecordOf DEF Held
  <2> QED BY <2>1, <2>2
<1>12. rt'[s] = new
  BY <1>2, <1>8
<1>13. ASSUME NEW u \in Tunnels, u # t, running'[u] # None
       PROVE  /\ running'[u] = running[u] /\ running[u] \in Starts
              /\ rt[running[u]] # None /\ rt'[running[u]] = rt[running[u]]
  <2>1. running'[u] = running[u] /\ running[u] \in Starts /\ rt[running[u]] # None
    BY <1>7, <1>10, <1>13 DEF TunnelPart, InMap
  <2>2. running[u] # s /\ running[u] # old
    BY <1>3, <1>4, <1>13, <2>1, TunnelAssumption DEF TunnelPart, TunnelTypeOK
  <2> QED BY <1>8, <2>1, <2>2
<1>14. TunnelTypeOK'
  <2>1. rt' \in [Starts -> StartRecords \cup {None}]
    BY <1>6, <1>9, <1>11, <1>12
  <2>2. ASSUME NEW u \in Starts, rt'[u] # None
        PROVE  rt'[u].link \in used' /\ (rt'[u].server => rt'[u].status = "active")
    <3>1. CASE u = s
      BY <1>5, <1>6, <1>12, <3>1
    <3>2. CASE u # s
      BY <1>5, <1>11, <2>2, <3>2 DEF TunnelPart, TunnelTypeOK
    <3> QED BY <3>1, <3>2
  <2>3. running' \in [Tunnels -> Starts \cup {None}]
    BY <1>1, <1>2, <1>7
  <2>4. ASSUME NEW u \in Tunnels, running'[u] # None
        PROVE  rt'[running'[u]].tun = u /\ u \in saved'
    <3>1. CASE u = t
      BY <1>1, <1>6, <1>10, <1>12, <3>1
    <3>2. CASE u # t
      BY <1>13, <2>4, <3>2 DEF TunnelPart, TunnelTypeOK
    <3> QED BY <3>1, <3>2
  <2> QED BY <2>1, <2>2, <2>3, <2>4 DEF TunnelPart, TunnelTypeOK, LoopsAreOpen, StartingTyped
<1>15. InMap' /\ TunnelsEndWithPane' /\ StartsAreLive'
  <2> SUFFICES ASSUME NEW u \in Tunnels, running'[u] # None
               PROVE  /\ rt'[running'[u]] # None /\ rt'[running'[u]].pane \notin closed'
                      /\ ~scene.drops =>
                           rt'[running'[u]].link = conn'[rt'[running'[u]].pane]
    BY <1>5 DEF InMap, TunnelsEndWithPane, StartsAreLive
  <2>1. CASE u = t
    BY <1>5, <1>6, <1>10, <1>12, <2>1
  <2>2. CASE u # t
    <3>1. /\ running'[u] = running[u] /\ rt'[running[u]] = rt[running[u]]
          /\ rt[running[u]] # None /\ running[u] # None
      BY <1>13, <2>2
    <3> QED BY <1>5, <3>1 DEF TunnelPart, TunnelsEndWithPane, StartsAreLive
  <2> QED BY <2>1, <2>2
<1>16. ASSUME NEW u \in Starts, u # s, u # old, rt'[u] # None, running[rt[u].tun] = u
       PROVE  running'[rt'[u].tun] = u
  <2>1. rt[u] # None /\ rt'[u].tun = rt[u].tun
    BY <1>11, <1>16
  <2>2. rt[u].tun \in Tunnels /\ rt[u].tun # t
    BY <1>16, <2>1, RecordOf DEF StartRecords, old
  <2> QED BY <1>10, <1>16, <2>1, <2>2
<1>17. PortsAreOwned'
  <2> SUFFICES ASSUME scene.patient, NEW u \in Starts, rt'[u] # None, Held(u)'
               PROVE  running'[rt'[u].tun] = u
    BY <1>5 DEF PortsAreOwned
  <2>1. CASE u = s
    BY <1>6, <1>10, <1>12, <2>1
  <2>2. CASE u # s
    <3>1. rt[u] # None /\ u # old /\ Held(u)
      BY <1>11, <2>2
    <3>2. running[rt[u].tun] = u
      BY <3>1 DEF TunnelPart, PortsAreOwned
    <3> QED BY <1>16, <2>2, <3>1, <3>2
  <2> QED BY <2>1, <2>2
<1>18. StartsAreKept'
  <2>1. ASSUME scene.patient, NEW u \in Starts, Pending(u)' PROVE running'[rt'[u].tun] = u
    <3>1. CASE u = s
      BY <1>6, <1>10, <1>12, <3>1
    <3>2. CASE u # s
      <4>1. rt'[u] # None /\ rt[u] # None /\ Pending(u)
        BY <1>11, <2>1, <3>2 DEF Pending
      <4>2. running[rt[u].tun] = u
        BY <2>1, <4>1 DEF TunnelPart, StartsAreKept
      <4>3. u # old
        BY <1>1, <4>1, TunnelAssumption DEF Pending, old
      <4> QED BY <1>16, <3>2, <4>1, <4>2, <4>3
    <3> QED BY <3>1, <3>2
  <2> QED BY <1>5, <2>1 DEF StartsAreKept, LoopsAreOpen
<1> QED BY <1>14, <1>15, <1>17, <1>18 DEF TunnelPart

(* What is awaited comes, or fails: the port of a start that the map holds *)
(* opens, and another's forward is cancelled.                              *)
LEMMA ResultFacts ==
  ASSUME TunnelPart, UNCHANGED lvars, NEW s \in Starts, Opens(s) \/ Fails(s)
  PROVE  TunnelPart'
<1> DEFINE q == rt[s]
           st == rt'[s].status
           sv == rt'[s].server
           r == [q EXCEPT !.status = st, !.server = sv]
<1>1. /\ q \in StartRecords /\ Pending(s) /\ q.status = "pending" /\ ~q.server
  <2>1. Pending(s)
    BY DEF Opens, Fails
  <2> QED BY <2>1, RecordOf DEF Pending, TunnelPart, TunnelTypeOK
<1>2. rt \in [Starts -> StartRecords \cup {None}]
  BY DEF TunnelPart, TunnelTypeOK
<1>3. /\ rt' = [rt EXCEPT ![s] = r] /\ st \in {"active", "failed"} /\ sv \in BOOLEAN
      /\ sv => st = "active" /\ (q.tun \notin Remote \/ running[q.tun] = s)
  <2>1. CASE Opens(s)
    <3> DEFINE b == q.tun \notin Remote \/ running[q.tun] = s
    <3>1. rt' = [rt EXCEPT ![s] = [q EXCEPT !.status = "active", !.server = b]] /\ b \in BOOLEAN
      BY <2>1 DEF Opens
    <3> HIDE DEF b
    <3>2. rt'[s] = [q EXCEPT !.status = "active", !.server = b]
      BY <1>2, <3>1
    <3> HIDE DEF q
    <3>3. st = "active" /\ sv = b
      BY <1>1, <3>2 DEF StartRecords
    <3>4. r = [q EXCEPT !.status = "active", !.server = b]
      BY <3>3
    <3>5. rt' = [rt EXCEPT ![s] = r]
      BY <3>1, <3>4
    <3>6. b => q.tun \notin Remote \/ running[q.tun] = s
      BY DEF b, q
    <3> QED BY <3>1, <3>3, <3>5, <3>6
  <2>2. CASE Fails(s)
    <3>1. rt' = [rt EXCEPT ![s] = [q EXCEPT !.status = "failed"]]
      BY <2>2 DEF Fails
    <3>2. rt'[s] = [q EXCEPT !.status = "failed"]
      BY <1>2, <3>1
    <3> HIDE DEF q
    <3>3. st = "failed" /\ sv = q.server /\ r = rt'[s] /\ sv = FALSE
      BY <1>1, <3>2 DEF StartRecords
    <3> QED BY <3>1, <3>2, <3>3
  <2> QED BY <2>1, <2>2
<1>4. /\ saved' = saved /\ running' = running /\ starting' = starting
      /\ scene' = scene /\ up' = up /\ used' = used /\ closed' = closed /\ conn' = conn
  BY DEF Opens, Fails, lvars
<1> HIDE DEF q, st, sv
<1>5. /\ r \in StartRecords /\ r.tun = q.tun /\ r.pane = q.pane /\ r.link = q.link
      /\ r.handler = q.handler /\ r.status = st /\ r.server = sv
  BY <1>1, <1>3 DEF StartRecords
<1> HIDE DEF r
<1>6. rt'[s] = r /\ \A u \in Starts : u # s => rt'[u] = rt[u]
  BY <1>2, <1>3
<1>7. rt[s] = q
  BY DEF q
<1>8. q # None /\ r # None
  BY <1>1, <1>5, TunnelAssumption
<1>9. TunnelTypeOK'
  BY <1>2, <1>3, <1>4, <1>5, <1>6, <1>7, <1>8 DEF TunnelPart, TunnelTypeOK
<1>10. InMap' /\ TunnelsEndWithPane' /\ StartsAreLive'
  BY <1>2, <1>4, <1>5, <1>6, <1>7, <1>8
     DEF TunnelPart, InMap, TunnelsEndWithPane, StartsAreLive, TunnelTypeOK
<1>11. StartsAreKept'
  <2>1. \A u \in Starts : Pending(u)' => u # s /\ Pending(u) /\ rt'[u] = rt[u]
    BY <1>3, <1>5, <1>6 DEF Pending
  <2> QED BY <1>4, <2>1 DEF TunnelPart, StartsAreKept
<1>12. PortsAreOwned'
  <2>1. scene.patient => running[q.tun] = s
    BY <1>1 DEF TunnelPart, StartsAreKept, q
  <2>2. \A u \in Starts : u # s => (Held(u)' <=> Held(u))
    BY <1>4, <1>6 DEF Held
  <2> QED BY <1>4, <1>5, <1>6, <2>1, <2>2 DEF TunnelPart, PortsAreOwned
<1> QED BY <1>9, <1>10, <1>11, <1>12 DEF TunnelPart

LEMMA RunningRecord ==
  ASSUME TunnelPart, NEW t \in Tunnels, running[t] # None
  PROVE  running[t] \in Starts /\ rt[running[t]] # None
BY DEF TunnelPart, TunnelTypeOK, InMap

LEMMA TunnelStepFacts == LinkPart /\ TunnelPart /\ TunnelStep => TunnelPart'
<1> SUFFICES ASSUME LinkPart, TunnelPart, TunnelStep PROVE TunnelPart'
  OBVIOUS
<1>1. UNCHANGED lvars
  BY DEF TunnelStep
<1>2. LinkPart' /\ Rely
  BY <1>1, LinkStepFacts DEF LinkSteps
<1>3. LoopsAreOpen /\ (starting' = starting => LoopsAreOpen')
  BY <1>1 DEF TunnelPart, TunnelTypeOK, StartsAreKept, LoopsAreOpen, StartingTyped, lvars
<1>4. ASSUME NEW t \in Tunnels, StopTunnel(t) \/ DeleteTunnel(t) PROVE TunnelPart'
  <2> DEFINE S == {running[t]} \ {None}
  <2>1. /\ Stopped(S) /\ Waits(t) /\ starting' = starting /\ saved' \subseteq saved
        /\ \A u \in saved \ saved' : u = t
    <3>1. CASE StopTunnel(t)
      <4>1. S = {running[t]}
        BY <3>1 DEF StopTunnel
      <4> QED BY <3>1, <4>1 DEF StopTunnel
    <3>2. CASE DeleteTunnel(t)
      BY <3>2 DEF DeleteTunnel
    <3> QED BY <1>4, <3>1, <3>2
  <2>2. S \in SUBSET Starts /\ \A s \in S : \E u \in Tunnels : running[u] = s
    BY RunningRecord
  <2>3. scene.patient => \A s \in S : ~Pending(s)
    BY <2>1 DEF Waits
  <2>4. \A u \in saved \ saved' : running[u] \in S \cup {None}
    BY <2>1
  <2>5. \A u \in Tunnels : running[u] # None /\ running[u] \notin S =>
          /\ rt[running[u]].pane \notin closed'
          /\ ~scene.drops => conn'[rt[running[u]].pane] = conn[rt[running[u]].pane]
    BY <1>1 DEF lvars, TunnelPart, TunnelsEndWithPane
  <2> HIDE DEF S
  <2> QED BY <1>2, <1>3, <2>1, <2>2, <2>3, <2>4, <2>5, StopFacts
<1>5. ASSUME NEW t \in Tunnels, NEW p \in Panes, UserStarts(t, p) PROVE TunnelPart'
  BY <1>1, <1>3, <1>5, StartFacts DEF UserStarts
<1>6. ASSUME NEW s \in Starts, Opens(s) \/ Fails(s) PROVE TunnelPart'
  BY <1>1, <1>6, ResultFacts
<1>7. ASSUME NEW p \in Panes, AutoStart(p) PROVE TunnelPart'
  <2> DEFINE t == Any(starting[p])
  <2>1. starting[p] # None /\ starting[p] # {} /\ starting[p] \in SUBSET Tunnels
    BY <1>3, <1>7 DEF AutoStart, LoopsAreOpen, StartingTyped
  <2>2. t \in Tunnels
    BY <2>1, AnyFact
  <2>3. /\ starting' = [starting EXCEPT ![p] = @ \ {t}] /\ saved' = saved
        /\ StartTunnel(t, p, TRUE) \/ UNCHANGED <<rt, running>>
    BY <1>7 DEF AutoStart
  <2> HIDE DEF t
  <2>4. LoopsAreOpen'
    BY <1>1, <1>3, <2>1, <2>3 DEF LoopsAreOpen, StartingTyped, lvars
  <2>5. CASE StartTunnel(t, p, TRUE)
    BY <1>1, <2>2, <2>3, <2>4, <2>5, StartFacts
  <2>6. CASE UNCHANGED <<rt, running>>
    BY <1>1, <2>3, <2>4, <2>6, TunnelsStay
  <2> QED BY <2>3, <2>5, <2>6
<1> QED BY <1>4, <1>5, <1>6, <1>7 DEF TunnelStep

LEMMA KillStops ==
  ASSUME LinkPart, TunnelPart, NEW p \in Panes, Kill(p) PROVE TunnelPart'
<1> DEFINE S == {s \in Starts : (\E t \in Tunnels : running[t] = s) /\ rt[s].pane = p}
<1>1. /\ Stopped(S) /\ MayClose(p) /\ CloseLink(p)
      /\ saved' = saved /\ starting' = starting
  BY DEF Kill, StopForTab
<1>2. Rely /\ LinkPart' /\ conn' = [conn EXCEPT ![p] = None] /\ closed' = closed \cup {p}
  BY <1>1, LoseFacts DEF CloseLink
<1>3. scene.patient => \A s \in S : ~Pending(s)
  BY <1>1 DEF MayClose
<1>4. \A t \in Tunnels : running[t] # None /\ running[t] \notin S =>
        /\ rt[running[t]].pane \notin closed'
        /\ ~scene.drops => conn'[rt[running[t]].pane] = conn[rt[running[t]].pane]
  <2> SUFFICES ASSUME NEW t \in Tunnels, running[t] # None, running[t] \notin S
               PROVE  /\ rt[running[t]].pane \notin closed'
                      /\ conn'[rt[running[t]].pane] = conn[rt[running[t]].pane]
    OBVIOUS
  <2>1. rt[running[t]].pane # p
    BY RunningRecord
  <2> QED BY <1>2, <2>1 DEF TunnelPart, TunnelsEndWithPane, LinkPart, LinkTypeOK
<1>5. LoopsAreOpen'
  BY <1>1, <1>2 DEF TunnelPart, TunnelTypeOK, StartsAreKept, LoopsAreOpen, StartingTyped,
                    MayClose, Rely
<1>6. S \in SUBSET Starts /\ \A s \in S : \E t \in Tunnels : running[t] = s
  OBVIOUS
<1> HIDE DEF S
<1> QED BY <1>1, <1>2, <1>3, <1>4, <1>5, <1>6, StopFacts

(* The step of any service.                                                *)
LEMMA TunnelsStep == LinkPart /\ TunnelPart /\ [Next]_vars => TunnelPart'
<1> SUFFICES ASSUME LinkPart, TunnelPart, [Next]_vars PROVE TunnelPart'
  OBVIOUS
<1>1. LoopsAreOpen /\ (UNCHANGED <<scene, starting, closed>> => LoopsAreOpen')
  BY DEF TunnelPart, TunnelTypeOK, StartsAreKept, LoopsAreOpen, StartingTyped
<1>2. ASSUME UNCHANGED tunvars, \/ UNCHANGED lvars
                                \/ \E p \in Panes : Drop(p) \/ Activate(p)
      PROVE  TunnelPart'
  <2>1. UNCHANGED <<scene, starting, closed, saved, rt, running>>
    BY <1>2 DEF tunvars, lvars, Drop, Activate
  <2> QED BY <1>1, <1>2, <2>1, TunnelsStay
<1>3. ASSUME NEW p \in Panes, Spawn(p) PROVE TunnelPart'
  <2>1. /\ Connect(p) /\ UNCHANGED <<saved, rt, running>>
        /\ starting' = starting \/ starting' = [starting EXCEPT ![p] = ToStart]
    BY <1>3 DEF Spawn
  <2>2. ToStart \subseteq Tunnels
    BY DEF ToStart, TunnelPart, TunnelTypeOK
  <2>3. LoopsAreOpen'
    BY <1>1, <2>1, <2>2, ConnectFacts DEF LoopsAreOpen, StartingTyped, Rely
  <2> QED BY <2>1, <2>3, TunnelsStay
<1>4. ASSUME NEW p \in Panes, Spawned(p) PROVE TunnelPart'
  <2>1. UNCHANGED lvars /\ UNCHANGED <<saved, rt, running>>
        /\ starting' = [starting EXCEPT ![p] = None]
    BY <1>4 DEF Spawned
  <2>2. LoopsAreOpen'
    BY <1>1, <2>1 DEF LoopsAreOpen, StartingTyped, lvars
  <2> QED BY <2>1, <2>2, TunnelsStay
<1>5. ASSUME NEW p \in Panes, LinkDrops(p) \/ Switch(p) PROVE TunnelPart'
  BY <1>2, <1>5 DEF LinkDrops, Switch
<1>6. CASE RecordingStep \/ FileUser \/ \E n \in Runs : FileReplies(n)
  BY <1>2, <1>6 DEF RecordingStep, FileUser, FileReplies
<1>7. CASE StatsTicks \/ StatsFetched \/ StatsFails
  BY <1>2, <1>7 DEF StatsTicks, StatsFetched, StatsFails, Others
<1>8. CASE UNCHANGED vars
  BY <1>2, <1>8 DEF vars
<1> QED BY <1>3, <1>4, <1>5, <1>6, <1>7, <1>8, TunnelStepFacts, KillStops DEF Next

-----------------------------------------------------------------------------
(* Recordings.                                                             *)

LEMMA RecordingsBegin == Init => RecordingPart
<1> SUFFICES ASSUME Init PROVE RecordingPart
  OBVIOUS
<1>1. /\ row = [r \in Recs |-> "none"] /\ files = {} /\ recording = [p \in Panes |-> None]
      /\ recorders = {} /\ shown = {} /\ replies = [p \in Panes |-> <<>>] /\ closed = {}
  BY DEF Init, RecordingInit, LinkInit
<1>2. RecordsAreSound
  BY <1>1 DEF RecordsAreSound, RecordingsApart, OpenRowsAreLive
<1>3. replies \in [Panes -> Seq(BOOLEAN)] /\ \A p \in Panes : Len(replies[p]) = 0
  BY <1>1
<1>4. ButtonIsSound
  BY <1>1, <1>3 DEF ButtonIsSound, LastReplyTells, ButtonTells
<1> QED BY <1>2, <1>4 DEF RecordingPart

(* A recording is begun with a row of its own.                             *)
LEMMA BeginFacts ==
  ASSUME RecordsAreSound, NEW p \in Panes, StartRecording(p), UNCHANGED <<scene, closed>>,
         scene.patient => p \notin closed
  PROVE  /\ RecordsAreSound' /\ recording'[p] # None
         /\ \A q \in Panes : q # p => recording'[q] = recording[q]
<1>1. CASE recording[p] # None
  <2>1. UNCHANGED <<row, files, recording, recorders>>
    BY <1>1 DEF StartRecording
  <2> QED BY <1>1, <2>1 DEF RecordsAreSound, RecordingsApart, OpenRowsAreLive
<1>2. CASE recording[p] = None
  <2> DEFINE r == Any(Unmade)
  <2>1. /\ Unmade # {} /\ row' = [row EXCEPT ![r] = "open"] /\ files' = files \cup {r}
        /\ recording' = [recording EXCEPT ![p] = r] /\ recorders' = recorders \cup {p}
    BY <1>2 DEF StartRecording
  <2>2. r \in Recs /\ row[r] = "none" /\ r # None
    BY <2>1, AnyFact, RecsAssumption DEF Unmade
  <2> HIDE DEF r
  <2>3. /\ recording'[p] = r /\ \A q \in Panes : q # p => recording'[q] = recording[q]
        /\ row'[r] = "open" /\ \A o \in Recs : o # r => row'[o] = row[o]
    BY <2>1, <2>2 DEF RecordsAreSound
  <2>4. \A q \in Panes : recording[q] # r
    BY <2>2 DEF RecordsAreSound, RecordingsApart
  <2>5. RecordingsApart'
    BY <2>2, <2>3, <2>4 DEF RecordsAreSound, RecordingsApart
  <2>6. OpenRowsAreLive'
    <3>1. \A o \in Recs : row'[o] = "open" => \E q \in Panes : recording'[q] = o
      BY <1>2, <2>2, <2>3, RecsAssumption DEF RecordsAreSound, OpenRowsAreLive
    <3>2. ASSUME scene.patient, NEW q \in Panes, recording'[q] # None
          PROVE  /\ q \notin closed' /\ row'[recording'[q]] = "open"
                 /\ scene.cap = 0 => recording'[q] \in files'
      BY <2>1, <2>2, <2>3, <2>4, <3>2 DEF RecordsAreSound, OpenRowsAreLive
    <3> QED BY <3>1, <3>2 DEF OpenRowsAreLive
  <2>7. /\ row' \in [Recs -> {"none", "open", "done", "deleted"}]
        /\ files' \subseteq {o \in Recs : row'[o] \in {"open", "done"}}
        /\ recording' \in [Panes -> Recs \cup {None}]
        /\ recorders' = {q \in Panes : recording'[q] # None}
    BY <2>1, <2>2, <2>3 DEF RecordsAreSound
  <2> QED BY <2>2, <2>3, <2>5, <2>6, <2>7 DEF RecordsAreSound
<1> QED BY <1>1, <1>2

(* A recording ends with its row done, and may make way for the cap.       *)
LEMMA EndFacts ==
  ASSUME RecordsAreSound, NEW p \in Panes, StopRecording(p), scene' = scene,
         closed' = closed \/ closed' = closed \cup {p}
  PROVE  /\ RecordsAreSound' /\ recording'[p] = None
         /\ \A q \in Panes : q # p => recording'[q] = recording[q]
<1>1. CASE recording[p] = None
  <2>1. UNCHANGED <<row, files, recording, recorders>>
    BY <1>1 DEF StopRecording
  <2> QED BY <1>1, <2>1 DEF RecordsAreSound, RecordingsApart, OpenRowsAreLive
<1>2. CASE recording[p] # None
  <2> DEFINE r == recording[p]
  <2>1. /\ row' = Finish(r) /\ recording' = [recording EXCEPT ![p] = None]
        /\ recorders' = recorders \ {p} /\ files' \in Pruned
    BY <1>2 DEF StopRecording
  <2>2. r \in Recs
    BY <1>2 DEF RecordsAreSound
  <2>3. files' \subseteq files /\ (scene.cap = 0 => files' = files)
    BY <2>1 DEF Pruned
  <2>4. /\ recording'[p] = None /\ \A q \in Panes : q # p => recording'[q] = recording[q]
        /\ \A q \in Panes : q # p => recording[q] # r
    BY <1>2, <2>1 DEF RecordsAreSound, RecordingsApart
  <2>5. /\ row'[r] # "open" /\ (row[r] \in {"open", "done"} => row'[r] \in {"open", "done"})
        /\ row'[r] # "none"
        /\ \A o \in Recs : o # r => row'[o] = row[o]
        /\ row' \in [Recs -> {"none", "open", "done", "deleted"}]
    BY <1>2, <2>1, <2>2 DEF Finish, RecordsAreSound, RecordingsApart
  <2> HIDE DEF r
  <2>6. RecordingsApart'
    BY <2>4, <2>5 DEF RecordsAreSound, RecordingsApart
  <2>7. OpenRowsAreLive'
    <3>1. ASSUME NEW o \in Recs, row'[o] = "open"
          PROVE  \E q \in Panes : recording'[q] = o
      <4>1. o # r /\ row[o] = "open"
        BY <2>5, <3>1
      <4>2. PICK q \in Panes : recording[q] = o
        BY <4>1 DEF RecordsAreSound, OpenRowsAreLive
      <4>3. q # p
        BY <4>1, <4>2 DEF r
      <4> QED BY <2>4, <4>2, <4>3
    <3>2. ASSUME scene.patient, NEW q \in Panes, recording'[q] # None
          PROVE  /\ q \notin closed' /\ row'[recording'[q]] = "open"
                 /\ scene.cap = 0 => recording'[q] \in files'
      <4>1. q # p /\ recording'[q] = recording[q] /\ recording[q] # r /\ recording[q] \in Recs
        BY <2>4, <3>2 DEF RecordsAreSound
      <4>2. /\ q \notin closed /\ row[recording[q]] = "open"
            /\ scene.cap = 0 => recording[q] \in files
        BY <3>2, <4>1 DEF RecordsAreSound, OpenRowsAreLive
      <4> QED BY <2>3, <2>5, <4>1, <4>2
    <3> QED BY <3>1, <3>2 DEF OpenRowsAreLive
  <2>8. /\ files' \subseteq {o \in Recs : row'[o] \in {"open", "done"}}
        /\ recording' \in [Panes -> Recs \cup {None}]
        /\ recorders' = {q \in Panes : recording'[q] # None}
    <3>1. files' \subseteq {o \in Recs : row'[o] \in {"open", "done"}}
      BY <2>2, <2>3, <2>5 DEF RecordsAreSound
    <3> QED BY <2>1, <2>4, <3>1 DEF RecordsAreSound
  <2> QED BY <2>4, <2>5, <2>6, <2>7, <2>8 DEF RecordsAreSound
<1> QED BY <1>1, <1>2

(* What is recorded begins without the button, or ends with its pane.      *)
LEMMA ButtonStays ==
  ASSUME ButtonIsSound, NEW p \in Panes, UNCHANGED <<scene, shown, replies>>,
         closed \subseteq closed',
         \A q \in Panes : q # p => recording'[q] = recording[q],
         recording'[p] = recording[p] \/ p \in closed' \/ (scene.auto /\ recording'[p] # None)
  PROVE  ButtonIsSound'
BY DEF ButtonIsSound, LastReplyTells, ButtonTells

LEMMA ReplyQueue ==
  ASSUME NEW s \in Seq(BOOLEAN), s # <<>>, Len(s) <= 2
  PROVE  /\ Len(s) \in {1, 2} /\ s[Len(s)] \in BOOLEAN
         /\ Head(s) = s[1] /\ Head(s) \in BOOLEAN
         /\ Tail(s) \in Seq(BOOLEAN) /\ Len(Tail(s)) = Len(s) - 1
         /\ Len(s) = 1 => Tail(s) = <<>>
         /\ Len(s) = 2 => Tail(s) # <<>> /\ Tail(s)[1] = s[2]
<1> DEFINE k == Len(s)
           m == Len(Tail(s))
<1>1. k \in Nat \ {0} /\ k <= 2
  BY EmptySeq
<1>2. /\ Head(s) \in BOOLEAN /\ Tail(s) \in Seq(BOOLEAN) /\ m = k - 1
      /\ \A i \in 1 .. m : Tail(s)[i] = s[i + 1]
  BY HeadTailProperties
<1>3. s \in [1 .. k -> BOOLEAN]
  BY LenProperties
<1>4. Head(s) = s[1]
  OBVIOUS
<1>5. Tail(s) # <<>> => m # 0
  BY <1>2, EmptySeq
<1>6. Tail(s) = <<>> => m = 0
  BY EmptySeq
<1> HIDE DEF k, m
<1>7. k \in {1, 2}
  BY <1>1
<1>8. s[k] \in BOOLEAN
  BY <1>3, <1>7
<1>9. k = 2 => m = 1 /\ Tail(s)[1] = s[2]
  <2>1. k = 2 => m = 1
    BY <1>2
  <2> DEFINE f == Tail(s)
             g == s
  <2>2. \A i \in 1 .. m : f[i] = g[i + 1]
    BY <1>2
  <2> HIDE DEF f, g
  <2>3. m = 1 => f[1] = g[2]
    BY <2>2
  <2> QED BY <2>1, <2>3 DEF f, g
<1>10. k = 1 => m = 0
  BY <1>2
<1> QED BY <1>2, <1>4, <1>5, <1>6, <1>7, <1>8, <1>9, <1>10 DEF k, m

(* A click: the reply that it has coming says what it did.                 *)
LEMMA ToggleFacts ==
  ASSUME RecordingPart, NEW p \in Panes, Toggle(p), UNCHANGED lvars
  PROVE  RecordingPart'
<1> DEFINE b == p \notin shown
           k == Len(replies[p])
<1>1. /\ p \notin closed /\ k < 2 /\ k \in Nat /\ b \in BOOLEAN
      /\ replies' = [replies EXCEPT ![p] = Append(replies[p], b)] /\ shown' = shown
      /\ scene' = scene /\ closed' = closed
      /\ IF b THEN StartRecording(p) ELSE StopRecording(p)
  BY DEF Toggle, RecordingPart, ButtonIsSound, lvars
<1>2. /\ RecordsAreSound' /\ (recording'[p] # None <=> b)
      /\ \A q \in Panes : q # p => recording'[q] = recording[q]
  <2>1. CASE b
    BY <1>1, <2>1, BeginFacts DEF RecordingPart
  <2>2. CASE ~b
    BY <1>1, <2>2, EndFacts DEF RecordingPart
  <2> QED BY <2>1, <2>2
<1> HIDE DEF b
<1>3. /\ replies' \in [Panes -> Seq(BOOLEAN)] /\ \A q \in Panes : q # p => replies'[q] = replies[q]
      /\ replies'[p] = Append(replies[p], b) /\ replies[p] \in Seq(BOOLEAN)
  BY <1>1 DEF RecordingPart, ButtonIsSound
<1>4. Len(replies'[p]) = k + 1 /\ replies'[p][k + 1] = b /\ replies'[p] # <<>>
  BY <1>1, <1>3
<1>5. LastReplyTells'
  <2> SUFFICES ASSUME NEW q \in Panes
               PROVE  LET m == Len(replies'[q]) IN
                        /\ m <= 2
                        /\ m > 0 /\ q \notin closed' =>
                             /\ replies'[q][m] => recording'[q] # None
                             /\ ~scene'.auto /\ recording'[q] # None => replies'[q][m]
    BY DEF LastReplyTells
  <2>1. CASE q = p
    BY <1>1, <1>2, <1>4, <2>1
  <2>2. CASE q # p
    BY <1>1, <1>2, <1>3, <2>2 DEF RecordingPart, ButtonIsSound, LastReplyTells
  <2> QED BY <2>1, <2>2
<1>6. ButtonTells'
  BY <1>1, <1>2, <1>3, <1>4 DEF RecordingPart, ButtonIsSound, ButtonTells
<1> QED BY <1>1, <1>2, <1>3, <1>5, <1>6 DEF RecordingPart, ButtonIsSound

(* A reply: the last of them leaves the button as the last click did.      *)
LEMMA ReplyFacts ==
  ASSUME RecordingPart, NEW p \in Panes, Reply(p), UNCHANGED lvars
  PROVE  RecordingPart'
<1> DEFINE s == replies[p]
<1>1. s # <<>> /\ s \in Seq(BOOLEAN) /\ Len(s) <= 2
  BY DEF Reply, RecordingPart, ButtonIsSound, LastReplyTells
<1>2. /\ shown' = IF Head(s) THEN shown \cup {p} ELSE shown \ {p}
      /\ replies' = [replies EXCEPT ![p] = Tail(s)]
      /\ row' = row /\ files' = files /\ recording' = recording /\ recorders' = recorders
      /\ scene' = scene /\ closed' = closed
  BY DEF Reply, lvars
<1>3. Len(s) > 0 /\ p \notin closed =>
        /\ s[Len(s)] => recording[p] # None
        /\ ~scene.auto /\ recording[p] # None => s[Len(s)]
  BY DEF RecordingPart, ButtonIsSound, LastReplyTells
<1> HIDE DEF s
<1> DEFINE k == Len(s)
           last == s[k]
           tl == Tail(s)
<1>4. /\ k \in {1, 2} /\ last \in BOOLEAN /\ tl \in Seq(BOOLEAN)
      /\ k = 1 => Len(tl) = 0 /\ Head(s) = last
      /\ k = 2 => Len(tl) = 1 /\ tl # <<>> /\ tl[1] = last
  BY <1>1, ReplyQueue
<1>5. p \notin closed => /\ last => recording[p] # None
                         /\ ~scene.auto /\ recording[p] # None => last
  BY <1>3, <1>4
<1>6. replies' = [replies EXCEPT ![p] = tl]
  BY <1>2
<1> HIDE DEF k, last, tl
<1>7. /\ replies' \in [Panes -> Seq(BOOLEAN)] /\ replies'[p] = tl
      /\ \A q \in Panes : q # p => replies'[q] = replies[q]
  BY <1>4, <1>6 DEF RecordingPart, ButtonIsSound
<1>8. LastReplyTells'
  <2> SUFFICES ASSUME NEW q \in Panes
               PROVE  LET m == Len(replies'[q]) IN
                        /\ m <= 2
                        /\ m > 0 /\ q \notin closed' =>
                             /\ replies'[q][m] => recording'[q] # None
                             /\ ~scene'.auto /\ recording'[q] # None => replies'[q][m]
    BY DEF LastReplyTells
  <2>1. CASE q = p
    <3>1. replies'[q] = tl
      BY <1>7, <2>1
    <3>2. CASE k = 1
      BY <1>4, <3>1, <3>2
    <3>3. CASE k = 2
      <4>1. Len(replies'[q]) = 1
        BY <1>4, <3>1, <3>3
      <4>2. replies'[q][1] = last
        BY <1>4, <3>1, <3>3
      <4>3. q \notin closed' => /\ last => recording'[q] # None
                                /\ ~scene'.auto /\ recording'[q] # None => last
        BY <1>2, <1>5, <2>1
      <4>4. q \notin closed' => /\ replies'[q][1] => recording'[q] # None
                                /\ ~scene'.auto /\ recording'[q] # None => replies'[q][1]
        BY <4>2, <4>3, Zenon
      <4> QED BY <4>1, <4>4
    <3> QED BY <1>4, <3>2, <3>3
  <2>2. CASE q # p
    BY <1>2, <1>7, <2>2 DEF RecordingPart, ButtonIsSound, LastReplyTells
  <2> QED BY <2>1, <2>2
<1>9. ButtonTells'
  <2> SUFFICES ASSUME NEW q \in Panes \ closed, replies'[q] = <<>>
               PROVE  /\ q \in shown' => recording[q] # None
                      /\ ~scene.auto /\ recording[q] # None => q \in shown'
    BY <1>2 DEF ButtonTells
  <2>0. q \in Panes /\ q \notin closed
    OBVIOUS
  <2>1. CASE q = p
    <3>1. k = 1 /\ Head(s) = last
      BY <1>4, <1>7, <2>1
    <3>2. shown' = IF last THEN shown \cup {p} ELSE shown \ {p}
      BY <1>2, <3>1
    <3>3. (q \in shown' <=> last) /\ q \notin closed
      <4>1. CASE last
        BY <2>1, <3>2, <4>1
      <4>2. CASE ~last
        BY <2>1, <3>2, <4>2
      <4> QED BY <4>1, <4>2
    <3>4. /\ last => recording[q] # None
          /\ ~scene.auto /\ recording[q] # None => last
      BY <1>5, <2>0, <2>1
    <3> QED BY <3>3, <3>4
  <2>2. CASE q # p
    <3>1. q \in shown' <=> q \in shown
      BY <1>2, <2>2
    <3> QED BY <1>7, <2>2, <3>1 DEF RecordingPart, ButtonIsSound, ButtonTells
  <2> QED BY <2>1, <2>2
<1>10. RecordsAreSound'
  BY <1>2 DEF RecordingPart, RecordsAreSound, RecordingsApart, OpenRowsAreLive
<1>11. shown' \subseteq Panes
  BY <1>2 DEF RecordingPart, ButtonIsSound
<1> QED BY <1>7, <1>8, <1>9, <1>10, <1>11 DEF RecordingPart, ButtonIsSound

LEMMA DeleteFacts ==
  ASSUME RecordingPart, NEW r \in Recs, DeleteRecording(r), UNCHANGED lvars
  PROVE  RecordingPart'
<1>1. /\ row[r] \in {"open", "done"} /\ (scene.patient => row[r] = "done")
      /\ row' = [row EXCEPT ![r] = "deleted"] /\ files' = files \ {r}
      /\ UNCHANGED <<recording, recorders, shown, replies, scene, closed>>
  BY DEF DeleteRecording, lvars
<1>2. row'[r] = "deleted" /\ \A o \in Recs : o # r => row'[o] = row[o]
  BY <1>1 DEF RecordingPart, RecordsAreSound
<1>3. RecordingsApart' /\ OpenRowsAreLive'
  BY <1>1, <1>2 DEF RecordingPart, RecordsAreSound, RecordingsApart, OpenRowsAreLive
<1>4. RecordsAreSound'
  BY <1>1, <1>2, <1>3 DEF RecordingPart, RecordsAreSound
<1>5. ButtonIsSound'
  BY <1>1 DEF RecordingPart, ButtonIsSound, LastReplyTells, ButtonTells
<1> QED BY <1>4, <1>5 DEF RecordingPart

(* The step of any service.                                                *)
LEMMA RecordingsStep ==
  LinkPart /\ TunnelPart /\ RecordingPart /\ [Next]_vars => RecordingPart'
<1> SUFFICES ASSUME LinkPart, TunnelPart, RecordingPart, [Next]_vars PROVE RecordingPart'
  OBVIOUS
<1>1. ASSUME UNCHANGED recvars, UNCHANGED <<scene, closed>> PROVE RecordingPart'
  BY <1>1 DEF RecordingPart, RecordsAreSound, RecordingsApart, OpenRowsAreLive,
              ButtonIsSound, LastReplyTells, ButtonTells, recvars
<1>2. ASSUME NEW p \in Panes, AutoRecord(p), UNCHANGED <<scene, closed, shown, replies>>,
             scene.patient => p \notin closed
      PROVE  RecordingPart'
  <2>1. CASE UNCHANGED <<row, files, recording, recorders>>
    BY <1>1, <1>2, <2>1 DEF recvars
  <2>2. CASE scene.auto /\ StartRecording(p)
    <3>1. /\ RecordsAreSound' /\ recording'[p] # None
          /\ \A q \in Panes : q # p => recording'[q] = recording[q]
      BY <1>2, <2>2, BeginFacts DEF RecordingPart
    <3>2. ButtonIsSound'
      BY <1>2, <2>2, <3>1, ButtonStays DEF RecordingPart
    <3> QED BY <3>1, <3>2 DEF RecordingPart
  <2> QED BY <1>2, <2>1, <2>2 DEF AutoRecord
<1>3. ASSUME NEW p \in Panes, Spawn(p) PROVE RecordingPart'
  <2>1. UNCHANGED <<scene, closed, shown, replies>> /\ p \notin closed
    BY <1>3 DEF Spawn, Connect
  <2>2. AutoRecord(p) \/ UNCHANGED <<row, files, recording, recorders>>
    BY <1>3 DEF Spawn
  <2> QED BY <1>1, <1>2, <2>1, <2>2 DEF recvars
<1>4. ASSUME NEW p \in Panes, Spawned(p) PROVE RecordingPart'
  <2>1. AutoRecord(p) /\ UNCHANGED <<scene, closed, shown, replies>> /\ starting[p] = {}
    BY <1>4 DEF Spawned, lvars
  <2>2. starting[p] # None
    BY <2>1, TunnelAssumption
  <2>3. scene.patient => p \notin closed
    BY <2>2 DEF TunnelPart, StartsAreKept
  <2> QED BY <1>2, <2>1, <2>3
<1>5. ASSUME NEW p \in Panes, Kill(p) PROVE RecordingPart'
  <2>1. /\ StopRecording(p) /\ closed' = closed \cup {p}
        /\ UNCHANGED <<scene, shown, replies>>
    BY <1>5 DEF Kill, EndRecording, CloseLink
  <2>2. /\ RecordsAreSound' /\ recording'[p] = None
        /\ \A q \in Panes : q # p => recording'[q] = recording[q]
    BY <2>1, EndFacts DEF RecordingPart
  <2>3. ButtonIsSound'
    BY <2>1, <2>2, ButtonStays DEF RecordingPart
  <2> QED BY <2>2, <2>3 DEF RecordingPart
<1>6. ASSUME NEW p \in Panes, LinkDrops(p) \/ Switch(p) PROVE RecordingPart'
  <2>1. UNCHANGED recvars /\ UNCHANGED <<scene, closed>>
    BY <1>6 DEF LinkDrops, Switch, OnDrop, Drop, Activate, recvars
  <2> QED BY <1>1, <2>1
<1>7. CASE RecordingStep
  <2>1. UNCHANGED lvars
    BY <1>7 DEF RecordingStep
  <2> QED BY <1>7, <2>1, ToggleFacts, ReplyFacts, DeleteFacts DEF RecordingStep
<1>8. CASE TunnelStep \/ FileUser \/ \E n \in Runs : FileReplies(n)
  BY <1>1, <1>8 DEF TunnelStep, FileUser, FileReplies, lvars
<1>9. CASE StatsTicks \/ StatsFetched \/ StatsFails
  BY <1>1, <1>9 DEF StatsTicks, StatsFetched, StatsFails, Others, lvars
<1>10. CASE UNCHANGED vars
  BY <1>1, <1>10 DEF vars, lvars
<1> QED BY <1>3, <1>4, <1>5, <1>6, <1>7, <1>8, <1>9, <1>10 DEF Next

-----------------------------------------------------------------------------
(* Files.                                                                  *)

LEMMA FilesBegin == Init => FilePart
<1> SUFFICES ASSUME Init PROVE FilePart
  OBVIOUS
<1>1. /\ wrapper = [p \in Panes |-> None] /\ channels = [l \in Links |-> 0]
      /\ panel = FALSE /\ run = [n \in Runs |-> None] /\ listing = None /\ error = FALSE
      /\ used = {} /\ up = {}
  BY DEF Init, LinkInit, FileInit
<1>2. FileTypeOK
  BY <1>1 DEF FileTypeOK
<1>3. RunsAreSound /\ PatientRuns /\ CalmRuns
  BY <1>1 DEF RunsAreSound, PatientRuns, CalmRuns
<1>4. ChannelsAreKept /\ ListingIsTabs /\ ChannelIsLive
  BY <1>1 DEF ChannelsAreKept, ListingIsTabs, ChannelIsLive
<1> QED BY <1>2, <1>3, <1>4 DEF FilePart

LEMMA RunOf ==
  ASSUME FilePart, NEW n \in Runs, run[n] # None
  PROVE  /\ run[n] \in RunRecords /\ run[n].pane \in Panes /\ run[n].gone \in BOOLEAN
         /\ run[n].step = "opening" =>
              run[n].link \in used /\ (run[n].link \in up => conn[run[n].pane] = run[n].link)
         /\ run[n].step = "list" => run[n].dir \in Dirs
         /\ panel \/ run[n].gone
BY DEF FilePart, FileTypeOK, RunsAreSound, RunRecords

LEMMA AskedRun ==
  \A p \in Panes : /\ NewRun(p, "asked", None) \in RunRecords
                   /\ NewRun(p, "asked", None) # None
                   /\ NewRun(p, "asked", None).pane = p
                   /\ NewRun(p, "asked", None).step = "asked"
                   /\ NewRun(p, "asked", None).gone = FALSE
<1> TAKE p \in Panes
<1> DEFINE rec == [pane |-> p, step |-> "asked", link |-> None, dir |-> None, gone |-> FALSE]
<1>1. NewRun(p, "asked", None) = rec
  BY DEF NewRun
<1>2. rec \in RunRecords
  BY DEF RunRecords, RunSteps
<1>3. rec.pane = p /\ rec.step = "asked" /\ rec.gone = FALSE
  OBVIOUS
<1> HIDE DEF rec
<1> QED BY <1>1, <1>2, <1>3, FilesAssumption

LEMMA NothingLoads ==
  ASSUME FilePart, scene.patient, ~Loading, NEW n \in Runs PROVE run[n] = None
BY DEF FilePart, PatientRuns, Loading

(* What a change of the tab or its connection is to the file manager.      *)
LEMMA ViewSteps ==
  ASSUME LinkPart, NEW p \in Panes, Spawn(p) \/ LinkDrops(p) \/ Kill(p) \/ Switch(p)
  PROVE  /\ Views /\ UNCHANGED <<channels, panel, listing>>
         /\ Connect(p) \/ Drop(p) \/ CloseLink(p) \/ Activate(p)
         /\ \/ wrapper' = wrapper /\ ~CloseLink(p)
            \/ wrapper' = [wrapper EXCEPT ![p] = None] /\ CloseLink(p)
         /\ scene.patient /\ Loading => active' = active /\ (Connect(p) \/ Drop(p))
<1>1. CASE Spawn(p)
  <2>1. Connect(p) /\ p \notin closed
    BY <1>1 DEF Spawn, Connect
  <2> QED BY <1>1, <2>1 DEF Spawn, Connect, CloseLink
<1>2. CASE LinkDrops(p)
  <2>1. ~CloseLink(p)
    BY <1>2 DEF LinkDrops, Drop, CloseLink
  <2> QED BY <1>2, <2>1 DEF LinkDrops, Drop
<1>3. CASE Kill(p)
  BY <1>3 DEF Kill, CloseSftp, MayClose
<1>4. CASE Switch(p)
  <2>1. ~CloseLink(p)
    BY <1>4 DEF Switch, Activate, CloseLink
  <2> QED BY <1>4, <2>1 DEF Switch
<1> QED BY <1>1, <1>2, <1>3, <1>4

(* Either nothing begins, for the tab that was shown or for none; or a run *)
(* of a tab that was not.                                                  *)
LEMMA EffectFacts ==
  ASSUME LinkPart, FilePart, LinkPart', Rely, Views, panel' = panel
  PROVE  \/ /\ run' = run /\ error' = error
            /\ panel => TabId(active', conn') \in {TabId(active, conn), None}
         \/ /\ panel /\ TabId(active', conn') # TabId(active, conn)
            /\ TabId(active', conn') = active' /\ active' \in Panes /\ conn'[active'] # None
            /\ error' = FALSE
            /\ \E n \in Idle : run' = [run EXCEPT ![n] = NewRun(active', "asked", None)]
<1> DEFINE t == TabId(active', conn')
<1>1. t # None => t = active' /\ active' \in Panes /\ conn'[active'] # None
  BY DEF TabId, LinkPart, LinkTypeOK
<1>2. CASE ~Uses("files")
  BY <1>2 DEF Views, FilePart, RunsAreSound
<1>3. CASE Uses("files") /\ ~(panel /\ TabId(active, conn) # t)
  BY <1>3 DEF Views, OnTab
<1>4. CASE Uses("files") /\ panel /\ TabId(active, conn) # t
  <2>1. Effect(t)
    BY <1>4 DEF Views, OnTab
  <2>2. CASE t = None
    BY <2>1, <2>2 DEF Effect
  <2>3. CASE t # None
    <3>1. Idle # {} /\ run' = [run EXCEPT ![Any(Idle)] = NewRun(t, "asked", None)] /\ error' = FALSE
      BY <2>1, <2>3 DEF Effect
    <3>2. Any(Idle) \in Idle
      BY <3>1, AnyFact
    <3> QED BY <1>1, <1>4, <2>3, <3>1, <3>2
  <2> QED BY <2>2, <2>3
<1> QED BY <1>2, <1>3, <1>4

(* A client that is still connected is that of the pane it was.            *)
LEMMA ClientsStay ==
  ASSUME LinkPart, NEW p \in Panes, Connect(p) \/ Drop(p) \/ CloseLink(p) \/ Activate(p),
         NEW q \in Panes, conn[q] # None
  PROVE  /\ conn[q] \in up' => conn'[q] = conn[q]
         /\ Connect(p) => conn'[q] = conn[q]
         /\ Activate(p) => conn'[q] = conn[q]
         /\ q # p => conn'[q] = conn[q]
<1>1. conn \in [Panes -> Links \cup {None}]
  BY DEF LinkPart, LinkTypeOK
<1>2. CASE Connect(p)
  BY <1>1, <1>2, ConnectFacts
<1>3. CASE Drop(p) \/ CloseLink(p)
  <2>1. conn' = [conn EXCEPT ![p] = None] /\ up' = up \ {conn[p]}
    BY <1>3, LoseFacts
  <2>2. ~Connect(p)
    BY <1>3, <2>1, ConnectFacts, LoseFacts, NoneAssumption, <1>1
  <2>3. Activate(p) => conn' = conn
    BY DEF Activate
  <2> QED BY <1>1, <2>1, <2>2, <2>3
<1>4. CASE Activate(p)
  <2>1. conn' = conn
    BY <1>4 DEF Activate
  <2> QED BY <2>1
<1> QED BY <1>2, <1>3, <1>4

(* The tab or its connection changes.                                      *)
LEMMA FilesView ==
  ASSUME LinkPart, FilePart, NEW p \in Panes, Spawn(p) \/ LinkDrops(p) \/ Kill(p) \/ Switch(p)
  PROVE  FilePart'
<1> DEFINE t == TabId(active, conn)
           u == TabId(active', conn')
<1>1. /\ Views /\ UNCHANGED <<channels, panel, listing>>
      /\ Connect(p) \/ Drop(p) \/ CloseLink(p) \/ Activate(p)
      /\ \/ wrapper' = wrapper /\ ~CloseLink(p)
         \/ wrapper' = [wrapper EXCEPT ![p] = None] /\ CloseLink(p)
      /\ scene.patient /\ Loading => active' = active /\ (Connect(p) \/ Drop(p))
  BY ViewSteps
<1>2. LinkPart' /\ Rely
  BY <1>1, LinkStepFacts DEF LinkSteps
<1>3. \/ /\ run' = run /\ error' = error /\ (panel => u \in {t, None})
      \/ /\ panel /\ u # t /\ u = active' /\ active' \in Panes /\ conn'[active'] # None
         /\ error' = FALSE
         /\ \E n \in Idle : run' = [run EXCEPT ![n] = NewRun(active', "asked", None)]
  BY <1>1, <1>2, EffectFacts
<1>4. /\ scene' = scene /\ panel' = panel /\ listing' = listing /\ channels' = channels
      /\ (Uses("files") <=> Uses("files")')
  BY <1>1, <1>2 DEF Rely, Uses
<1>5. \A q \in Panes : wrapper'[q] # None => wrapper'[q] = wrapper[q]
  BY <1>1 DEF FilePart, FileTypeOK
(* A run is one of before, or the one that begins.                         *)
<1>6. ASSUME NEW n \in Runs, run'[n] # None
      PROVE  \/ run[n] # None /\ run'[n] = run[n]
             \/ /\ panel /\ u # t /\ run'[n].step = "asked" /\ ~run'[n].gone
                /\ run'[n].pane = active' /\ run'[n] \in RunRecords /\ conn'[active'] # None
                /\ u = active' /\ \A m \in Runs : m # n => run'[m] = run[m]
  <2>1. CASE run' = run
    BY <1>6, <2>1
  <2>2. CASE active' \in Panes /\ \E m \in Idle : run' = [run EXCEPT ![m] = NewRun(active', "asked", None)]
    <3>1. PICK m \in Idle : run' = [run EXCEPT ![m] = NewRun(active', "asked", None)]
      BY <2>2
    <3>2. /\ m \in Runs /\ DOMAIN run = Runs
      BY DEF Idle, FilePart, FileTypeOK
    <3>3. /\ NewRun(active', "asked", None) \in RunRecords
          /\ NewRun(active', "asked", None).pane = active'
          /\ NewRun(active', "asked", None).step = "asked"
          /\ NewRun(active', "asked", None).gone = FALSE
      BY <2>2, AskedRun
    <3>4. run'[m] = NewRun(active', "asked", None) /\ \A k \in Runs : k # m => run'[k] = run[k]
      BY <3>1, <3>2
    <3>5. run' # run
      BY <3>4, <3>2, <2>2, AskedRun DEF Idle
    <3> QED BY <1>3, <1>6, <3>3, <3>4, <3>5
  <2> QED BY <1>3, <2>1, <2>2
<1>7. FileTypeOK'
  <2>1. run' \in [Runs -> RunRecords \cup {None}]
    <3>1. DOMAIN run' = Runs /\ run' = [n \in Runs |-> run'[n]]
      BY <1>3 DEF FilePart, FileTypeOK
    <3>2. \A n \in Runs : run'[n] \in RunRecords \cup {None}
      BY <1>6, RunOf
    <3> QED BY <3>1, <3>2
  <2>2. error' \in BOOLEAN
    BY <1>3 DEF FilePart, FileTypeOK
  <2>3. wrapper' \in [Panes -> used' \cup {None}]
    BY <1>1, <1>2 DEF FilePart, FileTypeOK, Rely
  <2> QED BY <1>4, <2>1, <2>2, <2>3 DEF FilePart, FileTypeOK
<1>8. RunsAreSound'
  <2>1. ASSUME NEW n \in Runs, run'[n] # None
        PROVE  /\ run'[n].step = "opening" =>
                    run'[n].link \in used' /\ (run'[n].link \in up' => conn'[run'[n].pane] = run'[n].link)
               /\ run'[n].step = "list" => run'[n].dir \in Dirs
               /\ panel' \/ run'[n].gone
    <3>1. CASE run[n] # None /\ run'[n] = run[n]
      <4>1. ASSUME run[n].step = "opening", run[n].link \in up' PROVE conn'[run[n].pane] = run[n].link
        <5>1. run[n].link \in up /\ conn[run[n].pane] = run[n].link /\ run[n].pane \in Panes
          BY <1>2, <3>1, <4>1, RunOf DEF Rely
        <5>2. conn[run[n].pane] # None
          BY <5>1, NoneAssumption DEF LinkPart, LinkTypeOK
        <5> QED BY <1>1, <4>1, <5>1, <5>2, ClientsStay
      <4> QED BY <1>2, <1>4, <3>1, <4>1, RunOf DEF Rely
    <3>2. CASE panel /\ run'[n].step = "asked"
      BY <1>4, <3>2
    <3> QED BY <1>6, <2>1, <3>1, <3>2
  <2>2. panel' => Uses("files")'
    BY <1>4 DEF FilePart, RunsAreSound
  <2> QED BY <2>1, <2>2 DEF RunsAreSound
<1>9. scene.patient => (active' = active /\ (Connect(p) \/ Drop(p))) \/ \A n \in Runs : run[n] = None
  BY <1>1, NothingLoads
<1>10. PatientRuns'
  BY <1>4, <1>6, <1>9 DEF PatientRuns, FilePart
<1>11. CalmRuns'
  <2> SUFFICES ASSUME scene.patient, ~scene.drops
               PROVE  /\ \A m, n \in Runs : run'[m] # None /\ run'[n] # None => m = n
                      /\ \A n \in Runs : run'[n] # None =>
                           /\ conn'[run'[n].pane] # None
                           /\ run'[n].step = "opening" => wrapper'[run'[n].pane] = None
    BY <1>4 DEF CalmRuns
  <2>1. (active' = active /\ Connect(p)) \/ \A n \in Runs : run[n] = None
    BY <1>9 DEF Drop
  <2>2. \A n \in Runs : run[n] # None =>
          /\ run[n].pane = active /\ active \in Panes /\ conn[active] # None
          /\ run[n].step = "opening" => wrapper[active] = None
    BY RunOf DEF FilePart, PatientRuns, CalmRuns
  <2>3. ASSUME NEW n \in Runs, run[n] # None PROVE conn'[active] = conn[active] /\ u = t
    <3>1. conn'[active] = conn[active] /\ active' = active
      BY <2>1, <2>2, <2>3, ClientsStay
    <3> QED BY <3>1 DEF TabId
  <2>4. \A m, n \in Runs : run[m] # None /\ run[n] # None => m = n
    BY DEF FilePart, CalmRuns
  <2>5. ASSUME NEW n \in Runs, run'[n] # None
        PROVE  /\ conn'[run'[n].pane] # None
               /\ run'[n].step = "opening" => wrapper'[run'[n].pane] = None
               /\ \A m \in Runs : run'[m] # None => m = n
    <3>1. CASE run[n] # None /\ run'[n] = run[n]
      <4>1. conn'[run[n].pane] # None /\ u = t
        BY <2>2, <2>3, <3>1
      <4>2. run' = run
        BY <1>3, <4>1
      <4> QED BY <1>5, <2>2, <2>4, <3>1, <4>1, <4>2
    <3>2. CASE u # t /\ run'[n].step = "asked" /\ run'[n].pane = active' /\ conn'[active'] # None
               /\ \A m \in Runs : m # n => run'[m] = run[m]
      <4>1. \A m \in Runs : run[m] = None
        BY <2>3, <3>2
      <4> QED BY <3>2, <4>1
    <3> QED BY <1>6, <2>5, <3>1, <3>2
  <2> QED BY <2>5
<1>12. ChannelIsLive'
  <2> SUFFICES ASSUME ~scene.drops, NEW q \in Panes, wrapper'[q] # None
               PROVE  wrapper'[q] = conn'[q]
    BY <1>4 DEF ChannelIsLive
  <2>1. wrapper'[q] = wrapper[q] /\ wrapper[q] = conn[q] /\ conn[q] # None
    BY <1>5 DEF FilePart, ChannelIsLive
  <2>2. CASE CloseLink(p)
    <3>1. wrapper'[p] = None
      BY <1>1, <2>2 DEF FilePart, FileTypeOK
    <3> QED BY <1>1, <2>1, <3>1, ClientsStay
  <2>3. CASE Connect(p) \/ Activate(p)
    BY <2>1, <2>3, ClientsStay
  <2> QED BY <1>1, <2>2, <2>3 DEF Drop
<1>13. ChannelsAreKept'
  <2> SUFFICES ASSUME scene.patient, ~scene.drops, NEW l \in Links, channels[l] # 0
               PROVE  /\ channels[l] = 1 /\ l \in used'
                      /\ l \in up' => \E q \in Panes : wrapper'[q] = l
    BY <1>4 DEF ChannelsAreKept
  <2>1. channels[l] = 1 /\ l \in used /\ (l \in up => \E q \in Panes : wrapper[q] = l)
    BY DEF FilePart, ChannelsAreKept
  <2>2. ASSUME l \in up' PROVE \E q \in Panes : wrapper'[q] = l
    <3>1. PICK q \in Panes : wrapper[q] = l
      BY <1>2, <2>1, <2>2 DEF Rely
    <3>2. conn[q] = l /\ l # None
      BY <3>1, NoneAssumption DEF FilePart, ChannelIsLive
    <3>3. CASE CloseLink(p)
      <4>1. l # conn[p]
        BY <2>2, <3>3, LoseFacts
      <4>2. q # p /\ wrapper' = [wrapper EXCEPT ![p] = None]
        BY <1>1, <3>2, <3>3, <4>1
      <4> QED BY <3>1, <4>2 DEF FilePart, FileTypeOK
    <3>4. CASE wrapper' = wrapper
      BY <3>1, <3>4
    <3> QED BY <1>1, <3>3, <3>4
  <2> QED BY <1>2, <2>1, <2>2 DEF Rely
<1>14. ListingIsTabs'
  <2> SUFFICES ASSUME scene.patient, panel, u # None, ~Loading', ~error'
               PROVE  listing # None /\ listing.pane = u
    BY <1>4 DEF ListingIsTabs
  <2>1. CASE run' = run /\ error' = error /\ u \in {t, None}
    BY <2>1 DEF FilePart, ListingIsTabs, Loading
  <2>2. CASE active' \in Panes /\ \E n \in Idle : run' = [run EXCEPT ![n] = NewRun(active', "asked", None)]
    <3>1. PICK n \in Idle : run' = [run EXCEPT ![n] = NewRun(active', "asked", None)]
      BY <2>2
    <3>2. n \in Runs /\ run'[n] = NewRun(active', "asked", None)
      BY <3>1 DEF Idle, FilePart, FileTypeOK
    <3>3. run'[n] # None /\ ~run'[n].gone
      BY <2>2, <3>2, AskedRun
    <3> QED BY <3>2, <3>3 DEF Loading
  <2> QED BY <1>3, <2>1, <2>2
<1> QED BY <1>7, <1>8, <1>10, <1>11, <1>12, <1>13, <1>14 DEF FilePart

LEMMA ListRun ==
  \A p \in Panes, d \in Dirs : /\ NewRun(p, "list", d) \in RunRecords
                              /\ NewRun(p, "list", d) # None
                              /\ NewRun(p, "list", d).pane = p
                              /\ NewRun(p, "list", d).dir = d
                              /\ NewRun(p, "list", d).step = "list"
                              /\ NewRun(p, "list", d).gone = FALSE
<1> TAKE p \in Panes, d \in Dirs
<1> DEFINE rec == [pane |-> p, step |-> "list", link |-> None, dir |-> d, gone |-> FALSE]
<1>1. NewRun(p, "list", d) = rec
  BY DEF NewRun
<1>2. rec \in RunRecords
  BY DEF RunRecords, RunSteps
<1>3. rec.pane = p /\ rec.step = "list" /\ rec.dir = d /\ rec.gone = FALSE
  OBVIOUS
<1> HIDE DEF rec
<1> QED BY <1>1, <1>2, <1>3, FilesAssumption

(* The panel opens, with a run of its tab, or closes, and its runs go on   *)
(* without it.                                                             *)
LEMMA ToggleStep ==
  ASSUME LinkPart, FilePart, TogglePanel, Uses("files"), UNCHANGED lvars PROVE FilePart'
<1> DEFINE t == TabId(active, conn)
<1>1. /\ panel' = ~panel /\ wrapper' = wrapper /\ channels' = channels
      /\ scene' = scene /\ used' = used /\ up' = up /\ conn' = conn /\ active' = active
      /\ closed' = closed
      /\ scene.patient => \A n \in Runs : run[n] = None
  BY NothingLoads DEF TogglePanel, lvars
<1>2. /\ panel \in BOOLEAN /\ run \in [Runs -> RunRecords \cup {None}] /\ None \notin RunRecords
  BY FilesAssumption DEF FilePart, FileTypeOK
<1>3. ChannelsAreKept' /\ ChannelIsLive'
  BY <1>1 DEF FilePart, ChannelsAreKept, ChannelIsLive
<1>4. CASE panel
  <2>1. /\ run' = [n \in Runs |-> IF run[n] = None THEN None ELSE [run[n] EXCEPT !.gone = TRUE]]
        /\ listing' = None /\ error' = FALSE
    BY <1>4 DEF TogglePanel
  <2>2. ASSUME NEW n \in Runs, run'[n] # None
        PROVE  /\ run[n] # None /\ run'[n] \in RunRecords
               /\ run'[n].pane = run[n].pane /\ run'[n].step = run[n].step
               /\ run'[n].link = run[n].link /\ run'[n].dir = run[n].dir /\ run'[n].gone
    <3> DEFINE q == run[n]
    <3>1. q # None /\ run'[n] = [q EXCEPT !.gone = TRUE] /\ q \in RunRecords
      BY <1>2, <2>1, <2>2
    <3> HIDE DEF q
    <3>2. /\ run'[n] \in RunRecords /\ run'[n].pane = q.pane /\ run'[n].step = q.step
          /\ run'[n].link = q.link /\ run'[n].dir = q.dir /\ run'[n].gone = TRUE
      BY <3>1 DEF RunRecords
    <3> QED BY <3>1, <3>2 DEF q
  <2>3. FileTypeOK'
    <3>1. run' \in [Runs -> RunRecords \cup {None}]
      BY <2>1, <2>2
    <3> QED BY <1>1, <1>4, <2>1, <3>1 DEF FilePart, FileTypeOK
  <2>4. RunsAreSound'
    BY <1>1, <1>4, <2>2 DEF FilePart, RunsAreSound
  <2>5. PatientRuns' /\ CalmRuns'
    BY <1>1, <2>2 DEF PatientRuns, CalmRuns
  <2>6. ListingIsTabs'
    BY <1>1, <1>4 DEF ListingIsTabs
  <2> QED BY <1>3, <2>3, <2>4, <2>5, <2>6 DEF FilePart
<1>5. CASE ~panel
  <2>1. Effect(t) /\ listing' = listing
    BY <1>5 DEF TogglePanel
  <2>2. CASE t = None
    <3>1. run' = run /\ error' = error
      BY <2>1, <2>2 DEF Effect
    <3>2. FileTypeOK'
      BY <1>1, <1>5, <2>1, <3>1 DEF FilePart, FileTypeOK
    <3>3. RunsAreSound'
      BY <1>1, <1>5, <3>1 DEF FilePart, RunsAreSound, Uses
    <3>4. PatientRuns' /\ CalmRuns'
      BY <1>1, <3>1 DEF FilePart, PatientRuns, CalmRuns
    <3>5. ListingIsTabs'
      BY <1>1, <2>2 DEF ListingIsTabs
    <3> QED BY <1>3, <3>2, <3>3, <3>4, <3>5 DEF FilePart
  <2>3. CASE t # None
    <3>1. t = active /\ active \in Panes /\ conn[active] # None
      BY <2>3 DEF TabId, LinkPart, LinkTypeOK
    <3>2. PICK n \in Idle : run' = [run EXCEPT ![n] = NewRun(t, "asked", None)] /\ error' = FALSE
      BY <2>1, <2>3, AnyFact DEF Effect
    <3>3. n \in Runs /\ run[n] = None
      BY <3>2 DEF Idle
    <3>4. /\ run'[n] \in RunRecords /\ run'[n] # None /\ run'[n].pane = active
          /\ run'[n].step = "asked" /\ run'[n].gone = FALSE
          /\ \A m \in Runs : m # n => run'[m] = run[m]
      BY <1>2, <3>1, <3>2, <3>3, AskedRun
    <3>5. FileTypeOK'
      <4>1. run' \in [Runs -> RunRecords \cup {None}]
        BY <1>2, <3>2, <3>4
      <4>2. listing = None
        BY <1>5 DEF FilePart, FileTypeOK
      <4> QED BY <1>1, <1>5, <2>1, <3>2, <4>1, <4>2 DEF FilePart, FileTypeOK
    <3>6. RunsAreSound'
      BY <1>1, <1>5, <3>4 DEF FilePart, RunsAreSound, Uses
    <3>7. PatientRuns' /\ CalmRuns'
      BY <1>1, <3>1, <3>4 DEF PatientRuns, CalmRuns
    <3>8. ListingIsTabs'
      <4>1. Loading'
        BY <3>3, <3>4 DEF Loading
      <4> QED BY <4>1 DEF ListingIsTabs
    <3> QED BY <1>3, <3>5, <3>6, <3>7, <3>8 DEF FilePart
  <2> QED BY <2>2, <2>3
<1> QED BY <1>4, <1>5

(* A click on a directory is a run of the tab.                             *)
LEMMA ListStep ==
  ASSUME LinkPart, FilePart, NEW d \in Dirs, ListDir(d), UNCHANGED lvars PROVE FilePart'
<1> DEFINE t == TabId(active, conn)
<1>1. /\ panel /\ t # None /\ Idle # {} /\ error' = FALSE
      /\ run' = [run EXCEPT ![Any(Idle)] = NewRun(t, "list", d)]
      /\ wrapper' = wrapper /\ channels' = channels /\ panel' = panel /\ listing' = listing
      /\ scene' = scene /\ used' = used /\ up' = up /\ conn' = conn /\ active' = active
      /\ scene.patient => \A n \in Runs : run[n] = None
  BY NothingLoads DEF ListDir, lvars
<1>2. run \in [Runs -> RunRecords \cup {None}]
  BY DEF FilePart, FileTypeOK
<1>3. t = active /\ active \in Panes /\ conn[active] # None
  BY <1>1 DEF TabId, LinkPart, LinkTypeOK
<1>4. PICK n \in Idle : run' = [run EXCEPT ![n] = NewRun(t, "list", d)]
  BY <1>1, AnyFact
<1>5. n \in Runs /\ run[n] = None
  BY <1>4 DEF Idle
<1>6. /\ run'[n] \in RunRecords /\ run'[n] # None /\ run'[n].pane = active
      /\ run'[n].step = "list" /\ run'[n].dir = d /\ run'[n].gone = FALSE
      /\ \A m \in Runs : m # n => run'[m] = run[m]
  BY <1>2, <1>3, <1>4, <1>5, ListRun
<1>7. FileTypeOK'
  <2>1. run' \in [Runs -> RunRecords \cup {None}]
    BY <1>2, <1>4, <1>6
  <2> QED BY <1>1, <2>1 DEF FilePart, FileTypeOK
<1>8. RunsAreSound'
  BY <1>1, <1>6 DEF FilePart, RunsAreSound, Uses
<1>9. PatientRuns' /\ CalmRuns'
  BY <1>1, <1>3, <1>6 DEF PatientRuns, CalmRuns
<1>10. ListingIsTabs'
  <2>1. Loading'
    BY <1>5, <1>6 DEF Loading
  <2> QED BY <2>1 DEF ListingIsTabs
<1>11. ChannelsAreKept' /\ ChannelIsLive'
  BY <1>1 DEF FilePart, ChannelsAreKept, ChannelIsLive
<1> QED BY <1>7, <1>8, <1>9, <1>10, <1>11 DEF FilePart

(* A run goes on, or ends: of a patient user, with its listing or an error.*)
LEMMA RunFacts ==
  ASSUME FilePart, UNCHANGED lvars, panel' = panel, NEW n \in Runs, run[n] # None,
         NEW r, run' = [run EXCEPT ![n] = r],
         r # None =>
           /\ r \in RunRecords /\ r.pane = run[n].pane /\ r.gone = run[n].gone
           /\ r.step = "opening" =>
                r.link \in used /\ conn[r.pane] = r.link /\ wrapper'[r.pane] = None
           /\ r.step = "list" => r.dir \in Dirs,
         scene.patient => r # None \/ error' \/ (listing' # None /\ listing'.pane = run[n].pane)
  PROVE  /\ run' \in [Runs -> RunRecords \cup {None}]
         /\ RunsAreSound' /\ PatientRuns' /\ CalmRuns' /\ ListingIsTabs'
<1>1. /\ run \in [Runs -> RunRecords \cup {None}]
      /\ run'[n] = r /\ \A m \in Runs : m # n => run'[m] = run[m]
      /\ scene' = scene /\ used' = used /\ up' = up /\ conn' = conn /\ active' = active
  BY DEF FilePart, FileTypeOK, lvars
<1>2. run' \in [Runs -> RunRecords \cup {None}]
  BY <1>1
<1>3. RunsAreSound'
  BY <1>1, RunOf DEF FilePart, RunsAreSound, Uses
<1>4. PatientRuns'
  BY <1>1 DEF FilePart, PatientRuns
<1>5. CalmRuns'
  <2>1. scene.patient /\ ~scene.drops => \A m \in Runs : m # n => run[m] = None
    BY DEF FilePart, CalmRuns
  <2>2. scene.patient /\ ~scene.drops => conn[run[n].pane] # None
    BY DEF FilePart, CalmRuns
  <2> QED BY <1>1, <2>1, <2>2 DEF CalmRuns
<1>6. ListingIsTabs'
  <2> SUFFICES ASSUME scene.patient, TabId(active, conn) # None, ~Loading', ~error'
               PROVE  listing' # None /\ listing'.pane = TabId(active, conn)
    BY <1>1 DEF ListingIsTabs
  <2>1. r = None
    BY <1>1 DEF Loading, FilePart, PatientRuns
  <2>2. run[n].pane = TabId(active, conn)
    BY DEF FilePart, PatientRuns, TabId
  <2> QED BY <2>1, <2>2
<1> QED BY <1>2, <1>3, <1>4, <1>5, <1>6

LEMMA SteppedRun ==
  \A q \in RunRecords, s \in RunSteps :
    LET r == [q EXCEPT !.step = s]
    IN /\ r \in RunRecords /\ r # None /\ r.pane = q.pane /\ r.gone = q.gone /\ r.step = s
       /\ r.dir = q.dir
<1> TAKE q \in RunRecords, s \in RunSteps
<1> DEFINE r == [q EXCEPT !.step = s]
<1>1. r \in RunRecords /\ r.pane = q.pane /\ r.gone = q.gone /\ r.step = s /\ r.dir = q.dir
  BY DEF RunRecords
<1> HIDE DEF r
<1>2. r # None
  BY <1>1, FilesAssumption
<1> QED BY <1>1, <1>2 DEF r

(* What comes back for a run.                                              *)
LEMMA RepliesStep ==
  ASSUME LinkPart, FilePart, NEW n \in Runs, FileReplies(n) PROVE FilePart'
<1> DEFINE q == run[n]
           p == run[n].pane
<1>1. UNCHANGED lvars /\ panel' = panel /\ q # None
  BY DEF FileReplies, Asks, Opened, OpenFails, Home, Listed, ListFails, Listing
<1>2. /\ q \in RunRecords /\ p \in Panes /\ q.gone \in BOOLEAN
      /\ run \in [Runs -> RunRecords \cup {None}] /\ error \in BOOLEAN
      /\ scene.patient => ~q.gone
      /\ scene' = scene /\ used' = used /\ up' = up /\ conn' = conn /\ active' = active
  BY <1>1, RunOf DEF FilePart, FileTypeOK, PatientRuns, lvars
(* The whole state, from what becomes of the run.                          *)
<1>3. ASSUME NEW r, run' = [run EXCEPT ![n] = r],
             r # None =>
               /\ r \in RunRecords /\ r.pane = p /\ r.gone = q.gone
               /\ r.step = "opening" =>
                    r.link \in used /\ conn[p] = r.link /\ wrapper'[p] = None
               /\ r.step = "list" => r.dir \in Dirs,
             scene.patient => r # None \/ error' \/ (listing' # None /\ listing'.pane = p),
             error' \in BOOLEAN,
             listing' = listing \/ (panel /\ listing' \in Listings),
             UNCHANGED <<wrapper, channels>>
      PROVE  FilePart'
  <2>1. /\ run' \in [Runs -> RunRecords \cup {None}]
        /\ RunsAreSound' /\ PatientRuns' /\ CalmRuns' /\ ListingIsTabs'
    BY <1>1, <1>3, RunFacts
  <2>2. FileTypeOK'
    BY <1>1, <1>2, <1>3, <2>1 DEF FilePart, FileTypeOK
  <2>3. ChannelsAreKept' /\ ChannelIsLive'
    BY <1>2, <1>3 DEF FilePart, ChannelsAreKept, ChannelIsLive
  <2> QED BY <2>1, <2>2, <2>3 DEF FilePart
<1>4. ASSUME Errs(n), UNCHANGED <<wrapper, channels, listing>> PROVE FilePart'
  <2>1. run' = [run EXCEPT ![n] = None] /\ error' = (error \/ ~q.gone)
    BY <1>4 DEF Errs, Ends
  <2>2. error' \in BOOLEAN /\ (scene.patient => error')
    BY <1>2, <2>1
  <2> QED BY <1>3, <1>4, <2>1, <2>2
<1>5. ASSUME NEW s \in RunSteps, Goes(n, s)
      PROVE  \E r : /\ run' = [run EXCEPT ![n] = r]
                    /\ r # None => /\ r \in RunRecords /\ r.pane = p /\ r.gone = q.gone
                                   /\ r.step = s /\ r.dir = q.dir
                    /\ scene.patient => r # None
  <2>1. CASE q.gone
    <3>1. run' = [run EXCEPT ![n] = None]
      BY <1>5, <2>1 DEF Goes, Ends
    <3>2. ~scene.patient
      BY <1>2, <2>1
    <3> QED BY <3>1, <3>2
  <2>2. CASE ~q.gone
    <3> DEFINE r == [q EXCEPT !.step = s]
    <3>1. run' = [run EXCEPT ![n] = r]
      BY <1>5, <2>2 DEF Goes, Step
    <3>2. r \in RunRecords /\ r # None /\ r.pane = q.pane /\ r.gone = q.gone /\ r.step = s
          /\ r.dir = q.dir
      BY <1>2, SteppedRun
    <3> HIDE DEF r
    <3> QED BY <3>1, <3>2
  <2> QED BY <2>1, <2>2
<1>6. CASE Asks(n)
  <2>1. UNCHANGED <<wrapper, channels, panel, listing>>
    BY <1>6 DEF Asks
  <2>2. CASE Cached(p)
    <3>1. Goes(n, "home") /\ error' = error /\ "home" \in RunSteps
      BY <1>6, <2>2 DEF Asks, RunSteps
    <3>2. PICK r : /\ run' = [run EXCEPT ![n] = r]
                   /\ r # None => /\ r \in RunRecords /\ r.pane = p /\ r.gone = q.gone
                                  /\ r.step = "home" /\ r.dir = q.dir
                   /\ scene.patient => r # None
      BY <1>5, <3>1
    <3> HIDE DEF q, p
    <3>3. r # None => r.step # "opening" /\ r.step # "list"
      BY <3>2
    <3> QED BY <1>2, <1>3, <2>1, <3>1, <3>2, <3>3
  <2>3. CASE ~Cached(p) /\ conn[p] = None
    <3>1. Errs(n)
      BY <1>6, <2>3 DEF Asks
    <3> QED BY <1>4, <2>1, <3>1
  <2>4. CASE ~Cached(p) /\ conn[p] # None
    <3> DEFINE l == conn[p]
               r == [q EXCEPT !.step = "opening", !.link = l]
    <3>1. run' = [run EXCEPT ![n] = r] /\ error' = error
      BY <1>6, <2>4 DEF Asks
    <3>2. l \in Links /\ l \in used
      BY <1>2, <2>4 DEF LinkPart, LinkTypeOK
    <3>3. wrapper[p] = None
      BY <2>4 DEF Cached
    <3> HIDE DEF l, q
    <3>4. r \in RunRecords /\ r.pane = q.pane /\ r.gone = q.gone /\ r.step = "opening" /\ r.link = l
      BY <1>2, <3>2 DEF RunRecords, RunSteps
    <3> HIDE DEF r
    <3>5. r # None
      BY <3>4, FilesAssumption
    <3>6. r.pane = p /\ conn[p] = l
      BY <3>4 DEF q, l
    <3> HIDE DEF p
    <3> QED BY <1>2, <1>3, <2>1, <3>1, <3>2, <3>3, <3>4, <3>5, <3>6
  <2> QED BY <2>2, <2>3, <2>4
<1>7. CASE OpenFails(n) \/ ListFails(n)
  BY <1>4, <1>7 DEF OpenFails, ListFails
<1>8. CASE Home(n)
  <2>1. UNCHANGED <<wrapper, channels, panel, listing>>
    BY <1>8 DEF Home
  <2>2. CASE ~Answers(p)
    BY <1>4, <1>8, <2>1, <2>2 DEF Home
  <2>3. CASE Answers(p) /\ q.gone
    <3>1. run' = [run EXCEPT ![n] = None] /\ error' = error /\ ~scene.patient
      BY <1>2, <1>8, <2>3 DEF Home, Ends
    <3> QED BY <1>2, <1>3, <2>1, <3>1
  <2>4. CASE Answers(p) /\ ~q.gone
    <3>1. PICK d \in Dirs : run' = [run EXCEPT ![n].step = "list", ![n].dir = d]
      BY <1>8, <2>4 DEF Home
    <3>2. error' = FALSE
      BY <1>8, <2>4 DEF Home
    <3> DEFINE r == [q EXCEPT !.step = "list", !.dir = d]
    <3>3. run' = [run EXCEPT ![n] = r]
      BY <3>1
    <3> HIDE DEF q
    <3>4. r \in RunRecords /\ r.pane = q.pane /\ r.gone = q.gone /\ r.step = "list" /\ r.dir = d
      BY <1>2 DEF RunRecords, RunSteps
    <3> HIDE DEF r
    <3>5. r # None
      BY <3>4, FilesAssumption
    <3>6. r.pane = p
      BY <3>4 DEF q
    <3> HIDE DEF p
    <3> QED BY <1>2, <1>3, <2>1, <3>2, <3>3, <3>4, <3>5, <3>6
  <2> QED BY <2>2, <2>3, <2>4
<1>9. CASE Listed(n)
  <2>1. /\ q.step = "list" /\ run' = [run EXCEPT ![n] = None] /\ error' = error
        /\ UNCHANGED <<wrapper, channels>>
        /\ listing' = IF q.gone THEN listing ELSE [pane |-> p, dir |-> q.dir]
    BY <1>9 DEF Listed, Listing, Ends
  <2>2. q.dir \in Dirs /\ (panel \/ q.gone)
    BY <1>1, <2>1, RunOf
  <2> DEFINE d == q.dir
             rec == [pane |-> p, dir |-> d]
  <2>3. rec \in Listings /\ rec.pane = p
    BY <1>2, <2>2 DEF Listings
  <2>4. rec # None
    BY <2>3, FilesAssumption
  <2>5. CASE q.gone
    BY <1>2, <1>3, <2>1, <2>5
  <2>6. CASE ~q.gone
    <3>1. listing' = rec /\ panel
      BY <2>1, <2>2, <2>6
    <3> HIDE DEF rec, q, p
    <3> QED BY <1>2, <1>3, <2>1, <2>3, <2>4, <3>1
  <2> QED BY <2>5, <2>6
<1>10. CASE Opened(n)
  <2> DEFINE l == run[n].link
  <2>1. /\ q.step = "opening" /\ l \in up /\ Goes(n, "home") /\ error' = error /\ listing' = listing
        /\ channels' = [channels EXCEPT ![l] = @ + 1]
        /\ wrapper' = [wrapper EXCEPT ![p] = l]
    BY <1>10 DEF Opened
  <2>2. l \in used /\ conn[p] = l
    BY <1>1, <2>1, RunOf
  <2>3. /\ wrapper \in [Panes -> used \cup {None}] /\ channels \in [Links -> Nat] /\ used \subseteq Links
        /\ l \in Links /\ l # None
    BY <2>2, NoneAssumption DEF FilePart, FileTypeOK, LinkPart, LinkTypeOK
  <2>4. scene.patient /\ ~scene.drops => wrapper[p] = None
    BY <1>1, <2>1 DEF FilePart, CalmRuns
  <2>5. "home" \in RunSteps
    BY DEF RunSteps
  <2>6. PICK r : /\ run' = [run EXCEPT ![n] = r]
                 /\ r # None => /\ r \in RunRecords /\ r.pane = p /\ r.gone = q.gone
                                /\ r.step = "home" /\ r.dir = q.dir
                 /\ scene.patient => r # None
    BY <1>5, <2>1, <2>5
  <2>7. r # None => r.step # "opening" /\ r.step # "list"
    BY <2>6
  <2>8. /\ run' \in [Runs -> RunRecords \cup {None}]
        /\ RunsAreSound' /\ PatientRuns' /\ CalmRuns' /\ ListingIsTabs'
    BY <1>1, <2>6, <2>7, RunFacts
  <2> HIDE DEF q, p, l
  <2>9. /\ wrapper'[p] = l /\ \A o \in Panes : o # p => wrapper'[o] = wrapper[o]
        /\ channels'[l] = channels[l] + 1 /\ \A k \in Links : k # l => channels'[k] = channels[k]
    BY <1>2, <2>1, <2>3
  <2>10. FileTypeOK'
    BY <1>1, <1>2, <2>1, <2>2, <2>3, <2>8 DEF FilePart, FileTypeOK
  <2>11. ChannelIsLive'
    BY <1>2, <2>2, <2>9 DEF FilePart, ChannelIsLive
  <2>12. ChannelsAreKept'
    <3> SUFFICES ASSUME scene.patient, ~scene.drops, NEW k \in Links, channels'[k] # 0
                 PROVE  /\ channels'[k] = 1 /\ k \in used
                        /\ k \in up => \E o \in Panes : wrapper'[o] = k
      BY <1>2 DEF ChannelsAreKept
    <3>1. CASE k # l
      <4>1. channels[k] = 1 /\ k \in used /\ (k \in up => \E o \in Panes : wrapper[o] = k)
        BY <2>9, <3>1 DEF FilePart, ChannelsAreKept
      <4>2. ASSUME k \in up PROVE \E o \in Panes : wrapper'[o] = k
        <5>1. PICK o \in Panes : wrapper[o] = k
          BY <4>1, <4>2
        <5>2. o # p
          BY <2>4, <5>1, NoneAssumption
        <5> QED BY <2>9, <5>1, <5>2
      <4> QED BY <2>9, <3>1, <4>1, <4>2
    <3>2. CASE k = l
      <4>1. \A o \in Panes : wrapper[o] # l
        <5> SUFFICES ASSUME NEW o \in Panes, wrapper[o] = l PROVE FALSE
          OBVIOUS
        <5>1. conn[o] = l
          BY <2>3 DEF FilePart, ChannelIsLive
        <5>2. o = p
          BY <1>2, <2>2, <2>3, <5>1 DEF LinkPart, LinksApart
        <5> QED BY <2>3, <2>4, <5>2
      <4>2. channels[l] = 0
        BY <2>1, <2>3, <4>1 DEF FilePart, ChannelsAreKept
      <4> QED BY <1>2, <2>2, <2>9, <3>2, <4>2
    <3> QED BY <3>1, <3>2
  <2> QED BY <2>8, <2>10, <2>11, <2>12 DEF FilePart
<1> QED BY <1>6, <1>7, <1>8, <1>9, <1>10 DEF FileReplies

(* The step of any service.                                                *)
LEMMA FilesStep == LinkPart /\ FilePart /\ [Next]_vars => FilePart'
<1> SUFFICES ASSUME LinkPart, FilePart, [Next]_vars PROVE FilePart'
  OBVIOUS
<1>1. ASSUME UNCHANGED lvars, UNCHANGED filevars PROVE FilePart'
  <2>1. /\ scene' = scene /\ used' = used /\ up' = up /\ conn' = conn /\ active' = active
        /\ wrapper' = wrapper /\ channels' = channels /\ panel' = panel /\ run' = run
        /\ listing' = listing /\ error' = error
    BY <1>1 DEF lvars, filevars
  <2>2. FileTypeOK' /\ RunsAreSound'
    BY <2>1 DEF FilePart, FileTypeOK, RunsAreSound, Uses
  <2>3. PatientRuns' /\ CalmRuns' /\ ChannelsAreKept'
    BY <2>1 DEF FilePart, PatientRuns, CalmRuns, ChannelsAreKept
  <2>4. ListingIsTabs' /\ ChannelIsLive'
    BY <2>1 DEF FilePart, ListingIsTabs, ChannelIsLive, Loading
  <2> QED BY <2>2, <2>3, <2>4 DEF FilePart
<1>2. ASSUME NEW p \in Panes, Spawned(p) PROVE FilePart'
  BY <1>1, <1>2 DEF Spawned
<1>3. CASE TunnelStep \/ RecordingStep \/ StatsTicks \/ StatsFetched \/ StatsFails
  BY <1>1, <1>3 DEF TunnelStep, RecordingStep, StatsTicks, StatsFetched, StatsFails, Others
<1>4. CASE FileUser
  BY <1>4, ToggleStep, ListStep DEF FileUser
<1>5. CASE UNCHANGED vars
  BY <1>1, <1>5 DEF vars
<1> QED BY <1>2, <1>3, <1>4, <1>5, FilesView, RepliesStep DEF Next

-----------------------------------------------------------------------------
(* Stats.                                                                  *)

LEMMA StatsBegin == Init => StatsPart
BY DEF Init, StatsInit, StatsPart, StatsTypeOK, FetchIsTargets, StatsAreTargets

LEMMA TargetFacts ==
  ASSUME LinkPart
  PROVE  /\ Target(active, conn) \in Panes \cup {Local, None}
         /\ Target(active, conn) \in Panes => conn[Target(active, conn)] \in Links
BY LocalAssumption, NoneAssumption DEF Target, LinkPart, LinkTypeOK

(* A poll of a target.                                                     *)
LEMMA PollFacts ==
  ASSUME NEW t \in Panes \cup {Local}, NEW c \in [Panes -> Links \cup {None}]
  PROVE  LET f == [of |-> t, link |-> IF t = Local THEN None ELSE c[t], stale |-> FALSE]
         IN f \in Fetches /\ f # None /\ f.of = t /\ f.stale = FALSE
<1> DEFINE l == IF t = Local THEN None ELSE c[t]
           f == [of |-> t, link |-> l, stale |-> FALSE]
<1>1. l \in Links \cup {None}
  OBVIOUS
<1> HIDE DEF l
<1>2. f \in Fetches
  BY <1>1 DEF Fetches
<1>3. f.of = t /\ f.stale = FALSE
  OBVIOUS
<1> HIDE DEF f
<1>4. f # None
  BY <1>2, LocalAssumption
<1> QED BY <1>2, <1>3, <1>4 DEF f, l

(* The tab or its connection changes: what is shown and what is fetched are*)
(* of the target, or dropped and cancelled.                                *)
LEMMA StatsView ==
  ASSUME LinkPart, StatsPart, LinkPart', Rely, Views PROVE StatsPart'
<1> DEFINE t == Target(active, conn)
           u == Target(active', conn')
<1>1. /\ scene' = scene /\ (Uses("stats") <=> Uses("stats")')
      /\ u \in Panes \cup {Local, None} /\ conn' \in [Panes -> Links \cup {None}]
  <2>1. u \in Panes \cup {Local, None}
    BY LocalAssumption, NoneAssumption DEF Target, LinkPart, LinkTypeOK
  <2> QED BY <2>1 DEF Rely, Uses, LinkPart, LinkTypeOK
<1>2. CASE ~Uses("stats")
  <2>1. fetch' = fetch /\ latest' = latest /\ fetch = None /\ latest = None
    BY <1>2 DEF Views, statvars, StatsPart, FetchIsTargets
  <2> QED BY <1>1, <2>1 DEF StatsPart, StatsTypeOK, FetchIsTargets, StatsAreTargets
<1>3. CASE Uses("stats") /\ t = u
  <2>1. fetch' = fetch /\ latest' = latest
    BY <1>3 DEF Views, OnTarget, statvars
  <2> QED BY <1>1, <1>3, <2>1 DEF StatsPart, StatsTypeOK, FetchIsTargets, StatsAreTargets
<1>4. CASE Uses("stats") /\ t # u
  <2>1. latest' = None /\ IF fetch # None THEN fetch' = [fetch EXCEPT !.stale = TRUE] ELSE Poll(u, conn')
    BY <1>4 DEF Views, OnTarget
  <2>2. CASE fetch # None
    <3>1. fetch' = [fetch EXCEPT !.stale = TRUE] /\ fetch \in Fetches
      BY <2>1, <2>2 DEF StatsPart, StatsTypeOK
    <3>2. fetch' \in Fetches /\ fetch'.stale = TRUE
      BY <3>1 DEF Fetches
    <3> QED BY <1>1, <1>4, <2>1, <3>2 DEF StatsPart, StatsTypeOK, FetchIsTargets, StatsAreTargets
  <2>3. CASE fetch = None /\ u = None
    <3>1. fetch' = fetch
      BY <2>1, <2>3 DEF Poll
    <3> QED BY <1>1, <1>4, <2>1, <2>3, <3>1
            DEF StatsPart, StatsTypeOK, FetchIsTargets, StatsAreTargets
  <2>4. CASE fetch = None /\ u # None
    <3>1. fetch' = [of |-> u, link |-> IF u = Local THEN None ELSE conn'[u], stale |-> FALSE]
      BY <2>1, <2>4 DEF Poll
    <3>2. \E v \in Panes \cup {Local}, c \in [Panes -> Links \cup {None}] : v = u /\ c = conn'
      BY <1>1, <2>4
    <3>3. fetch' \in Fetches /\ fetch' # None /\ fetch'.of = u /\ fetch'.stale = FALSE
      BY <3>1, <3>2, PollFacts
    <3> HIDE DEF u
    <3>4. FetchIsTargets'
      BY <1>1, <1>4, <3>3 DEF FetchIsTargets, u
    <3> QED BY <2>1, <3>3, <3>4 DEF StatsPart, StatsTypeOK, StatsAreTargets
  <2> QED BY <2>2, <2>3, <2>4
<1> QED BY <1>2, <1>3, <1>4

(* The step of any service.                                                *)
LEMMA StatsStep == LinkPart /\ StatsPart /\ [Next]_vars => StatsPart'
<1> SUFFICES ASSUME LinkPart, StatsPart, [Next]_vars PROVE StatsPart'
  OBVIOUS
<1> DEFINE t == Target(active, conn)
<1>1. ASSUME UNCHANGED lvars, UNCHANGED statvars PROVE StatsPart'
  <2>1. scene' = scene /\ active' = active /\ conn' = conn /\ fetch' = fetch /\ latest' = latest
    BY <1>1 DEF lvars, statvars
  <2> QED BY <2>1 DEF StatsPart, StatsTypeOK, FetchIsTargets, StatsAreTargets, Uses
<1>2. ASSUME NEW p \in Panes, Spawn(p) \/ LinkDrops(p) \/ Kill(p) \/ Switch(p) PROVE StatsPart'
  <2>1. Views /\ LinkSteps
    BY <1>2, ViewSteps DEF LinkSteps
  <2> QED BY <2>1, LinkStepFacts, StatsView
<1>3. ASSUME NEW p \in Panes, Spawned(p) PROVE StatsPart'
  BY <1>1, <1>3 DEF Spawned
<1>4. CASE TunnelStep \/ RecordingStep \/ FileUser \/ \E n \in Runs : FileReplies(n)
  BY <1>1, <1>4 DEF TunnelStep, RecordingStep, FileUser, FileReplies
<1>5. CASE StatsTicks
  <2>1. /\ Uses("stats") /\ t # None /\ Poll(t, conn) /\ latest' = latest
        /\ scene' = scene /\ active' = active /\ conn' = conn
    BY <1>5 DEF StatsTicks, Ticks, Others, lvars
  <2>2. fetch' = [of |-> t, link |-> IF t = Local THEN None ELSE conn[t], stale |-> FALSE]
    BY <2>1 DEF Poll
  <2>3. t \in Panes \cup {Local} /\ conn \in [Panes -> Links \cup {None}]
    BY <2>1, TargetFacts DEF LinkPart, LinkTypeOK
  <2>4. \E v \in Panes \cup {Local}, c \in [Panes -> Links \cup {None}] : v = t /\ c = conn
    BY <2>3
  <2>5. fetch' \in Fetches /\ fetch' # None /\ fetch'.of = t /\ fetch'.stale = FALSE
    BY <2>2, <2>4, PollFacts
  <2> QED BY <2>1, <2>5 DEF StatsPart, StatsTypeOK, FetchIsTargets, StatsAreTargets, Uses
<1>6. CASE StatsFetched \/ StatsFails
  <2>1. /\ fetch # None /\ fetch' = None
        /\ latest' = latest \/ (~fetch.stale /\ latest' = fetch.of)
        /\ scene' = scene /\ active' = active /\ conn' = conn
    BY <1>6 DEF StatsFetched, StatsFails, Fetched, FetchFails, Sample, Others, lvars
  <2>2. fetch \in Fetches /\ (~fetch.stale => fetch.of = t) /\ Uses("stats")
    BY <2>1 DEF StatsPart, StatsTypeOK, FetchIsTargets
  <2>3. fetch.of \in Panes \cup {Local}
    BY <2>2 DEF Fetches
  <2> QED BY <2>1, <2>2, <2>3 DEF StatsPart, StatsTypeOK, FetchIsTargets, StatsAreTargets, Uses
<1>7. CASE UNCHANGED vars
  BY <1>1, <1>7 DEF vars
<1> QED BY <1>2, <1>3, <1>4, <1>5, <1>6, <1>7 DEF Next

-----------------------------------------------------------------------------
(* The invariant holds from the start and in every step: the connections'  *)
(* part is kept whatever the services do, and each service's part relies on*)
(* it alone, but for the recordings', which the auto-start precedes.       *)
THEOREM ResourcesInductive == Spec => []IInv
<1>1. Init => IInv
  BY LinkTyped, TunnelsBegin, RecordingsBegin, FilesBegin, StatsBegin DEF IInv
<1>2. IInv /\ [Next]_vars => IInv'
  BY StepsOfLinks, LinkStepFacts, TunnelsStep, RecordingsStep, FilesStep, StatsStep DEF IInv
<1> QED BY <1>1, <1>2, PTL DEF Spec

(* A port that listens or takes a forwarded connection can be closed from  *)
(* the list, no tunnel in the list outlives its pane, and one shown as     *)
(* active has a client, in every scene (TunnelService.start, stop and      *)
(* stopForTab, autoStartTunnels, terminal:kill).                           *)
THEOREM TunnelsAlwaysAgree == Spec => []TunnelsAgree
<1>1. IInv => TunnelsAgree
  <2> SUFFICES ASSUME IInv PROVE TunnelsAgree
    OBVIOUS
  <2>1. PortsAreOwned /\ TunnelsEndWithPane
    BY DEF IInv, TunnelPart
  <2>2. ActiveTunnelIsLive
    <3> SUFFICES ASSUME ~scene.drops, NEW t \in Tunnels, running[t] # None
                 PROVE  rt[running[t]].link \in up
      BY DEF ActiveTunnelIsLive
    <3> DEFINE r == rt[running[t]]
    <3>1. r \in StartRecords
      BY RunningRecord, RecordOf DEF IInv
    <3>2. r.link = conn[r.pane] /\ r.pane \in Panes /\ r.link \in Links
      BY <3>1 DEF IInv, TunnelPart, StartsAreLive, StartRecords
    <3> HIDE DEF r
    <3>3. r.link \in up
      BY <3>2, NoneAssumption DEF IInv, LinkPart, LinkTypeOK
    <3> QED BY <3>3 DEF r
  <2> QED BY <2>1, <2>2 DEF TunnelsAgree
<1> QED BY <1>1, ResourcesInductive, PTL

(* A row without a duration is a recording under way, a patient user's     *)
(* recording has its row, its file and its pane, and the button tells what *)
(* goes on once the last click was answered (RecordingService.start and    *)
(* stop, toggleRecord, maybeAutoRecord).                                   *)
THEOREM RecordingsAlwaysAgree == Spec => []RecordingsAgree
<1>1. IInv => RecordingsAgree
  BY DEF IInv, RecordingPart, RecordsAreSound, ButtonIsSound, RecordingsAgree
<1> QED BY <1>1, ResourcesInductive, PTL

(* The panel and the monitor show the active tab's machine, over the one   *)
(* channel of its connection (usePane, SftpService.wrapper, StatsPoller).  *)
THEOREM ShownAlwaysTabs == Spec => []ShownIsTabs
<1>1. IInv => ShownIsTabs
  <2> SUFFICES ASSUME IInv PROVE ShownIsTabs
    OBVIOUS
  <2>1. RecordingTypeOK
    BY DEF IInv, RecordingPart, RecordsAreSound, ButtonIsSound, RecordingTypeOK
  <2>2. TypeOK
    BY <2>1 DEF IInv, LinkPart, TunnelPart, FilePart, StatsPart, TypeOK
  <2>3. OneChannel
    <3>1. \A l \in Links : channels[l] \in Nat
      BY DEF IInv, FilePart, FileTypeOK
    <3>2. scene.patient /\ ~scene.drops => \A l \in Links : channels[l] # 0 => channels[l] = 1
      BY DEF IInv, FilePart, ChannelsAreKept
    <3> QED BY <3>1, <3>2 DEF OneChannel
  <2> QED BY <2>2, <2>3 DEF IInv, FilePart, StatsPart, ShownIsTabs
<1> QED BY <1>1, ResourcesInductive, PTL

=============================================================================
