------------------------ MODULE RemoteDesktopProofs -------------------------
(***************************************************************************)
(* Proofs about RemoteDesktop, for every set of panes, attempts and scenes:*)
(* what is open is of a pane's present attempt, and the bridge joins two   *)
(* halves of one handshake.                                                *)
(*                                                                         *)
(* The invariant goes by what there is one of per attempt. What a pane     *)
(* shows is where its present attempt is (Attempts); an attempt that awaits*)
(* the server is the last one its pane called it for, unless it was given  *)
(* up (Hosted); a token, a prompt and a row are the present attempt's      *)
(* unless a hasty user's call came back late (Tokens, LogRows); and a link *)
(* needs a viewer, and with VNC a token (Links).                           *)
(***************************************************************************)
EXTENDS RemoteDesktop, TLAPS

Statuses == {"none", "connecting", "connected", "disconnected", "error", "native",
             "credentials", "closed"}
Link == [step : Steps, sub : Nat, said : BOOLEAN, viewer : Nat, server : Nat]
MaybeRun == Runs \cup {None}

Shapes ==
  /\ scene \in Scenes /\ host \in {"down", "starting", "up", "failed"}
  /\ status \in [Panes -> Statuses] /\ cur \in [Panes -> MaybeRun]
  /\ run \in [Runs -> RunRecords \cup {None}]
  /\ waiting \in [Panes -> MaybeRun]
  /\ targets \subseteq Runs /\ byTab \in [Panes -> MaybeRun]
  /\ pending \in [Panes -> MaybeRun] /\ link \in [Runs -> Link]
  /\ logs \in [Panes -> MaybeRun] /\ rows \subseteq Runs

-----------------------------------------------------------------------------
(* The attempts.                                                           *)

(* What a pane shows while its attempt is at a step.                       *)
ShownAt(step) ==
  IF step = "on" THEN {"connected"}
  ELSE IF step = "asked" THEN {"credentials"}
  ELSE IF step = "over" THEN {"disconnected", "error", "native"}
  ELSE {"connecting"}

Given(n) == run[n] # None /\ run[n].disposed
Present(n) == run[n] # None /\ ~run[n].disposed

Attempts ==
  /\ \A p \in Panes : cur[p] # None =>
       Present(cur[p]) /\ run[cur[p]].pane = p /\ status[p] \in ShownAt(run[cur[p]].step)
  /\ \A p \in Panes : (cur[p] = None) = (status[p] \in {"none", "closed"})
  /\ \A n \in Runs : Present(n) => cur[run[n].pane] = n
  /\ scene.patient => \A n \in Runs : Given(n) => run[n].step = "over"
  /\ \A n \in Runs : In(n, "probe") => ~scene.vnc

-----------------------------------------------------------------------------
(* The server, and those who wait for it.                                  *)

Served == {"opened", "importing"} \cup Viewing

Hosted ==
  /\ Waiters # {} => host = "starting"
  /\ \A n \in Waiters : Present(n) => waiting[run[n].pane] = n
  /\ \A p \in Panes : waiting[p] # None => waiting[p] \in Waiters /\ run[waiting[p]].pane = p
  /\ ~scene.changes => guacd = "g1" /\ (~scene.vnc /\ host # "down" => builtFor = "g1")
  /\ scene.vnc \/ ~scene.changes =>
       /\ scene.started => host = "up"
       /\ \A n \in Runs : run[n] # None /\ run[n].step \in Served => host = "up"

-----------------------------------------------------------------------------
(* Tokens and prompts, and the rows of the log.                            *)

Tokens ==
  /\ \A p \in Panes : byTab[p] # None => byTab[p] \in targets /\ run[byTab[p]].pane = p
  /\ \A n \in targets :
       /\ run[n] # None /\ scene.vnc /\ host = "up"
       /\ Present(n) => byTab[run[n].pane] = n
       /\ scene.started \/ scene.patient => Present(n)
  /\ \A p \in Panes : pending[p] # None => pending[p] = cur[p] /\ byTab[p] = cur[p]

LogRows ==
  (scene.started /\ ~scene.changes) \/ scene.patient =>
    \A n \in rows : Present(n) /\ logs[run[n].pane] = n

-----------------------------------------------------------------------------
(* The links.                                                              *)

Links ==
  \A n \in Runs :
    /\ link[n].step # "cut" => run[n] # None /\ run[n].step \in Viewing
    /\ scene.vnc /\ Given(n) =>
         /\ ~Open(link[n])
         /\ run[n].step \in {"importing"} \cup Viewing => n \notin targets
    /\ scene.vnc /\ Open(link[n]) => byTab[run[n].pane] = n

(* Up to VeNCrypt there is no subtype; past it, there is one the bridge can*)
(* take, and past the certificate somebody has vouched for it.             *)
Vouched(l) == scene.server.ca \/ l.said \/ pinned = scene.server.cert

LinkIsSound(l) ==
  /\ l.step \in {"ws", "dial", "version", "types", "vencrypt"} => l.sub = 0
  /\ l.step \in {"tls", "cert", "prompt", "offer"} => l.sub \in {260, 261, 262}
  /\ l.step = "offer" => Vouched(l)
  /\ l.step = "piped" => /\ l.viewer = l.server
                         /\ l.sub # 0 => l.sub \in {260, 261, 262} /\ Vouched(l)

Handshakes == \A n \in Runs : LinkIsSound(link[n])

IInv == Shapes /\ Attempts /\ Hosted /\ Tokens /\ LogRows /\ Links /\ Handshakes

-----------------------------------------------------------------------------
(* What the scene says.                                                    *)
LEMMA SceneFacts ==
  ASSUME scene \in Scenes
  PROVE  /\ {scene.vnc, scene.patient, scene.started, scene.changes} \subseteq BOOLEAN
         /\ scene.cands \in Nat
         /\ scene.server.types \subseteq Nat /\ scene.server.subs \subseteq Nat
BY SceneAssumption

(* A record of an attempt that goes to another step.                       *)
LEMMA RecordMoves ==
  \A r \in RunRecords, s \in RunSteps :
    LET q == [r EXCEPT !.step = s]
    IN /\ q \in RunRecords /\ q # None
       /\ q.step = s /\ q.pane = r.pane /\ q.disposed = r.disposed /\ q.cands = r.cands
BY NoneAssumption DEF RunRecords

LEMMA StepNames ==
  /\ Viewing \subseteq RunSteps /\ Viewing \subseteq Served
  /\ \A s \in {"opening", "over", "vault", "probe", "launch", "opened", "refused", "importing"} :
       s \in RunSteps /\ s \notin Viewing
  /\ \A s \in {"opening", "over", "vault", "probe", "launch", "refused"} : s \notin Served
  /\ {"opened", "importing", "live"} \subseteq Served
BY DEF RunSteps, Viewing, Served

(* A link that is cut, and one that goes to another step.                  *)
LEMMA LinkMovesTo ==
  \A l \in Link, s \in Steps :
    /\ At(l, s) \in Link /\ At(l, s).step = s
    /\ At(l, s).sub = l.sub /\ At(l, s).said = l.said
BY DEF Link, At

LEMMA CutLink ==
  \A l \in Link :
    /\ Cut(l) \in Link /\ Cut(l).step = "cut" /\ ~Open(Cut(l)) /\ LinkIsSound(Cut(l))
<1>1. "cut" \in Steps
  BY DEF Steps
<1>2. QED
  BY <1>1, LinkMovesTo DEF Cut, Open, LinkIsSound

LEMMA FreshLink == NewLink \in Link /\ LinkIsSound(NewLink) /\ ~Open(NewLink)
BY DEF NewLink, Link, Steps, LinkIsSound, Open

LEMMA CutAllFacts ==
  ASSUME link \in [Runs -> Link], NEW S
  PROVE  /\ CutAll(S) \in [Runs -> Link]
         /\ \A n \in Runs : /\ n \in S => CutAll(S)[n] = Cut(link[n])
                            /\ n \notin S => CutAll(S)[n] = link[n]
BY CutLink DEF CutAll

LEMMA InitIInv == Init => IInv
<1> SUFFICES ASSUME Init PROVE IInv
  OBVIOUS
<1>1. NewLink \in Link /\ \A n \in Runs : link[n] = Cut(NewLink)
  BY FreshLink DEF Init
<1>2. link \in [Runs -> Link] /\ \A n \in Runs : link[n].step = "cut" /\ LinkIsSound(link[n])
  BY <1>1, CutLink DEF Init
<1>3. Shapes
  BY <1>2 DEF Init, Shapes, Statuses, MaybeRun
<1>4. \A n \in Runs : run[n] = None
  BY DEF Init
<1>5. Attempts
  BY <1>4 DEF Init, Attempts, Given, Present, In
<1>6. Waiters = {}
  BY <1>4 DEF Waiters, In
<1>7. Hosted
  BY <1>4, <1>6 DEF Init, Hosted
<1>8. Tokens /\ LogRows
  BY DEF Init, Tokens, LogRows
<1>9. Links
  BY <1>2, <1>4 DEF Links, Open, Given
<1>10. QED
  BY <1>2, <1>3, <1>5, <1>7, <1>8, <1>9 DEF IInv, Handshakes

-----------------------------------------------------------------------------
(* An attempt that goes on, by itself or because its pane does: what the   *)
(* main process keeps is left alone. It is not given up or at its end if   *)
(* the user is a patient one, since such a one is at its end.              *)
LEMMA RunMoves ==
  ASSUME IInv, NEW n \in Runs, run[n] # None, run[n].step \notin {"opening", "over"},
         NEW r \in RunRecords, run' = [run EXCEPT ![n] = r],
         r.pane = run[n].pane, r.disposed = run[n].disposed, r.step # "opening",
         r.step = "probe" => ~scene.vnc,
         r.step \in Served => run[n].step \in Served,
         r.disposed /\ r.step \in {"importing"} \cup Viewing
           => run[n].step \in {"importing"} \cup Viewing,
         NEW l \in Link, link' = [link EXCEPT ![n] = l], LinkIsSound(l),
         l.step # "cut" => r.step \in Viewing, Open(l) => Open(link[n]),
         status' \in [Panes -> Statuses],
         \A p \in Panes : run[n].disposed \/ p # run[n].pane => status'[p] = status[p],
         ~run[n].disposed => status'[run[n].pane] \in ShownAt(r.step),
         UNCHANGED <<scene, cur, mainvars>>
  PROVE  IInv'
<1>0. /\ Shapes /\ Attempts /\ Hosted /\ Tokens /\ LogRows /\ Links /\ Handshakes
      /\ UNCHANGED <<scene, cur, host, builtFor, guacd, waiting, targets, byTab, pending,
                     pinned, logs, rows>>
  BY DEF IInv, mainvars
<1>1. /\ r # None /\ run[n] \in RunRecords /\ run[n].pane \in Panes /\ n # None
  BY <1>0, NoneAssumption DEF Shapes, RunRecords
<1>2. /\ run'[n] = r /\ link'[n] = l
      /\ \A m \in Runs : m # n => run'[m] = run[m] /\ link'[m] = link[m]
  BY <1>0 DEF Shapes
<1>3. Shapes'
  BY <1>0 DEF Shapes
<1>4. \A m \in Runs :
        /\ (run'[m] = None) = (run[m] = None)
        /\ run[m] # None => run'[m].pane = run[m].pane
        /\ Given(m)' = Given(m) /\ Present(m)' = Present(m)
  BY <1>1, <1>2 DEF Given, Present
<1>5. Attempts'
  <2>1. ASSUME NEW p \in Panes, cur[p] # None
        PROVE  /\ Present(cur[p])' /\ run'[cur[p]].pane = p
               /\ status'[p] \in ShownAt(run'[cur[p]].step)
    <3>1. cur[p] \in Runs /\ Present(cur[p]) /\ run[cur[p]].pane = p
          /\ status[p] \in ShownAt(run[cur[p]].step)
      BY <1>0, <2>1 DEF Shapes, MaybeRun, Attempts
    <3>2. Present(cur[p])' /\ run'[cur[p]].pane = p
      BY <1>4, <3>1, <1>0 DEF Present
    <3>3. CASE cur[p] = n
      BY <1>2, <3>1, <3>2, <3>3 DEF Present
    <3>4. CASE cur[p] # n
      <4>1. run[n].disposed \/ p # run[n].pane
        BY <1>0, <3>1, <3>4 DEF Attempts, Present
      <4>2. QED
        BY <1>2, <3>1, <3>2, <3>4, <4>1
    <3>5. QED
      BY <3>3, <3>4
  <2>2. ASSUME NEW p \in Panes
        PROVE  (cur[p] = None) = (status'[p] \in {"none", "closed"})
    <3>1. CASE run[n].disposed \/ p # run[n].pane
      BY <1>0, <3>1 DEF Attempts
    <3>2. CASE ~run[n].disposed /\ p = run[n].pane
      <4>1. cur[p] = n
        BY <1>0, <3>2 DEF Attempts, Present
      <4>2. QED
        BY <1>1, <3>2, <4>1 DEF ShownAt
    <3>3. QED
      BY <3>1, <3>2
  <2>3. \A m \in Runs : Present(m)' => cur[run'[m].pane] = m
    BY <1>0, <1>4 DEF Attempts, Present
  <2>4. scene.patient => \A m \in Runs : Given(m)' => run'[m].step = "over"
    BY <1>0, <1>2, <1>4 DEF Attempts, Given
  <2>5. \A m \in Runs : In(m, "probe")' => ~scene.vnc
    BY <1>0, <1>2, <1>4 DEF Attempts, In
  <2>6. QED
    BY <1>0, <2>1, <2>2, <2>3, <2>4, <2>5 DEF Attempts
<1>6. Waiters' = Waiters /\ \A m \in Waiters : m # n
  BY <1>1, <1>2 DEF Waiters, In
<1>7. Hosted'
  <2>1. \A p \in Panes : waiting[p] # None => waiting[p] \in Waiters /\ run'[waiting[p]].pane = p
    BY <1>0, <1>2, <1>6 DEF Hosted, Waiters
  <2>2. \A m \in Waiters : Present(m)' => waiting[run'[m].pane] = m
    BY <1>0, <1>4, <1>6 DEF Hosted, Present, Waiters
  <2>3. \A m \in Runs : run'[m] # None /\ run'[m].step \in Served =>
                          run[m] # None /\ run[m].step \in Served
    BY <1>2, <1>4
  <2>4. QED
    BY <1>0, <1>6, <2>1, <2>2, <2>3 DEF Hosted
<1>8. Tokens' /\ LogRows'
  <2>1. \A p \in Panes : byTab[p] # None => byTab[p] \in targets /\ run'[byTab[p]].pane = p
    BY <1>0, <1>4 DEF Tokens, Shapes
  <2>2. \A m \in targets : run'[m] # None /\ run'[m].pane = run[m].pane /\ Present(m)' = Present(m)
    BY <1>0, <1>4 DEF Tokens, Shapes
  <2>3. Tokens'
    BY <1>0, <2>1, <2>2 DEF Tokens
  <2>4. LogRows'
    BY <1>0, <1>4 DEF LogRows, Shapes, Present
  <2>5. QED
    BY <2>3, <2>4
<1>9. Links'
  <2>1. ASSUME NEW m \in Runs
        PROVE  /\ link'[m].step # "cut" => run'[m] # None /\ run'[m].step \in Viewing
               /\ Open(link'[m]) => Open(link[m])
               /\ Given(m)' /\ run'[m].step \in {"importing"} \cup Viewing =>
                    Given(m) /\ run[m].step \in {"importing"} \cup Viewing
    <3>1. CASE m = n
      BY <1>1, <1>2, <3>1 DEF Given
    <3>2. CASE m # n
      BY <1>0, <1>2, <1>4, <3>2 DEF Links
    <3>3. QED
      BY <3>1, <3>2
  <2>2. \A m \in Runs : Open(link[m]) => link[m].step # "cut"
    BY DEF Open
  <2>3. QED
    BY <1>0, <1>4, <2>1, <2>2 DEF Links
<1>10. Handshakes'
  <2>1. \A m \in Runs : LinkIsSound(link'[m])
    BY <1>0, <1>2 DEF Handshakes
  <2>2. QED
    BY <1>0, <2>1 DEF Handshakes, LinkIsSound, Vouched
<1>11. QED
  BY <1>3, <1>5, <1>7, <1>8, <1>9, <1>10 DEF IInv

(* A link that goes on while its attempt stays: with VNC it needs its      *)
(* token. A certificate to be answered is its pane's prompt.               *)
LEMMA LinkMoves ==
  ASSUME IInv, NEW n \in Runs, run[n] # None,
         NEW l \in Link, l.step # "cut" => run[n].step \in Viewing, link' = [link EXCEPT ![n] = l], LinkIsSound(l)',
         scene.vnc /\ Open(l) => byTab[run[n].pane] = n /\ Present(n),
         \/ pending' = pending
         \/ /\ pending' = [pending EXCEPT ![run[n].pane] = n]
            /\ byTab[run[n].pane] = n /\ Present(n)
         \/ \E p \in Panes : pending' = [pending EXCEPT ![p] = None],
         pinned' \in {pinned, scene.server.cert},
         UNCHANGED <<scene, status, cur, run, host, builtFor, guacd, waiting, targets, byTab,
                     logs, rows>>
  PROVE  IInv'
<1>0. /\ Shapes /\ Attempts /\ Hosted /\ Tokens /\ LogRows /\ Links /\ Handshakes
  BY DEF IInv
<1>1. /\ link'[n] = l /\ \A m \in Runs : m # n => link'[m] = link[m]
      /\ run[n].pane \in Panes
  BY <1>0 DEF Shapes, RunRecords
<1>2. Shapes'
  BY <1>0 DEF Shapes, MaybeRun
<1>3. \A m \in Runs : Given(m)' = Given(m) /\ Present(m)' = Present(m)
  BY DEF Given, Present
<1>4. Attempts' /\ Hosted' /\ LogRows'
  <2>1. Waiters' = Waiters
    BY DEF Waiters, In
  <2>2. Attempts'
    BY <1>0, <1>3 DEF Attempts, Given, Present, In
  <2>3. Hosted'
    BY <1>0, <1>3, <2>1 DEF Hosted, Waiters
  <2>4. LogRows'
    BY <1>0, <1>3 DEF LogRows, Shapes
  <2>5. QED
    BY <2>2, <2>3, <2>4
<1>5. Tokens'
  <2>1. \A p \in Panes : pending'[p] # None => pending'[p] = cur[p] /\ byTab[p] = cur[p]
    BY <1>0, <1>1 DEF Tokens, Attempts, Shapes
  <2>2. \A m \in targets : Present(m)' = Present(m)
    BY <1>0, <1>3 DEF Shapes
  <2>3. QED
    BY <1>0, <2>1, <2>2 DEF Tokens
<1>6. Links'
  <2>1. ~(Given(n) /\ Present(n))
    BY DEF Given, Present
  <2>2. QED
    BY <1>0, <1>1, <1>3, <2>1 DEF Links
<1>7. Handshakes'
  <2>1. \A m \in Runs : m # n => LinkIsSound(link[m])'
    <3> SUFFICES ASSUME NEW m \in Runs, m # n PROVE LinkIsSound(link[m])'
      OBVIOUS
    <3>1. LinkIsSound(link[m]) /\ link'[m] = link[m]
      BY <1>0, <1>1 DEF Handshakes
    <3>2. QED
      BY <3>1 DEF LinkIsSound, Vouched
  <2>2. QED
    BY <1>1, <2>1 DEF Handshakes
<1>8. QED
  BY <1>2, <1>4, <1>5, <1>6, <1>7 DEF IInv

-----------------------------------------------------------------------------
(* The steps of an attempt that leave the main process alone.              *)

(* The steps the pane follows without showing anything new.                *)
LEMMA QuietMove ==
  ASSUME IInv, NEW n \in Runs, run[n] # None, run[n].step \notin {"opening", "over"},
         NEW r \in RunRecords, run' = [run EXCEPT ![n] = r],
         r.pane = run[n].pane, r.disposed = run[n].disposed, r.step # "opening",
         r.step = "probe" => ~scene.vnc,
         r.step \in Served => run[n].step \in Served,
         r.disposed /\ r.step \in {"importing"} \cup Viewing
           => run[n].step \in {"importing"} \cup Viewing,
         ~run[n].disposed => ShownAt(r.step) = ShownAt(run[n].step),
         NEW l \in Link, link' = [link EXCEPT ![n] = l], LinkIsSound(l),
         l.step # "cut" => r.step \in Viewing, Open(l) => Open(link[n]),
         UNCHANGED <<scene, status, cur, mainvars>>
  PROVE  IInv'
<1>0. Shapes /\ Attempts /\ run[n] \in RunRecords
  BY DEF IInv, Shapes
<1>1. status' \in [Panes -> Statuses] /\ run[n].pane \in Panes
  BY <1>0 DEF Shapes, RunRecords
<1>2. ASSUME ~run[n].disposed PROVE status[run[n].pane] \in ShownAt(run[n].step)
  <2>1. Present(n) /\ n # None
    BY <1>2, NoneAssumption DEF Present
  <2>2. cur[run[n].pane] = n
    BY <1>0, <2>1 DEF Attempts
  <2>3. QED
    BY <1>0, <1>1, <2>1, <2>2 DEF Attempts
<1>3. QED
  BY <1>1, <1>2, RunMoves

(* The link stays as it is while an attempt has no viewer yet.             *)
LEMMA NoViewerNoLink ==
  ASSUME IInv, NEW n \in Runs, run[n] = None \/ run[n].step \notin Viewing
  PROVE  /\ link[n] \in Link /\ link[n].step = "cut" /\ ~Open(link[n]) /\ LinkIsSound(link[n])
         /\ link = [link EXCEPT ![n] = link[n]]
BY DEF IInv, Shapes, Links, Handshakes, Open

(* An attempt goes to a step that is neither served nor waited for, and    *)
(* says so if its pane is there.                                           *)
LEMMA GoesBeforeViewing ==
  ASSUME IInv, NEW n \in Runs, NEW s \in RunSteps \ (Viewing \cup {"opening"}),
         run[n] # None, run[n].step \notin Viewing \cup {"opening", "over"},
         s \in Served => run[n].step \in Served,
         run[n].disposed /\ s = "importing" => run[n].step = "importing",
         s = "probe" => ~scene.vnc,
         Goes(n, s), UNCHANGED <<scene, cur, link, mainvars>>,
         \/ UNCHANGED status /\ (run[n].disposed \/ s \notin Viewing \cup {"over"})
         \/ \E t \in ShownAt(s) : Update(n, t)
  PROVE  IInv'
<1>0. Shapes /\ run[n] \in RunRecords /\ run[n].pane \in Panes
  BY DEF IInv, Shapes, RunRecords
<1> DEFINE r == [run[n] EXCEPT !.step = s]
<1>1. /\ r \in RunRecords /\ r.step = s /\ r.pane = run[n].pane
      /\ r.disposed = run[n].disposed /\ run' = [run EXCEPT ![n] = r]
  BY <1>0, RecordMoves DEF Goes, Shapes
<1>2. /\ link[n] \in Link /\ link' = [link EXCEPT ![n] = link[n]]
      /\ LinkIsSound(link[n]) /\ link[n].step = "cut"
  BY NoViewerNoLink
<1> HIDE DEF r
<1>3. CASE UNCHANGED status /\ (run[n].disposed \/ s \notin Viewing \cup {"over"})
  <2>1. ~run[n].disposed => ShownAt(s) = ShownAt(run[n].step)
    BY <1>3 DEF ShownAt, Viewing
  <2>2. QED
    BY <1>0, <1>1, <1>2, <1>3, <2>1, QuietMove
<1>4. ASSUME NEW t \in ShownAt(s), Update(n, t) PROVE IInv'
  <2>1. t \in Statuses
    BY DEF ShownAt, Statuses
  <2>2. /\ status' \in [Panes -> Statuses]
        /\ \A p \in Panes : run[n].disposed \/ p # run[n].pane => status'[p] = status[p]
        /\ ~run[n].disposed => status'[run[n].pane] \in ShownAt(s)
    BY <1>0, <1>4, <2>1 DEF Update, Shapes
  <2>3. ~run[n].disposed => status'[run[n].pane] \in ShownAt(r.step)
    BY <1>1, <2>2
  <2>4. /\ r.step \in Served => run[n].step \in Served
        /\ r.disposed /\ r.step \in {"importing"} \cup Viewing
             => run[n].step \in {"importing"} \cup Viewing
        /\ r.step # "opening" /\ run[n].step \notin {"opening", "over"}
    BY <1>1
  <2>5. /\ link[n].step # "cut" => r.step \in Viewing
        /\ Open(link[n]) => Open(link[n])
    BY <1>2
  <2>6. QED
    BY <1>0, <1>1, <1>2, <2>2, <2>3, <2>4, <2>5, RunMoves
<1>5. QED
  BY <1>3, <1>4

LEMMA EarlySteps ==
  ASSUME IInv, NEW n \in Runs,
         \/ VaultRefused(n) \/ ClientStarts(n) \/ LaunchFails(n)
         \/ Replied(n) \/ OpenRefused(n)
  PROVE  IInv'
<1>0. IInv /\ run \in [Runs -> RunRecords \cup {None}]
  BY DEF IInv, Shapes
<1>1. CASE VaultRefused(n) \/ LaunchFails(n) \/ OpenRefused(n)
  <2>1. /\ run[n] # None /\ run[n].step \in {"vault", "launch", "refused"}
        /\ Goes(n, "over") /\ Update(n, "error") /\ UNCHANGED <<scene, cur, link, mainvars>>
    BY <1>1 DEF VaultRefused, LaunchFails, OpenRefused, In
  <2>2. "error" \in ShownAt("over")
    BY DEF ShownAt
  <2>3. QED
    BY <2>1, <2>2, GoesBeforeViewing, StepNames
<1>2. CASE ClientStarts(n)
  <2>1. "native" \in ShownAt("over")
    BY DEF ShownAt
  <2>2. QED
    BY <1>2, <2>1, GoesBeforeViewing, StepNames DEF ClientStarts, In
<1>3. CASE Replied(n)
  <2>1. /\ run[n] # None /\ run[n].step = "opened"
        /\ UNCHANGED <<scene, status, cur, link, mainvars>>
    BY <1>3 DEF Replied, In
  <2>2. CASE run[n].disposed
    BY <1>3, <2>1, <2>2, GoesBeforeViewing, StepNames DEF Replied
  <2>3. CASE ~run[n].disposed
    BY <1>3, <2>1, <2>3, GoesBeforeViewing, StepNames DEF Replied
  <2>4. QED
    BY <2>2, <2>3
<1>4. QED
  BY <1>1, <1>2, <1>3

LEMMA ClientMissingStep ==
  ASSUME IInv, NEW n \in Runs, ClientMissing(n) PROVE IInv'
<1>0. /\ run \in [Runs -> RunRecords \cup {None}] /\ run[n] # None /\ run[n].step = "launch"
      /\ run[n].cands > 0 /\ UNCHANGED <<scene, status, cur, link, mainvars>>
  BY DEF IInv, Shapes, ClientMissing, In
<1> DEFINE r == [run[n] EXCEPT !.cands = @ - 1]
<1>1. run[n] \in RunRecords /\ run[n].cands \in Nat
  BY <1>0 DEF RunRecords
<1>2. /\ r \in RunRecords /\ r.step = "launch" /\ r.pane = run[n].pane
      /\ r.disposed = run[n].disposed
  BY <1>0, <1>1 DEF RunRecords
<1>3. run' = [run EXCEPT ![n] = r]
  BY DEF ClientMissing
<1>4. /\ link[n] \in Link /\ link' = [link EXCEPT ![n] = link[n]]
      /\ LinkIsSound(link[n]) /\ link[n].step = "cut"
  BY <1>0, NoViewerNoLink, StepNames
<1> HIDE DEF r
<1>5. QED
  BY <1>0, <1>2, <1>3, <1>4, QuietMove, StepNames

(* An attempt with a viewer, or that is about to have one, goes on.        *)
LEMMA GoesViewing ==
  ASSUME IInv, NEW n \in Runs, NEW s \in Viewing \cup {"over"},
         run[n] # None, run[n].step \in {"importing"} \cup Viewing,
         NEW t \in ShownAt(s), Goes(n, s), Update(n, t),
         NEW l \in {link[n], Cut(link[n]), NewLink}, link' = [link EXCEPT ![n] = l],
         s = "over" => l.step = "cut",
         UNCHANGED <<scene, cur, mainvars>>
  PROVE  IInv'
<1>0. /\ Shapes /\ run[n] \in RunRecords /\ run[n].pane \in Panes
      /\ link[n] \in Link /\ LinkIsSound(link[n])
  BY DEF IInv, Shapes, RunRecords, Handshakes
<1> DEFINE r == [run[n] EXCEPT !.step = s]
<1>1. s \in RunSteps /\ s \notin {"opening", "probe"} /\ run[n].step \in Served
      /\ run[n].step \notin {"opening", "over"} /\ (s # "over" => s \in Viewing)
  BY DEF RunSteps, Viewing, Served
<1>2. /\ r \in RunRecords /\ r.step = s /\ r.pane = run[n].pane
      /\ r.disposed = run[n].disposed /\ run' = [run EXCEPT ![n] = r]
  BY <1>0, <1>1, RecordMoves DEF Goes, Shapes
<1>3. l \in Link /\ LinkIsSound(l) /\ (Open(l) => Open(link[n]))
  BY <1>0, CutLink, FreshLink
<1> HIDE DEF r
<1>4. t \in Statuses
  BY DEF ShownAt, Statuses
<1>5. /\ status' \in [Panes -> Statuses]
      /\ \A p \in Panes : run[n].disposed \/ p # run[n].pane => status'[p] = status[p]
      /\ ~run[n].disposed => status'[run[n].pane] \in ShownAt(s)
  BY <1>0, <1>4 DEF Update, Shapes
<1>6. /\ ~run[n].disposed => status'[run[n].pane] \in ShownAt(r.step)
      /\ r.step \in Served => run[n].step \in Served
      /\ r.disposed /\ r.step \in {"importing"} \cup Viewing
           => run[n].step \in {"importing"} \cup Viewing
      /\ r.step \notin {"opening", "probe"} /\ run[n].step \notin {"opening", "over"}
      /\ l.step # "cut" => r.step \in Viewing
  BY <1>1, <1>2, <1>5
<1>7. QED
  BY <1>0, <1>2, <1>3, <1>5, <1>6, RunMoves

(* What a pane shows that is on the screen with the attempt it has.        *)
LEMMA PresentShows ==
  ASSUME IInv, NEW n \in Runs, Present(n)
  PROVE  /\ run[n].pane \in Panes /\ cur[run[n].pane] = n
         /\ status[run[n].pane] \in ShownAt(run[n].step)
<1>0. Shapes /\ Attempts /\ run[n] # None
  BY DEF IInv, Present
<1>1. run[n].pane \in Panes /\ n # None
  BY <1>0, NoneAssumption DEF Shapes, RunRecords
<1>2. cur[run[n].pane] = n
  BY <1>0 DEF Attempts
<1>3. QED
  BY <1>0, <1>1, <1>2 DEF Attempts

LEMMA ViewerSteps ==
  ASSUME IInv, NEW n \in Runs,
         ViewerConnects(n) \/ ViewerAsks(n) \/ Denied(n) \/ Told(n)
  PROVE  IInv'
<1>0. link = [link EXCEPT ![n] = link[n]] /\ link[n] \in Link /\ Cut(link[n]).step = "cut"
  BY CutLink DEF IInv, Shapes
<1>1. CASE ViewerConnects(n)
  <2>1. "connected" \in ShownAt("on") /\ "on" \in Viewing /\ "live" \in Viewing
    BY DEF ShownAt, Viewing
  <2>2. QED
    BY <1>0, <1>1, <2>1, GoesViewing DEF ViewerConnects, Piping, In
<1>2. CASE Denied(n)
  <2>1. "error" \in ShownAt("over") /\ "live" \in Viewing
    BY DEF ShownAt, Viewing
  <2>2. QED
    BY <1>0, <1>2, <2>1, GoesViewing DEF Denied, Piping, In
<1>3. CASE Told(n)
  <2>1. PICK t \in {"disconnected", "error"} : Update(n, t)
    BY <1>3 DEF Told
  <2>2. t \in ShownAt("over")
    BY DEF ShownAt
  <2>3. QED
    BY <1>0, <1>3, <2>1, <2>2, GoesViewing DEF Told
<1>4. CASE ViewerAsks(n)
  <2>1. "credentials" \in ShownAt("asked") /\ {"asked", "live"} \subseteq Viewing
        /\ "connecting" \in ShownAt("live")
    BY DEF ShownAt, Viewing
  <2>2. /\ run[n] # None /\ run[n].step = "live" /\ link' = link
        /\ UNCHANGED <<scene, cur, mainvars>> /\ Update(n, "credentials")
    BY <1>4 DEF ViewerAsks, Piping, In
  <2>3. CASE ~run[n].disposed
    BY <1>0, <1>4, <2>1, <2>2, <2>3, GoesViewing DEF ViewerAsks
  <2>4. CASE run[n].disposed
    <3>1. Goes(n, "live") /\ Update(n, "connecting")
      BY <1>4, <2>2, <2>4 DEF ViewerAsks, Update
    <3>2. QED
      BY <1>0, <2>1, <2>2, <3>1, GoesViewing
  <2>5. QED
    BY <2>3, <2>4
<1>5. QED
  BY <1>1, <1>2, <1>3, <1>4

LEMMA ImportedStep ==
  ASSUME IInv, NEW n \in Runs, Imported(n) PROVE IInv'
<1>0. /\ Shapes /\ run[n] # None /\ run[n].step = "importing" /\ run[n] \in RunRecords
      /\ Goes(n, "live") /\ link' = [link EXCEPT ![n] = NewLink]
      /\ UNCHANGED <<scene, status, cur, mainvars>>
  BY DEF IInv, Shapes, Imported, In
<1>1. status \in [Panes -> Statuses]
  BY <1>0 DEF Shapes
<1>a. NewLink \in {link[n], Cut(link[n]), NewLink} /\ "live" # "over"
  OBVIOUS
<1>b. /\ run[n] # None /\ run[n].step \in {"importing"} \cup Viewing
      /\ Goes(n, "live") /\ link' = [link EXCEPT ![n] = NewLink]
      /\ UNCHANGED <<scene, cur, mainvars>>
  BY <1>0
<1>2. CASE run[n].disposed
  <2>1. Update(n, "connecting")
    BY <1>0, <1>2 DEF Update
  <2>2. "connecting" \in ShownAt("live") /\ "live" \in Viewing
    BY DEF ShownAt, Viewing
  <2>3. QED
    BY <1>a, <1>b, <2>1, <2>2, GoesViewing
<1>3. CASE ~run[n].disposed
  <2>1. status[run[n].pane] \in ShownAt("importing")
    BY <1>0, <1>3, PresentShows DEF Present
  <2>2. status' = [status EXCEPT ![run[n].pane] = "connecting"]
    BY <1>0, <1>1, <2>1 DEF ShownAt
  <2>3. Update(n, "connecting")
    BY <1>3, <2>2, Zenon DEF Update
  <2>4. "connecting" \in ShownAt("live") /\ "live" \in Viewing
    BY DEF ShownAt, Viewing
  <2>5. QED
    BY <1>a, <1>b, <2>3, <2>4, GoesViewing
<1>4. QED
  BY <1>2, <1>3

LEMMA SubmitsStep ==
  ASSUME IInv, NEW p \in Panes, Submits(p) PROVE IInv'
<1>0. /\ Shapes /\ Attempts /\ status[p] = "credentials"
      /\ Goes(cur[p], "live") /\ status' = [status EXCEPT ![p] = "connecting"]
      /\ UNCHANGED <<scene, cur, link, mainvars>>
  BY DEF IInv, Submits
<1>1. PICK n \in Runs : /\ n = cur[p] /\ Present(n) /\ run[n].pane = p
                        /\ status[p] \in ShownAt(run[n].step)
  BY <1>0 DEF Shapes, MaybeRun, Attempts
<1>2. run[n].step = "asked"
  BY <1>0, <1>1 DEF ShownAt
<1>3. ~run[n].disposed /\ status' = [status EXCEPT ![run[n].pane] = "connecting"]
  BY <1>0, <1>1 DEF Present
<1>4. Update(n, "connecting")
  BY <1>3, Zenon DEF Update
<1>5. "connecting" \in ShownAt("live") /\ "live" \in Viewing
  BY DEF ShownAt, Viewing
<1>6. /\ run[n] # None /\ run[n].step \in {"importing"} \cup Viewing /\ Goes(n, "live")
      /\ link' = [link EXCEPT ![n] = link[n]] /\ UNCHANGED <<scene, cur, mainvars>>
  BY <1>0, <1>1, <1>2 DEF Shapes, Present, Viewing
<1>7. link[n] \in {link[n], Cut(link[n]), NewLink} /\ "live" # "over"
  OBVIOUS
<1>8. QED
  BY <1>4, <1>5, <1>6, <1>7, GoesViewing

-----------------------------------------------------------------------------
(* The handshake.                                                          *)

LEMMA X509Facts ==
  /\ DOMAIN X509Subtypes = {1, 2, 3}
  /\ X509Subtypes[1].sub = 262 /\ X509Subtypes[1].inner = 256
  /\ X509Subtypes[2].sub = 261 /\ X509Subtypes[2].inner = 2
  /\ X509Subtypes[3].sub = 260 /\ X509Subtypes[3].inner = 1
BY DEF X509Subtypes, SecPlain, SecVncAuth, SecNone

(* The bridge takes a subtype it can, or none.                             *)
LEMMA PickedIsX509 ==
  ASSUME NEW subs, PickTlsSubtype(subs) # 0
  PROVE  PickTlsSubtype(subs) \in {260, 261, 262}
<1> DEFINE best == CHOOSE i \in Offered(subs) : \A k \in Offered(subs) : i <= k
<1>1. Offered(subs) # {} /\ PickTlsSubtype(subs) = X509Subtypes[best].sub
  BY DEF PickTlsSubtype
<1>2. Offered(subs) \subseteq {1, 2, 3}
  BY X509Facts DEF Offered
<1>3. \E i \in Offered(subs) : \A k \in Offered(subs) : i <= k
  <2>1. CASE 1 \in Offered(subs)
    BY <1>2, <2>1
  <2>2. CASE 1 \notin Offered(subs) /\ 2 \in Offered(subs)
    BY <1>2, <2>2
  <2>3. CASE 1 \notin Offered(subs) /\ 2 \notin Offered(subs)
    <3>1. 3 \in Offered(subs) /\ Offered(subs) \subseteq {3}
      BY <1>1, <1>2, <2>3
    <3>2. QED
      BY <3>1
  <2>4. QED
    BY <2>1, <2>2, <2>3
<1>4. best \in {1, 2, 3}
  BY <1>2, <1>3
<1> HIDE DEF best
<1>5. X509Subtypes[best].sub \in {260, 261, 262}
  BY <1>4, X509Facts
<1>6. QED
  BY <1>1, <1>5

(* What the bridge tells the viewer is what the server runs.               *)
LEMMA InnerIsServers ==
  \A sub \in {260, 261, 262} : InnerAuth(sub) = ServerRuns(sub) /\ ServerRuns(sub) \in Nat
<1> TAKE sub \in {260, 261, 262}
<1> DEFINE mine == CHOOSE i \in DOMAIN X509Subtypes : X509Subtypes[i].sub = sub
<1>1. \E i \in DOMAIN X509Subtypes : X509Subtypes[i].sub = sub
  BY X509Facts
<1>2. mine \in DOMAIN X509Subtypes /\ X509Subtypes[mine].sub = sub
  BY <1>1
<1>3. InnerAuth(sub) = X509Subtypes[mine].inner
  BY <1>1 DEF InnerAuth
<1> HIDE DEF mine
<1>4. InnerAuth(sub) = (IF sub = 260 THEN 1 ELSE IF sub = 261 THEN 2 ELSE 256)
  BY <1>2, <1>3, X509Facts
<1>5. ServerRuns(sub) = (IF sub = 260 THEN 1 ELSE IF sub = 261 THEN 2 ELSE 256)
  BY DEF ServerRuns, SecPlain, SecVncAuth, SecNone
<1>6. QED
  BY <1>4, <1>5

LEMMA PipedLink ==
  \A l \in Link : \A t \in Nat :
    /\ Piped(l, t, t) \in Link /\ Piped(l, t, t).step = "piped"
    /\ Piped(l, t, t).viewer = t /\ Piped(l, t, t).server = t
    /\ Piped(l, t, t).sub = l.sub /\ Piped(l, t, t).said = l.said
BY DEF Piped, Link, Steps

(* Before VeNCrypt a link is sound as it goes on, and as it is piped.      *)
LEMMA BareIsSound ==
  ASSUME NEW l \in Link, l.sub = 0
  PROVE  /\ \A s \in {"version", "types", "vencrypt"} :
              At(l, s) \in Link /\ LinkIsSound(At(l, s))
         /\ \A t \in Nat : Piped(l, t, t) \in Link /\ LinkIsSound(Piped(l, t, t))
<1>1. ASSUME NEW s \in {"version", "types", "vencrypt"}
      PROVE  At(l, s) \in Link /\ LinkIsSound(At(l, s))
  <2>1. s \in Steps
    BY DEF Steps
  <2>2. At(l, s) \in Link /\ At(l, s).step = s /\ At(l, s).sub = 0
    BY <2>1, LinkMovesTo
  <2>3. QED
    BY <2>2 DEF LinkIsSound
<1>2. ASSUME NEW t \in Nat PROVE Piped(l, t, t) \in Link /\ LinkIsSound(Piped(l, t, t))
  <2>1. /\ Piped(l, t, t) \in Link /\ Piped(l, t, t).step = "piped"
        /\ Piped(l, t, t).viewer = t /\ Piped(l, t, t).server = t
        /\ Piped(l, t, t).sub = 0
    BY PipedLink
  <2>2. QED
    BY <2>1 DEF LinkIsSound
<1>3. QED
  BY <1>1, <1>2

(* Past it, it is sound up to the offer, and there once it is vouched for. *)
LEMMA TunnelIsSound ==
  ASSUME NEW l \in Link, l.sub \in {260, 261, 262},
         NEW s \in {"tls", "cert", "prompt", "offer"}, s = "offer" => Vouched(l)
  PROVE  At(l, s) \in Link /\ LinkIsSound(At(l, s))
<1>1. s \in Steps
  BY DEF Steps
<1>2. /\ At(l, s) \in Link /\ At(l, s).step = s
      /\ At(l, s).sub = l.sub /\ At(l, s).said = l.said
  BY <1>1, LinkMovesTo
<1>3. Vouched(l) => Vouched(At(l, s))
  BY <1>2 DEF Vouched
<1>4. QED
  BY <1>2, <1>3 DEF LinkIsSound

(* A step of the handshake leads from a sound link to a sound one.         *)
LEMMA AfterIsSound ==
  ASSUME scene \in Scenes, NEW l \in Link, LinkIsSound(l),
         NEW m \in After(l, scene.server, pinned)
  PROVE  m \in Link /\ LinkIsSound(m) /\ Open(l)
<1>0. scene.server.types \subseteq Nat /\ scene.server.subs \subseteq Nat
  BY SceneFacts
<1>1. CASE l.step \in {"dial", "version", "types"}
  <2>1. \/ m = Cut(l) \/ \E s \in {"version", "types", "vencrypt"} : m = At(l, s)
        \/ \E t \in Nat : m = Piped(l, t, t)
    <3>1. CASE l.step = "dial"
      BY <3>1 DEF After, AfterDial
    <3>2. CASE l.step = "version"
      BY <3>2 DEF After, AfterVersion, SecVncAuth
    <3>3. CASE l.step = "types"
      <4>1. m \in AfterTypes(l, scene.server)
        BY <3>3 DEF After
      <4>2. ViewerTakes(scene.server.types) \subseteq Nat
        BY <1>0 DEF ViewerTakes
      <4>3. QED
        BY <4>1, <4>2 DEF AfterTypes
    <3>4. QED
      BY <1>1, <3>1, <3>2, <3>3
  <2>2. l.sub = 0 /\ Open(l)
    BY <1>1 DEF LinkIsSound, Open
  <2>3. QED
    BY <2>1, <2>2, CutLink, BareIsSound
<1>2. CASE l.step = "vencrypt"
  <2> DEFINE sub == PickTlsSubtype(scene.server.subs)
  <2>1. m \in AfterVeNCrypt(l, scene.server)
    BY <1>2 DEF After
  <2>2. m = Cut(l) \/ (sub # 0 /\ m = [At(l, "tls") EXCEPT !.sub = sub])
        \/ m = Piped(l, SecPlain, SecPlain)
    <3> HIDE DEF sub
    <3>1. m = Cut(l) \/ m \in IF sub # 0 THEN {[At(l, "tls") EXCEPT !.sub = sub]}
                              ELSE IF SecPlain \in scene.server.subs
                                   THEN {Piped(l, SecPlain, SecPlain)} ELSE {}
      BY <2>1 DEF AfterVeNCrypt, sub
    <3>2. QED
      BY <3>1
  <2>3. l.sub = 0 /\ "tls" \in Steps /\ SecPlain \in Nat /\ Open(l)
    BY <1>2 DEF LinkIsSound, Steps, SecPlain, Open
  <2>4. CASE sub # 0 /\ m = [At(l, "tls") EXCEPT !.sub = sub]
    <3>1. sub \in {260, 261, 262}
      BY <2>4, PickedIsX509
    <3>2. At(l, "tls") \in Link /\ At(l, "tls").step = "tls"
      BY <2>3, LinkMovesTo
    <3> HIDE DEF sub
    <3>3. m \in Link /\ m.sub = sub /\ m.step = "tls"
      BY <2>4, <3>1, <3>2 DEF Link
    <3>4. LinkIsSound(m)
      BY <3>1, <3>3 DEF LinkIsSound
    <3>5. QED
      BY <2>3, <3>3, <3>4
  <2>5. CASE m = Cut(l) \/ m = Piped(l, SecPlain, SecPlain)
    BY <2>3, <2>5, CutLink, BareIsSound
  <2>6. QED
    BY <2>2, <2>4, <2>5
<1>4. CASE l.step \in {"tls", "cert"}
  <2>1. \/ m = Cut(l)
        \/ \E s \in {"tls", "cert", "prompt", "offer"} :
             m = At(l, s) /\ (s = "offer" => Vouched(l))
    <3>1. CASE l.step = "tls"
      BY <3>1 DEF After, AfterTls, Vouched
    <3>2. CASE l.step = "cert"
      BY <3>2 DEF After, AfterCert, CertTrusted, Vouched
    <3>3. QED
      BY <1>4, <3>1, <3>2
  <2>2. l.sub \in {260, 261, 262} /\ Open(l)
    BY <1>4 DEF LinkIsSound, Open
  <2>3. QED
    BY <2>1, <2>2, CutLink, TunnelIsSound
<1>5. CASE l.step = "offer"
  <2>1. l.sub \in {260, 261, 262} /\ Vouched(l)
    BY <1>5 DEF LinkIsSound
  <2>2. m = Piped(l, ServerRuns(l.sub), ServerRuns(l.sub)) /\ ServerRuns(l.sub) \in Nat
    BY <1>5, <2>1, InnerIsServers DEF After, AfterOffer
  <2>3. m \in Link /\ m.step = "piped" /\ m.viewer = m.server /\ m.sub = l.sub /\ m.said = l.said
    BY <2>2, PipedLink
  <2>4. Vouched(m)
    BY <2>1, <2>3 DEF Vouched
  <2>5. QED
    BY <1>5, <2>1, <2>3, <2>4 DEF LinkIsSound, Open
<1>6. CASE l.step \notin {"dial", "version", "types", "vencrypt", "tls", "cert", "offer"}
  BY <1>6 DEF After
<1>7. QED
  BY <1>1, <1>2, <1>4, <1>5, <1>6

(* A link that is not cut is of an attempt with a viewer; one that is open *)
(* with VNC is of the present attempt, which has its token.                *)
LEMMA LinkHasViewer ==
  ASSUME IInv, NEW n \in Runs, link[n].step # "cut"
  PROVE  /\ run[n] # None /\ run[n].step \in Viewing /\ run[n].pane \in Panes
         /\ link[n] \in Link /\ LinkIsSound(link[n]) /\ scene \in Scenes
         /\ scene.vnc /\ Open(link[n]) => byTab[run[n].pane] = n /\ Present(n)
         /\ scene.vnc /\ n \in targets => byTab[run[n].pane] = n /\ Present(n)
<1>1. Shapes /\ Tokens /\ Links /\ Handshakes
  BY DEF IInv
<1>2. /\ run[n] # None /\ run[n].step \in Viewing /\ run[n].pane \in Panes
      /\ link[n] \in Link /\ LinkIsSound(link[n]) /\ scene \in Scenes
  BY <1>1 DEF Shapes, Links, Handshakes, RunRecords
<1>3. Given(n) \/ Present(n)
  BY <1>2 DEF Given, Present
<1>4. QED
  BY <1>1, <1>2, <1>3 DEF Links, Tokens

LEMMA StillSound ==
  ASSUME NEW l, LinkIsSound(l), UNCHANGED <<scene, pinned>>
  PROVE  LinkIsSound(l)'
BY DEF LinkIsSound, Vouched

LEMMA WsConnectsStep ==
  ASSUME IInv, NEW n \in Runs, WsConnects(n) PROVE IInv'
<1>1. /\ link[n].step = "ws" /\ UNCHANGED <<scene, status, cur, run, mainvars>>
  BY DEF WsConnects
<1>2. /\ run[n] # None /\ run[n].step \in Viewing
      /\ link[n] \in Link /\ LinkIsSound(link[n])
      /\ scene.vnc /\ n \in targets => byTab[run[n].pane] = n /\ Present(n)
  BY <1>1, LinkHasViewer
<1>3. /\ pending' = pending /\ pinned' \in {pinned, scene.server.cert}
      /\ UNCHANGED <<scene, status, cur, run, host, builtFor, guacd, waiting, targets, byTab,
                     logs, rows>>
  BY <1>1 DEF mainvars
<1>4. CASE (scene.vnc => n \in targets) /\ link' = [link EXCEPT ![n] = At(@, "dial")]
  <2>1. "dial" \in Steps /\ link[n].sub = 0
    BY <1>1, <1>2 DEF Steps, LinkIsSound
  <2>2. PICK l \in Link : l = At(link[n], "dial") /\ l.step = "dial" /\ l.sub = 0
    BY <1>2, <2>1, LinkMovesTo
  <2>3. link' = [link EXCEPT ![n] = l]
    BY <1>4, <2>2
  <2>4. LinkIsSound(l)
    BY <2>2 DEF LinkIsSound
  <2>5. LinkIsSound(l)'
    BY <1>3, <1>1, <2>4, StillSound DEF mainvars
  <2>6. QED
    BY <1>2, <1>3, <1>4, <2>2, <2>3, <2>5, LinkMoves
<1>5. CASE link' = [link EXCEPT ![n] = Cut(@)]
  <2>1. PICK l \in Link :
          l = Cut(link[n]) /\ LinkIsSound(l) /\ ~Open(l) /\ l.step = "cut"
    BY <1>2, CutLink
  <2>2. link' = [link EXCEPT ![n] = l]
    BY <1>5, <2>1
  <2>3. LinkIsSound(l)'
    BY <1>1, <2>1, StillSound DEF mainvars
  <2>4. QED
    BY <1>2, <1>3, <2>1, <2>2, <2>3, LinkMoves
<1>6. QED
  BY <1>4, <1>5 DEF WsConnects

LEMMA DropsStep ==
  ASSUME IInv, NEW n \in Runs, Drops(n) PROVE IInv'
<1>1. /\ link[n].step # "cut" /\ UNCHANGED <<scene, status, cur, run, mainvars>>
      /\ link' = [link EXCEPT ![n] = Cut(link[n])]
  BY DEF Drops, Open
<1>2. run[n] # None /\ run[n].step \in Viewing /\ link[n] \in Link
  BY <1>1, LinkHasViewer
<1>3. PICK l \in Link :
        l = Cut(link[n]) /\ LinkIsSound(l) /\ ~Open(l) /\ l.step = "cut"
  BY <1>2, CutLink
<1>4. link' = [link EXCEPT ![n] = l]
  BY <1>1, <1>3
<1>5. LinkIsSound(l)'
  BY <1>1, <1>3, StillSound DEF mainvars
<1>6. /\ pending' = pending /\ pinned' \in {pinned, scene.server.cert}
      /\ UNCHANGED <<scene, status, cur, run, host, builtFor, guacd, waiting, targets, byTab,
                     logs, rows>>
  BY <1>1 DEF mainvars
<1>7. QED
  BY <1>2, <1>3, <1>4, <1>5, <1>6, LinkMoves

LEMMA BridgesStep ==
  ASSUME IInv, NEW n \in Runs, Bridges(n) PROVE IInv'
<1>1. PICK l \in IF scene.vnc THEN After(link[n], scene.server, pinned)
                 ELSE IF link[n].step = "dial" THEN {Piped(link[n], 1, 1)} ELSE {} :
        /\ link' = [link EXCEPT ![n] = l]
        /\ pending' = IF l.step = "prompt" THEN [pending EXCEPT ![run[n].pane] = n]
                      ELSE pending
  BY DEF Bridges
<1>2. UNCHANGED <<scene, status, cur, run, host, builtFor, guacd, waiting, targets, byTab,
                  pinned, logs, rows>>
  BY DEF Bridges
<1>3. /\ link[n] \in Link /\ LinkIsSound(link[n]) /\ scene \in Scenes
      /\ scene.vnc \in BOOLEAN
  BY SceneFacts DEF IInv, Shapes, Handshakes
<1>4. /\ l \in Link /\ LinkIsSound(l) /\ Open(link[n])
      /\ ~scene.vnc => l.step = "piped"
  <2>1. CASE scene.vnc
    BY <1>1, <1>3, <2>1, AfterIsSound
  <2>2. CASE ~scene.vnc
    <3>1. link[n].step = "dial" /\ l = Piped(link[n], 1, 1)
      BY <1>1, <2>2
    <3>2. link[n].sub = 0 /\ Open(link[n])
      BY <1>3, <3>1 DEF LinkIsSound, Open
    <3>3. QED
      BY <1>3, <3>1, <3>2, <2>2, BareIsSound, PipedLink
  <2>3. QED
    BY <2>1, <2>2
<1>5. link[n].step # "cut"
  BY <1>4 DEF Open
<1>6. /\ run[n] # None /\ run[n].step \in Viewing
      /\ scene.vnc => byTab[run[n].pane] = n /\ Present(n)
  BY <1>4, <1>5, LinkHasViewer
<1>7. LinkIsSound(l)'
  BY <1>2, <1>4, StillSound
<1>8. \/ pending' = pending
      \/ /\ pending' = [pending EXCEPT ![run[n].pane] = n]
         /\ byTab[run[n].pane] = n /\ Present(n)
  BY <1>1, <1>4, <1>6
<1>9. QED
  BY <1>1, <1>2, <1>4, <1>6, <1>7, <1>8, LinkMoves

Said(l) == [l EXCEPT !.step = "offer", !.said = TRUE]

(* The link of a prompt that was answered with yes.                        *)
LEMMA SaidLink ==
  \A l \in Link :
    Said(l) \in Link /\ Said(l).step = "offer" /\ Said(l).sub = l.sub /\ Said(l).said
<1> TAKE l \in Link
<1> DEFINE m == [l EXCEPT !.step = "offer", !.said = TRUE]
<1>1. m.step = "offer" /\ m.sub = l.sub /\ m.viewer = l.viewer /\ m.server = l.server
  BY DEF Link
<1>2. m.said = TRUE
  BY Zenon DEF Link
<1>3. m \in Link
  BY DEF Link, Steps
<1>4. m = Said(l)
  BY DEF Said
<1> HIDE DEF m
<1>5. QED
  BY <1>1, <1>2, <1>3, <1>4

LEMMA AnswersStep ==
  ASSUME IInv, NEW p \in Panes, NEW d \in Decisions, Answers(p, d) PROVE IInv'
<1>0. Shapes /\ Attempts /\ Tokens /\ Links /\ Handshakes
  BY DEF IInv
<1>1. PICK n \in Runs : n = pending[p]
  BY <1>0 DEF Answers, Shapes, MaybeRun
<1>2. /\ Present(n) /\ run[n] # None /\ run[n].pane = p /\ byTab[run[n].pane] = n
      /\ link[n] \in Link /\ LinkIsSound(link[n])
      /\ link[n].step # "cut" => run[n].step \in Viewing
  BY <1>0, <1>1, NoneAssumption DEF Answers, Attempts, Tokens, Present, Links, Shapes, Handshakes
<1>3. /\ pending' = [pending EXCEPT ![p] = None] /\ pinned' \in {pinned, scene.server.cert}
      /\ UNCHANGED <<scene, status, cur, run, host, builtFor, guacd, waiting, targets, byTab,
                     logs, rows>>
  BY DEF Answers
<1>4. link' = [link EXCEPT ![n] =
                 IF link[n].step # "prompt" THEN link[n]
                 ELSE IF d = "reject" THEN Cut(link[n])
                 ELSE [link[n] EXCEPT !.step = "offer", !.said = TRUE]]
  BY <1>1 DEF Answers
<1>5. ASSUME NEW l \in Link, link' = [link EXCEPT ![n] = l], LinkIsSound(l)',
             l.step # "cut" => run[n].step \in Viewing
      PROVE  IInv'
  BY <1>2, <1>3, <1>5, LinkMoves
<1>6. CASE link[n].step # "prompt"
  <2>1. PICK l \in Link : l = link[n]
    BY <1>2
  <2>2. LinkIsSound(l)'
    <3>1. LinkIsSound(l) /\ scene' = scene /\ pinned' \in {pinned, scene.server.cert}
      BY <1>2, <1>3, <2>1
    <3>2. QED
      BY <3>1 DEF LinkIsSound, Vouched
  <2>3. link' = [link EXCEPT ![n] = l]
    BY <1>4, <1>6, <2>1
  <2>4. QED
    BY <1>2, <1>5, <2>1, <2>2, <2>3
<1>7. CASE link[n].step = "prompt" /\ d = "reject"
  <2>1. PICK l \in Link : l = Cut(link[n]) /\ l.step = "cut"
    BY <1>2, CutLink
  <2>2. link' = [link EXCEPT ![n] = l]
    BY <1>4, <1>7, <2>1
  <2>3. LinkIsSound(l)'
    BY <2>1 DEF LinkIsSound
  <2>4. QED
    BY <1>5, <2>1, <2>2, <2>3
<1>8. CASE link[n].step = "prompt" /\ d # "reject"
  <2>1. "offer" \in Steps /\ link[n].sub \in {260, 261, 262} /\ run[n].step \in Viewing
    BY <1>2, <1>8 DEF Steps, LinkIsSound
  <2>2. PICK l \in Link : /\ l = Said(link[n])
                         /\ l.step = "offer" /\ l.sub = link[n].sub /\ l.said
    BY <1>2, SaidLink
  <2>3. link' = [link EXCEPT ![n] = l]
    BY <1>4, <1>8, <2>2 DEF Said
  <2>4. LinkIsSound(l)'
    BY <2>1, <2>2 DEF LinkIsSound, Vouched
  <2>5. QED
    BY <1>5, <2>1, <2>2, <2>3, <2>4
<1>9. QED
  BY <1>6, <1>7, <1>8

-----------------------------------------------------------------------------
(* The open() calls, and the server they wait for.                         *)

(* Attempts that are told where they are, none of which is at its end.     *)
LEMMA ResumedFacts ==
  ASSUME Shapes, Attempts, NEW S,
         \A n \in S : n \in Runs /\ run[n] # None /\ run[n].step \in {"vault", "probe", "opening"},
         NEW s \in {"opened", "opening", "refused"}, run' = Resumed(S, s),
         UNCHANGED <<scene, status, cur>>
  PROVE  /\ Attempts' /\ run' \in [Runs -> RunRecords \cup {None}]
         /\ \A m \in Runs : /\ (run'[m] = None) = (run[m] = None)
                            /\ run[m] # None => run'[m].pane = run[m].pane
                            /\ Given(m)' = Given(m) /\ Present(m)' = Present(m)
                            /\ m \in S => run'[m].step = s
                            /\ m \notin S => run'[m] = run[m]
<1>1. s \in RunSteps /\ \A m \in Runs : run[m] # None => run[m] \in RunRecords
  BY DEF RunSteps, Shapes
<1>2. \A m \in Runs :
        /\ m \in S => /\ run'[m] \in RunRecords /\ run'[m] # None
                      /\ run'[m].step = s /\ run'[m].pane = run[m].pane
                      /\ run'[m].disposed = run[m].disposed
        /\ m \notin S => run'[m] = run[m]
  BY <1>1, RecordMoves DEF Resumed
<1>3. run' \in [Runs -> RunRecords \cup {None}]
  <2>1. run' = [m \in Runs |-> run'[m]] /\ \A m \in Runs : run'[m] \in RunRecords \cup {None}
    BY <1>1, <1>2 DEF Resumed, Shapes
  <2>2. QED
    BY <2>1
<1>4. \A m \in Runs : /\ (run'[m] = None) = (run[m] = None)
                      /\ run[m] # None => run'[m].pane = run[m].pane
                      /\ Given(m)' = Given(m) /\ Present(m)' = Present(m)
  BY <1>2 DEF Given, Present
<1>5. ASSUME NEW p \in Panes, cur[p] # None
      PROVE  Present(cur[p])' /\ run'[cur[p]].pane = p /\ status[p] \in ShownAt(run'[cur[p]].step)
  <2>1. cur[p] \in Runs /\ Present(cur[p]) /\ run[cur[p]].pane = p
        /\ status[p] \in ShownAt(run[cur[p]].step)
    BY <1>5 DEF Shapes, MaybeRun, Attempts
  <2>2. Present(cur[p])' /\ run'[cur[p]].pane = p
    BY <1>4, <2>1 DEF Present
  <2>3. CASE cur[p] \in S
    <3>1. run[cur[p]].step \in {"vault", "probe", "opening"} /\ run'[cur[p]].step = s
      BY <1>2, <2>1, <2>3
    <3>2. status[p] \in ShownAt(s)
      BY <2>1, <3>1 DEF ShownAt
    <3>3. QED
      BY <2>2, <3>1, <3>2
  <2>4. CASE cur[p] \notin S
    BY <1>2, <2>1, <2>2, <2>4
  <2>5. QED
    BY <2>3, <2>4
<1>6. \A m \in Runs : Present(m)' => cur[run'[m].pane] = m
  BY <1>4 DEF Attempts, Present
<1>7. scene.patient => \A m \in Runs : Given(m)' => run'[m].step = "over"
  BY <1>2, <1>4 DEF Attempts, Given
<1>8. \A m \in Runs : In(m, "probe")' => ~scene.vnc
  BY <1>2, <1>4 DEF Attempts, In
<1>9. Attempts'
  BY <1>5, <1>6, <1>7, <1>8 DEF Attempts
<1>10. QED
  BY <1>2, <1>3, <1>4, <1>9

LEMMA ResumedOne ==
  ASSUME Shapes, Attempts, NEW n \in Runs, run[n] # None,
         run[n].step \in {"vault", "probe", "opening"},
         NEW s \in {"opened", "opening", "refused"}, run' = Resumed({n}, s),
         UNCHANGED <<scene, status, cur>>
  PROVE  /\ Attempts' /\ run' \in [Runs -> RunRecords \cup {None}]
         /\ \A m \in Runs : /\ (run'[m] = None) = (run[m] = None)
                            /\ run[m] # None => run'[m].pane = run[m].pane
                            /\ Given(m)' = Given(m) /\ Present(m)' = Present(m)
                            /\ m # n => run'[m] = run[m]
         /\ run'[n].step = s
<1>1. PICK S : S = {n}
  OBVIOUS
<1>2. \A m \in S : m \in Runs /\ run[m] # None /\ run[m].step \in {"vault", "probe", "opening"}
  BY <1>1
<1>3. run' = Resumed(S, s)
  BY <1>1
<1>4. /\ Attempts' /\ run' \in [Runs -> RunRecords \cup {None}]
      /\ \A m \in Runs : /\ (run'[m] = None) = (run[m] = None)
                         /\ run[m] # None => run'[m].pane = run[m].pane
                         /\ Given(m)' = Given(m) /\ Present(m)' = Present(m)
                         /\ m \in S => run'[m].step = s
                         /\ m \notin S => run'[m] = run[m]
  BY <1>2, <1>3, ResumedFacts
<1>5. QED
  BY <1>1, <1>4

(* Without the server there is no token, and no call that was served.      *)
LEMMA NoServer ==
  ASSUME Shapes, Tokens, host # "up" \/ ~scene.vnc
  PROVE  targets = {} /\ \A p \in Panes : byTab[p] = None /\ pending[p] = None
<1>1. targets = {}
  BY DEF Tokens
<1>2. \A p \in Panes : byTab[p] = None
  BY <1>1 DEF Tokens
<1>3. \A p \in Panes : pending[p] = None
  BY <1>2 DEF Tokens
<1>4. QED
  BY <1>1, <1>2, <1>3

LEMMA ListensStep == IInv /\ Listens => IInv'
<1> SUFFICES ASSUME IInv, Listens PROVE IInv'
  OBVIOUS
<1>0. /\ Shapes /\ Attempts /\ Hosted /\ Tokens /\ LogRows /\ Links /\ Handshakes
  BY DEF IInv
<1>1. /\ host = "starting" /\ host' = "up" /\ run' = Resumed(Waiters, "opened")
      /\ targets' = (IF scene.vnc THEN targets \cup Waiters ELSE targets)
      /\ byTab' = (IF scene.vnc THEN Heard(byTab) ELSE byTab) /\ logs' = Heard(logs)
      /\ rows' = (rows \ {logs[p] : p \in {q \in Panes : waiting[q] # None}})
                 \cup ({waiting[p] : p \in Panes} \ {None})
      /\ waiting' = [p \in Panes |-> None]
      /\ UNCHANGED <<scene, status, cur, link, builtFor, guacd, pending, pinned>>
  BY DEF Listens
<1>2. \A n \in Waiters : n \in Runs /\ run[n] # None /\ run[n].step \in {"vault", "probe", "opening"}
  BY DEF Waiters, In
<1>3. /\ Attempts' /\ run' \in [Runs -> RunRecords \cup {None}]
      /\ \A m \in Runs : /\ (run'[m] = None) = (run[m] = None)
                         /\ run[m] # None => run'[m].pane = run[m].pane
                         /\ Given(m)' = Given(m) /\ Present(m)' = Present(m)
                         /\ m \in Waiters => run'[m].step = "opened"
                         /\ m \notin Waiters => run'[m] = run[m]
  <2>1. "opened" \in {"opened", "opening", "refused"}
    OBVIOUS
  <2>2. QED
    BY <1>0, <1>1, <1>2, <2>1, ResumedFacts
<1>4. targets = {} /\ \A p \in Panes : byTab[p] = None /\ pending[p] = None
  BY <1>0, <1>1, NoServer
<1>5. \A p \in Panes :
        /\ waiting[p] # None => waiting[p] \in Waiters /\ run[waiting[p]].pane = p
        /\ Heard(logs)[p] = (IF waiting[p] = None THEN logs[p] ELSE waiting[p])
        /\ Heard(byTab)[p] = waiting[p]
  BY <1>0, <1>4 DEF Hosted, Heard
<1>6. Waiters \subseteq Runs
  BY DEF Waiters
<1>7. Shapes'
  <2>1. Heard(byTab) \in [Panes -> MaybeRun] /\ Heard(logs) \in [Panes -> MaybeRun]
    BY <1>0 DEF Shapes, Heard
  <2>2. {waiting[p] : p \in Panes} \ {None} \subseteq Runs
    BY <1>0 DEF Shapes, MaybeRun
  <2>3. /\ targets' \subseteq Runs /\ rows' \subseteq Runs /\ waiting' \in [Panes -> MaybeRun]
        /\ byTab' \in [Panes -> MaybeRun] /\ logs' \in [Panes -> MaybeRun]
    BY <1>0, <1>1, <1>6, <2>1, <2>2 DEF Shapes, MaybeRun
  <2>4. QED
    BY <1>0, <1>1, <1>3, <2>3 DEF Shapes
<1>8. Hosted'
  <2>1. Waiters' = {}
    <3>1. \A m \in Runs : ~In(m, "opening")'
      BY <1>3, <1>6 DEF Waiters, In
    <3>2. QED
      BY <3>1 DEF Waiters
  <2>2. QED
    BY <1>0, <1>1, <2>1 DEF Hosted
<1>9. Tokens'
  <2>1. \A p \in Panes : byTab'[p] # None => byTab'[p] \in targets' /\ run'[byTab'[p]].pane = p
    BY <1>1, <1>2, <1>3, <1>4, <1>5, <1>6
  <2>2. ASSUME NEW m \in targets'
        PROVE  /\ run'[m] # None /\ scene.vnc /\ host' = "up"
               /\ Present(m)' => byTab'[run'[m].pane] = m
               /\ scene.started \/ scene.patient => Present(m)'
    <3>1. m \in Waiters /\ scene.vnc /\ m \in Runs /\ run[m] # None /\ run[m].step = "opening"
      BY <1>1, <1>4, <2>2 DEF Waiters, In
    <3>2. run'[m] # None /\ run'[m].pane = run[m].pane /\ Present(m)' = Present(m)
      BY <1>3, <3>1
    <3>3. ASSUME Present(m) PROVE byTab'[run[m].pane] = m
      <4>1. run[m].pane \in Panes /\ waiting[run[m].pane] = m
        BY <1>0, <3>1, <3>3 DEF Hosted, Shapes, RunRecords
      <4>2. QED
        BY <1>1, <1>5, <3>1, <4>1
    <3>4. scene.started \/ scene.patient => Present(m)
      BY <1>0, <1>1, <3>1 DEF Hosted, Attempts, Given, Present
    <3>5. QED
      BY <1>1, <3>1, <3>2, <3>3, <3>4
  <2>3. \A p \in Panes : pending'[p] # None => pending'[p] = cur'[p] /\ byTab'[p] = cur'[p]
    BY <1>1, <1>4
  <2>4. QED
    BY <1>1, <2>1, <2>2, <2>3 DEF Tokens
<1>10. LogRows'
  <2> SUFFICES ASSUME (scene.started /\ ~scene.changes) \/ scene.patient, NEW m \in rows'
               PROVE  Present(m)' /\ logs'[run'[m].pane] = m
    BY <1>1 DEF LogRows
  <2>1. scene.patient
    BY <1>0, <1>1 DEF Hosted
  <2>2. CASE m \in rows
    <3>1. m \in Runs /\ Present(m) /\ logs[run[m].pane] = m /\ run[m] # None
          /\ run[m].pane \in Panes
      BY <1>0, <2>1, <2>2 DEF LogRows, Shapes, Present, RunRecords
    <3>2. CASE waiting[run[m].pane] = None
      BY <1>1, <1>3, <1>5, <3>1, <3>2
    <3>3. CASE waiting[run[m].pane] # None
      <4>1. \E p \in Panes : waiting[p] = m
        BY <1>1, <3>1, <3>3
      <4>2. waiting[run[m].pane] = m
        BY <1>5, <4>1, <3>1, NoneAssumption
      <4>3. QED
        BY <1>1, <1>3, <1>5, <3>1, <3>3, <4>2
    <3>4. QED
      BY <3>2, <3>3
  <2>3. CASE m \notin rows
    <3>1. PICK p \in Panes : m = waiting[p] /\ m # None
      BY <1>1, <2>3
    <3>2. m \in Waiters /\ m \in Runs /\ run[m] # None /\ run[m].step = "opening" /\ run[m].pane = p
      BY <1>5, <3>1 DEF Waiters, In
    <3>3. Present(m)
      BY <1>0, <2>1, <3>2 DEF Attempts, Given, Present
    <3>4. QED
      BY <1>1, <1>3, <1>5, <3>1, <3>2, <3>3
  <2>4. QED
    BY <2>2, <2>3
<1>11. Links'
  <2>1. ASSUME NEW m \in Runs
        PROVE  /\ link[m].step # "cut" => run'[m] # None /\ run'[m].step \in Viewing
               /\ run'[m].step \in {"importing"} \cup Viewing => m \notin Waiters
               /\ scene.vnc => ~Open(link[m])
    <3>1. link[m].step # "cut" => run'[m] # None /\ run'[m].step \in Viewing
      BY <1>0, <1>3 DEF Links, Waiters, In, Viewing
    <3>2. run'[m].step \in {"importing"} \cup Viewing => m \notin Waiters
      BY <1>3 DEF Viewing
    <3>3. ASSUME scene.vnc, Open(link[m]) PROVE FALSE
      <4>1. byTab[run[m].pane] = m /\ run[m] # None /\ m # None
        BY <1>0, <3>3, NoneAssumption DEF Links, Open
      <4>2. run[m].pane \in Panes
        BY <1>0, <4>1 DEF Shapes, RunRecords
      <4>3. QED
        BY <1>4, <4>1, <4>2
    <3>4. QED
      BY <3>1, <3>2, <3>3
  <2>2. QED
    BY <1>1, <1>4, <2>1 DEF Links
<1>12. Handshakes'
  BY <1>0, <1>1 DEF Handshakes, LinkIsSound, Vouched
<1>13. QED
  BY <1>3, <1>7, <1>8, <1>9, <1>10, <1>11, <1>12 DEF IInv

LEMMA ListenFailsStep == IInv /\ ListenFails => IInv'
<1> SUFFICES ASSUME IInv, ListenFails PROVE IInv'
  OBVIOUS
<1>0. /\ Shapes /\ Attempts /\ Hosted /\ Tokens /\ LogRows /\ Links /\ Handshakes
  BY DEF IInv
<1>1. /\ host = "starting" /\ host' = "failed" /\ run' = Resumed(Waiters, "refused")
      /\ waiting' = [p \in Panes |-> None]
      /\ UNCHANGED <<scene, status, cur, link, builtFor, guacd, targets, byTab, pending,
                     pinned, logs, rows>>
  BY DEF ListenFails
<1>2. \A n \in Waiters : n \in Runs /\ run[n] # None /\ run[n].step \in {"vault", "probe", "opening"}
  BY DEF Waiters, In
<1>3. /\ Attempts' /\ run' \in [Runs -> RunRecords \cup {None}]
      /\ \A m \in Runs : /\ (run'[m] = None) = (run[m] = None)
                         /\ run[m] # None => run'[m].pane = run[m].pane
                         /\ Given(m)' = Given(m) /\ Present(m)' = Present(m)
                         /\ m \in Waiters => run'[m].step = "refused"
                         /\ m \notin Waiters => run'[m] = run[m]
  <2>1. "refused" \in {"opened", "opening", "refused"}
    OBVIOUS
  <2>2. QED
    BY <1>0, <1>1, <1>2, <2>1, ResumedFacts
<1>4. targets = {} /\ \A p \in Panes : byTab[p] = None /\ pending[p] = None
  BY <1>0, <1>1, NoServer
<1>5. Shapes'
  BY <1>0, <1>1, <1>3 DEF Shapes, MaybeRun
<1>6. Hosted'
  <2>1. Waiters' = {}
    <3>1. \A m \in Runs : ~In(m, "opening")'
      BY <1>3 DEF Waiters, In
    <3>2. QED
      BY <3>1 DEF Waiters
  <2>2. \A m \in Runs : run'[m] # None /\ run'[m].step \in Served =>
                          run[m] # None /\ run[m].step \in Served
    BY <1>3 DEF Served, Viewing
  <2>3. QED
    BY <1>0, <1>1, <2>1, <2>2 DEF Hosted
<1>7. Tokens'
  BY <1>1, <1>4 DEF Tokens
<1>8. LogRows'
  BY <1>0, <1>1, <1>3 DEF LogRows, Shapes, Present
<1>9. Links'
  <2>1. ASSUME NEW m \in Runs
        PROVE  /\ link[m].step # "cut" => run'[m] # None /\ run'[m].step \in Viewing
               /\ run'[m].step \in {"importing"} \cup Viewing => run'[m] = run[m]
               /\ run[m] # None => run'[m].pane = run[m].pane
               /\ Given(m)' = Given(m)
    <3>1. link[m].step # "cut" => run'[m] # None /\ run'[m].step \in Viewing
      BY <1>0, <1>3 DEF Links, Waiters, In, Viewing
    <3>2. run'[m].step \in {"importing"} \cup Viewing => run'[m] = run[m]
      BY <1>3 DEF Viewing
    <3>3. QED
      BY <1>3, <3>1, <3>2
  <2>2. \A m \in Runs : Open(link[m]) => run[m] # None
    BY <1>0 DEF Links, Open
  <2>3. QED
    BY <1>0, <1>1, <1>4, <2>1, <2>2 DEF Links
<1>10. Handshakes'
  BY <1>0, <1>1 DEF Handshakes, LinkIsSound, Vouched
<1>11. QED
  BY <1>3, <1>5, <1>6, <1>7, <1>8, <1>9, <1>10 DEF IInv

LEMMA SetGuacdStep == IInv /\ SetGuacd => IInv'
<1> SUFFICES ASSUME IInv, SetGuacd PROVE IInv'
  OBVIOUS
<1>0. /\ Shapes /\ Attempts /\ Hosted /\ Tokens /\ LogRows /\ Links /\ Handshakes
  BY DEF IInv
<1>1. /\ scene.changes /\ UNCHANGED <<scene, status, cur, run, link, host, builtFor, waiting,
                                      targets, byTab, pending, pinned, logs, rows>>
  BY DEF SetGuacd
<1>2. Waiters' = Waiters /\ \A n : Given(n)' = Given(n) /\ Present(n)' = Present(n)
  BY <1>1 DEF Waiters, In, Given, Present
<1>3. Shapes'
  BY <1>0, <1>1 DEF Shapes
<1>4. Attempts'
  BY <1>0, <1>1, <1>2 DEF Attempts, In, Given, Present
<1>5. Hosted'
  BY <1>0, <1>1, <1>2 DEF Hosted, Present
<1>6. Tokens' /\ LogRows'
  BY <1>0, <1>1, <1>2 DEF Tokens, LogRows, Present
<1>7. Links' /\ Handshakes'
  BY <1>0, <1>1, <1>2 DEF Links, Given, Handshakes, LinkIsSound, Vouched
<1>8. QED
  BY <1>3, <1>4, <1>5, <1>6, <1>7 DEF IInv

(* The server is there: the call is served at once. With VNC the token of  *)
(* before is forgotten, and its links are cut.                             *)
LEMMA ServedAtOnce ==
  ASSUME IInv, NEW n \in Runs, Present(n), run[n].step \in {"vault", "probe"}, host = "up",
         run' = Resumed({n}, "opened"), StartLog(n),
         IF scene.vnc
         THEN LET p == run[n].pane
              IN /\ link' = CutAll({byTab[p], pending[p]})
                 /\ pending' = [pending EXCEPT ![p] = None]
                 /\ targets' = (targets \ {byTab[p]}) \cup {n}
                 /\ byTab' = [byTab EXCEPT ![p] = n]
         ELSE UNCHANGED <<link, pending, targets, byTab>>,
         UNCHANGED <<scene, status, cur, host, builtFor, guacd, waiting, pinned>>
  PROVE  IInv'
<1>0. /\ Shapes /\ Attempts /\ Hosted /\ Tokens /\ LogRows /\ Links /\ Handshakes
  BY DEF IInv
<1>1. PICK p \in Panes : p = run[n].pane /\ run[n] # None /\ n # None
  BY <1>0, NoneAssumption DEF Shapes, RunRecords, Present
<1>2. /\ Attempts' /\ run' \in [Runs -> RunRecords \cup {None}]
      /\ \A m \in Runs : /\ (run'[m] = None) = (run[m] = None)
                         /\ run[m] # None => run'[m].pane = run[m].pane
                         /\ Given(m)' = Given(m) /\ Present(m)' = Present(m)
                         /\ m # n => run'[m] = run[m]
      /\ run'[n].step = "opened" /\ run'[n].pane = p /\ Present(n)'
  <2>1. /\ "opened" \in {"opened", "opening", "refused"}
        /\ run[n].step \in {"vault", "probe", "opening"}
    OBVIOUS
  <2>2. /\ Attempts' /\ run' \in [Runs -> RunRecords \cup {None}]
        /\ \A m \in Runs : /\ (run'[m] = None) = (run[m] = None)
                           /\ run[m] # None => run'[m].pane = run[m].pane
                           /\ Given(m)' = Given(m) /\ Present(m)' = Present(m)
                           /\ m # n => run'[m] = run[m]
        /\ run'[n].step = "opened"
    BY <1>0, <1>1, <2>1, ResumedOne
  <2>3. QED
    BY <1>1, <2>2
<1>3. /\ rows' = (rows \ {logs[p]}) \cup {n} /\ logs' \in [Panes -> MaybeRun]
      /\ logs'[p] = n /\ \A q \in Panes : q # p => logs'[q] = logs[q]
  <2>1. rows' = (rows \ {logs[p]}) \cup {n} /\ logs' = [logs EXCEPT ![p] = n]
    BY <1>1 DEF StartLog
  <2>2. QED
    BY <1>0, <2>1 DEF Shapes, MaybeRun
<1>4. /\ scene.vnc => /\ targets' = (targets \ {byTab[p]}) \cup {n}
                      /\ pending' \in [Panes -> MaybeRun] /\ pending'[p] = None
                      /\ byTab' \in [Panes -> MaybeRun] /\ byTab'[p] = n
                      /\ \A q \in Panes : q # p => byTab'[q] = byTab[q] /\ pending'[q] = pending[q]
      /\ ~scene.vnc => pending' = pending /\ targets' = targets /\ byTab' = byTab
      /\ link' \in [Runs -> Link]
      /\ \A m \in Runs : /\ link'[m] = link[m] \/ link'[m] = Cut(link[m])
                         /\ scene.vnc /\ m = byTab[p] => link'[m] = Cut(link[m])
  <2>1. CASE scene.vnc
    <3>1. /\ link' = CutAll({byTab[p], pending[p]}) /\ link \in [Runs -> Link]
          /\ pending' = [pending EXCEPT ![p] = None]
          /\ targets' = (targets \ {byTab[p]}) \cup {n}
          /\ byTab' = [byTab EXCEPT ![p] = n]
      BY <1>0, <1>1, <2>1 DEF Shapes
    <3>2. /\ pending' \in [Panes -> MaybeRun] /\ pending'[p] = None
          /\ byTab' \in [Panes -> MaybeRun] /\ byTab'[p] = n
          /\ \A q \in Panes : q # p => byTab'[q] = byTab[q] /\ pending'[q] = pending[q]
      BY <1>0, <3>1 DEF Shapes, MaybeRun
    <3>3. QED
      BY <2>1, <3>1, <3>2, CutAllFacts
  <2>2. CASE ~scene.vnc
    BY <1>0, <2>2 DEF Shapes
  <2>3. QED
    BY <2>1, <2>2
<1>5. \A m \in Runs : Open(link'[m]) => Open(link[m]) /\ (scene.vnc => m # byTab[p])
  BY <1>0, <1>4, CutLink DEF Shapes
<1>6. \A m \in Runs : link'[m].step # "cut" => link[m].step # "cut"
  BY <1>0, <1>4, CutLink DEF Shapes
<1>7. Shapes'
  <2>1. rows' \subseteq Runs /\ targets' \subseteq Runs
    BY <1>0, <1>3, <1>4 DEF Shapes
  <2>2. pending' \in [Panes -> MaybeRun] /\ byTab' \in [Panes -> MaybeRun]
    BY <1>0, <1>4 DEF Shapes
  <2>3. QED
    BY <1>0, <1>2, <1>3, <1>4, <2>1, <2>2 DEF Shapes
<1>8. Hosted'
  <2>1. Waiters = {}
    BY <1>0 DEF Hosted
  <2>2. Waiters' = {}
    <3>1. \A m \in Runs : ~In(m, "opening")
      BY <2>1 DEF Waiters
    <3>2. \A m \in Runs : ~In(m, "opening")'
      BY <1>2, <3>1 DEF In
    <3>3. QED
      BY <3>2 DEF Waiters
  <2>3. QED
    BY <1>0, <2>1, <2>2 DEF Hosted
<1>9. Tokens'
  <2>1. CASE scene.vnc
    <3>1. ASSUME NEW q \in Panes, byTab'[q] # None
          PROVE  byTab'[q] \in targets' /\ run'[byTab'[q]].pane = q
      <4>1. CASE q = p
        BY <1>2, <1>4, <2>1, <4>1
      <4>2. CASE q # p
        <5>1. byTab'[q] = byTab[q] /\ byTab[q] \in targets /\ run[byTab[q]].pane = q
              /\ byTab[q] \in Runs /\ run[byTab[q]] # None
          BY <1>0, <1>4, <2>1, <3>1, <4>2 DEF Shapes, Tokens
        <5>2. byTab[q] # byTab[p]
          BY <1>0, <1>1, <3>1, <4>2, <5>1 DEF Tokens
        <5>3. byTab[q] \in targets' /\ run'[byTab[q]].pane = q
          BY <1>2, <1>4, <2>1, <5>1, <5>2
        <5>4. QED
          BY <5>1, <5>3
      <4>3. QED
        BY <4>1, <4>2
    <3>2. ASSUME NEW m \in targets'
          PROVE  /\ run'[m] # None /\ (Present(m)' => byTab'[run'[m].pane] = m)
                 /\ scene.started \/ scene.patient => Present(m)'
      <4>1. CASE m = n
        BY <1>2, <1>4, <2>1, <4>1
      <4>2. CASE m # n
        <5>1. /\ m \in targets /\ m # byTab[p] /\ m \in Runs /\ run[m] # None
              /\ Present(m) => byTab[run[m].pane] = m
              /\ scene.started \/ scene.patient => Present(m)
          BY <1>0, <1>4, <2>1, <3>2, <4>2 DEF Tokens, Shapes
        <5>2. run[m].pane \in Panes /\ (Present(m) => run[m].pane # p)
          BY <1>0, <5>1 DEF Shapes, RunRecords
        <5>3. run'[m] = run[m] /\ Present(m)' = Present(m)
          BY <1>2, <4>2, <5>1
        <5>4. Present(m) => byTab'[run[m].pane] = byTab[run[m].pane]
          BY <1>4, <2>1, <5>2
        <5>5. QED
          BY <5>1, <5>3, <5>4
      <4>3. QED
        BY <4>1, <4>2
    <3>3. \A q \in Panes : pending'[q] # None => pending'[q] = cur'[q] /\ byTab'[q] = cur'[q]
      BY <1>0, <1>1, <1>4, <2>1 DEF Tokens, Shapes
    <3>4. QED
      BY <2>1, <3>1, <3>2, <3>3 DEF Tokens
  <2>2. CASE ~scene.vnc
    <3>1. targets = {} /\ \A q \in Panes : byTab[q] = None /\ pending[q] = None
      BY <1>0, <2>2, NoServer
    <3>2. QED
      BY <1>4, <2>2, <3>1 DEF Tokens
  <2>3. QED
    BY <2>1, <2>2
<1>10. LogRows'
  <2> SUFFICES ASSUME (scene.started /\ ~scene.changes) \/ scene.patient, NEW m \in rows'
               PROVE  Present(m)' /\ logs'[run'[m].pane] = m
    BY DEF LogRows
  <2>1. CASE m = n
    BY <1>2, <1>3, <2>1
  <2>2. CASE m # n
    <3>1. m \in rows /\ m # logs[p] /\ m \in Runs /\ Present(m) /\ logs[run[m].pane] = m
          /\ run[m] # None
      BY <1>0, <1>3, <2>2 DEF LogRows, Shapes, Present
    <3>2. run[m].pane \in Panes /\ run[m].pane # p
      BY <1>0, <3>1 DEF Shapes, RunRecords
    <3>3. run'[m] = run[m] /\ Present(m)' = Present(m)
      BY <1>2, <2>2, <3>1
    <3>4. logs'[run[m].pane] = logs[run[m].pane]
      BY <1>3, <3>2
    <3>5. QED
      BY <3>1, <3>3, <3>4
  <2>3. QED
    BY <2>1, <2>2
<1>11. Links'
  <2> SUFFICES ASSUME NEW m \in Runs
               PROVE  /\ link'[m].step # "cut" => run'[m] # None /\ run'[m].step \in Viewing
                      /\ scene.vnc /\ Given(m)' =>
                           /\ ~Open(link'[m])
                           /\ run'[m].step \in {"importing"} \cup Viewing => m \notin targets'
                      /\ scene.vnc /\ Open(link'[m]) => byTab'[run'[m].pane] = m
    BY DEF Links
  <2>1. CASE m = n
    <3>1. link[m].step = "cut" /\ link'[m].step = "cut"
      BY <1>0, <1>6, <2>1 DEF Links, Viewing
    <3>2. ~Given(m)
      BY <2>1 DEF Given, Present
    <3>3. QED
      BY <1>2, <3>1, <3>2 DEF Open
  <2>2. CASE m # n
    <3>1. run'[m] = run[m] /\ Given(m)' = Given(m)
      BY <1>2, <2>2
    <3>2. link'[m].step # "cut" => run[m] # None /\ run[m].step \in Viewing
      BY <1>0, <1>6 DEF Links
    <3>3. ASSUME scene.vnc, Given(m)
          PROVE  /\ ~Open(link'[m])
                 /\ run[m].step \in {"importing"} \cup Viewing => m \notin targets'
      BY <1>0, <1>4, <1>5, <2>2, <3>3 DEF Links
    <3>4. ASSUME scene.vnc, Open(link'[m]) PROVE byTab'[run[m].pane] = m
      <4>1. byTab[run[m].pane] = m /\ m # byTab[p] /\ run[m] # None
        BY <1>0, <1>5, <3>4 DEF Links, Open
      <4>2. run[m].pane \in Panes
        BY <1>0, <4>1 DEF Shapes, RunRecords
      <4>3. QED
        BY <1>4, <3>4, <4>1, <4>2
    <3>5. QED
      BY <3>1, <3>2, <3>3, <3>4
  <2>3. QED
    BY <2>1, <2>2
<1>12. Handshakes'
  <2>1. \A m \in Runs : LinkIsSound(link'[m])
    BY <1>0, <1>4, CutLink DEF Handshakes, Shapes
  <2>2. QED
    BY <2>1 DEF Handshakes, LinkIsSound, Vouched
<1>13. QED
  BY <1>2, <1>7, <1>8, <1>9, <1>10, <1>11, <1>12 DEF IInv

(* The server is not there, or is shut down for another guacd: the call    *)
(* waits for it, unless its start has failed. There is no token meanwhile. *)
LEMMA ServedLater ==
  ASSUME IInv, NEW n \in Runs, Present(n), run[n].step \in {"vault", "probe"},
         host # "up" \/ (~scene.vnc /\ scene.changes),
         host' = IF host = "failed" THEN host ELSE "starting", Waits(n),
         ~scene.changes /\ ~scene.vnc => builtFor' = "g1",
         targets' = {}, byTab' \in [Panes -> MaybeRun], pending' \in [Panes -> MaybeRun],
         \A q \in Panes : byTab'[q] = None /\ pending'[q] = None,
         link' \in [Runs -> Link], \A m \in Runs : link'[m] \in {link[m], Cut(link[m])},
         UNCHANGED <<scene, status, cur, guacd, pinned>>
  PROVE  IInv'
<1>0. /\ Shapes /\ Attempts /\ Hosted /\ Tokens /\ LogRows /\ Links /\ Handshakes
      /\ UNCHANGED <<logs, rows>>
  BY DEF IInv, Waits
<1>1. PICK p \in Panes : p = run[n].pane /\ run[n] # None /\ n # None
  BY <1>0, NoneAssumption DEF Shapes, RunRecords, Present
<1>2. PICK s \in {"opening", "refused"} :
        /\ run' = Resumed({n}, s) /\ (s = "refused") = (host = "failed")
        /\ waiting' = IF s = "refused" THEN waiting ELSE [waiting EXCEPT ![p] = n]
  <2>1. CASE host = "failed"
    BY <1>1, <2>1 DEF Waits
  <2>2. CASE host # "failed"
    BY <1>1, <2>2 DEF Waits
  <2>3. QED
    BY <2>1, <2>2
<1>3. /\ Attempts' /\ run' \in [Runs -> RunRecords \cup {None}]
      /\ \A m \in Runs : /\ (run'[m] = None) = (run[m] = None)
                         /\ run[m] # None => run'[m].pane = run[m].pane
                         /\ Given(m)' = Given(m) /\ Present(m)' = Present(m)
                         /\ m # n => run'[m] = run[m]
      /\ run'[n].step = s /\ run'[n].pane = p /\ Present(n)'
  <2>1. Shapes /\ Attempts /\ run' = Resumed({n}, s) /\ UNCHANGED <<scene, status, cur>>
    BY <1>0, <1>2
  <2>2. s \in {"opened", "opening", "refused"} /\ run[n].step \in {"vault", "probe", "opening"}
    OBVIOUS
  <2>3. /\ Attempts' /\ run' \in [Runs -> RunRecords \cup {None}]
        /\ \A m \in Runs : /\ (run'[m] = None) = (run[m] = None)
                           /\ run[m] # None => run'[m].pane = run[m].pane
                           /\ Given(m)' = Given(m) /\ Present(m)' = Present(m)
                           /\ m # n => run'[m] = run[m]
        /\ run'[n].step = s
    BY <1>1, <2>1, <2>2, ResumedOne
  <2>4. QED
    BY <1>1, <2>3
<1>4. \A m \in Runs : /\ Open(link'[m]) => Open(link[m])
                      /\ link'[m].step # "cut" => link[m].step # "cut"
                      /\ LinkIsSound(link'[m])
  BY <1>0, CutLink DEF Shapes, Handshakes
<1>5. Shapes'
  <2>1. host' \in {"down", "starting", "up", "failed"} /\ waiting' \in [Panes -> MaybeRun]
    BY <1>0, <1>2 DEF Shapes, MaybeRun
  <2>2. QED
    BY <1>0, <1>3, <2>1 DEF Shapes
<1>6. Hosted'
  <2>1. host = "failed" => Waiters = {}
    BY <1>0 DEF Hosted
  <2>2. \A m \in Runs : (m \in Waiters') = (IF m = n THEN s = "opening" ELSE m \in Waiters)
    BY <1>1, <1>3 DEF Waiters, In
  <2>3. Waiters' # {} => host' = "starting"
    <3>1. CASE host = "failed"
      <4>1. \A m \in Runs : m \notin Waiters'
        BY <1>2, <2>1, <2>2, <3>1
      <4>2. QED
        BY <4>1 DEF Waiters
    <3>2. CASE host # "failed"
      BY <3>2
    <3>3. QED
      BY <3>1, <3>2
  <2>4. ASSUME NEW m \in Runs, m \in Waiters', Present(m)' PROVE waiting'[run'[m].pane] = m
    <3>1. CASE m = n
      <4>1. s = "opening"
        BY <2>2, <2>4, <3>1
      <4>2. QED
        BY <1>0, <1>2, <1>3, <3>1, <4>1 DEF Shapes
    <3>2. CASE m # n
      <4>1. m \in Waiters /\ Present(m) /\ run'[m] = run[m] /\ run[m] # None
        BY <1>3, <2>2, <2>4, <3>2 DEF Present
      <4>2. waiting[run[m].pane] = m /\ run[m].pane \in Panes
        BY <1>0, <4>1 DEF Hosted, Shapes, RunRecords
      <4>3. run[m].pane # p
        BY <1>0, <1>1, <3>2, <4>1 DEF Attempts
      <4>4. QED
        BY <1>0, <1>2, <4>1, <4>2, <4>3 DEF Shapes
    <3>3. QED
      BY <3>1, <3>2
  <2>5. ASSUME NEW q \in Panes, waiting'[q] # None
        PROVE  waiting'[q] \in Waiters' /\ run'[waiting'[q]].pane = q
    <3>1. CASE s = "opening" /\ q = p
      BY <1>0, <1>2, <1>3, <2>2, <3>1 DEF Shapes
    <3>2. CASE s = "opening" /\ q # p
      <4>1. waiting'[q] = waiting[q] /\ waiting[q] \in Waiters /\ run[waiting[q]].pane = q
        BY <1>0, <1>2, <2>5, <3>2 DEF Shapes, Hosted
      <4>2. waiting[q] # n /\ waiting[q] \in Runs
        BY <1>1, <3>2, <4>1 DEF Waiters
      <4>3. QED
        BY <1>3, <2>2, <4>1, <4>2
    <3>3. CASE s = "refused"
      BY <1>0, <1>2, <2>1, <2>5, <3>3 DEF Hosted
    <3>4. QED
      BY <3>1, <3>2, <3>3
  <2>6. ~scene.changes => guacd = "g1" /\ (~scene.vnc => builtFor' = "g1")
    BY <1>0 DEF Hosted
  <2>7. scene.vnc \/ ~scene.changes =>
          /\ ~scene.started
          /\ \A m \in Runs : ~(run'[m] # None /\ run'[m].step \in Served)
    <3> SUFFICES ASSUME scene.vnc \/ ~scene.changes
                 PROVE  /\ ~scene.started
                        /\ \A m \in Runs : ~(run'[m] # None /\ run'[m].step \in Served)
      OBVIOUS
    <3>1. ~scene.started /\ \A m \in Runs : ~(run[m] # None /\ run[m].step \in Served)
      BY <1>0 DEF Hosted
    <3>2. s \notin Served
      BY DEF Served, Viewing
    <3>3. QED
      BY <1>3, <3>1, <3>2
  <2>8. \A m \in Waiters' : m \in Runs
    BY DEF Waiters
  <2>9. QED
    BY <2>3, <2>4, <2>5, <2>6, <2>7, <2>8 DEF Hosted
<1>7. Tokens'
  BY DEF Tokens
<1>8. LogRows'
  BY <1>0, <1>3 DEF LogRows, Shapes, Present
<1>9. Links'
  <2> SUFFICES ASSUME NEW m \in Runs
               PROVE  /\ link'[m].step # "cut" => run'[m] # None /\ run'[m].step \in Viewing
                      /\ scene.vnc => ~Open(link'[m])
    BY DEF Links
  <2>1. link'[m].step # "cut" => run'[m] # None /\ run'[m].step \in Viewing
    <3>1. link'[m].step # "cut" => run[m] # None /\ run[m].step \in Viewing /\ m # n
      BY <1>0, <1>4 DEF Links, Viewing
    <3>2. QED
      BY <1>3, <3>1
  <2>2. ASSUME scene.vnc, Open(link'[m]) PROVE FALSE
    <3>1. byTab[run[m].pane] = m /\ run[m] # None /\ m # None
      BY <1>0, <1>4, <2>2, NoneAssumption DEF Links, Open
    <3>2. run[m].pane \in Panes /\ byTab[run[m].pane] = None
      BY <1>0, <2>2, <3>1, NoServer DEF Shapes, RunRecords
    <3>3. QED
      BY <3>1, <3>2
  <2>3. QED
    BY <2>1, <2>2
<1>10. Handshakes'
  BY <1>4 DEF Handshakes, LinkIsSound, Vouched
<1>11. QED
  BY <1>3, <1>5, <1>6, <1>7, <1>8, <1>9, <1>10 DEF IInv

LEMMA UnlockedStep ==
  ASSUME IInv, NEW n \in Runs, Unlocked(n) PROVE IInv'
<1>0. /\ Shapes /\ Attempts /\ Hosted /\ Tokens
      /\ run[n] # None /\ run[n].step = "vault" /\ UNCHANGED <<scene, status, cur>>
  BY DEF IInv, Unlocked, In
<1>1. CASE run[n].disposed
  <2>1. Goes(n, "over") /\ UNCHANGED <<scene, status, cur, link, mainvars>>
    BY <1>0, <1>1 DEF Unlocked
  <2>2. QED
    BY <1>0, <1>1, <2>1, GoesBeforeViewing, StepNames
<1>2. CASE ~run[n].disposed /\ ~scene.vnc
  <2>1. /\ Goes(n, IF scene.windows THEN "launch" ELSE "probe")
        /\ UNCHANGED <<scene, status, cur, link, mainvars>>
    BY <1>0, <1>2 DEF Unlocked
  <2>2. CASE scene.windows
    BY <1>0, <1>2, <2>1, <2>2, GoesBeforeViewing, StepNames
  <2>3. CASE ~scene.windows
    BY <1>0, <1>2, <2>1, <2>3, GoesBeforeViewing, StepNames
  <2>4. QED
    BY <2>2, <2>3
<1>3. CASE ~run[n].disposed /\ scene.vnc
  <2>1. OpenVnc(n) /\ UNCHANGED <<guacd, pinned>> /\ Present(n)
    BY <1>0, <1>3 DEF Unlocked, Present
  <2>2. CASE host = "up"
    <3>1. /\ run' = Resumed({n}, "opened") /\ StartLog(n)
          /\ link' = CutAll({byTab[run[n].pane], pending[run[n].pane]})
          /\ pending' = [pending EXCEPT ![run[n].pane] = None]
          /\ targets' = (targets \ {byTab[run[n].pane]}) \cup {n}
          /\ byTab' = [byTab EXCEPT ![run[n].pane] = n]
          /\ UNCHANGED <<host, builtFor, waiting>>
      BY <2>1, <2>2 DEF OpenVnc
    <3>2. run[n].step \in {"vault", "probe"}
      BY <1>0
    <3>3. QED
      BY <1>0, <1>3, <2>1, <2>2, <3>1, <3>2, ServedAtOnce
  <2>3. CASE host # "up"
    <3>1. /\ link' = CutAll({byTab[run[n].pane], pending[run[n].pane]})
          /\ pending' = [pending EXCEPT ![run[n].pane] = None]
          /\ targets' = targets \ {byTab[run[n].pane]}
          /\ byTab' = [byTab EXCEPT ![run[n].pane] = None]
          /\ host' = IF host = "down" THEN "starting" ELSE host
          /\ Waits(n)
      BY <2>1, <2>3 DEF OpenVnc
    <3>2. targets = {} /\ \A q \in Panes : byTab[q] = None /\ pending[q] = None
      BY <1>0, <2>3, NoServer
    <3>3. /\ targets' = {} /\ byTab' \in [Panes -> MaybeRun] /\ pending' \in [Panes -> MaybeRun]
          /\ \A q \in Panes : byTab'[q] = None /\ pending'[q] = None
      BY <1>0, <3>1, <3>2 DEF Shapes, MaybeRun
    <3>4. host' = IF host = "failed" THEN host ELSE "starting"
      BY <1>0, <2>3, <3>1 DEF Shapes
    <3>5. link' \in [Runs -> Link] /\ \A m \in Runs : link'[m] \in {link[m], Cut(link[m])}
      <4>1. link \in [Runs -> Link]
        BY <1>0 DEF Shapes
      <4>2. QED
        BY <3>1, <4>1, CutAllFacts
    <3>6. run[n].step \in {"vault", "probe"}
      BY <1>0
    <3>7. QED
      BY <1>0, <1>3, <2>1, <2>3, <3>1, <3>3, <3>4, <3>5, <3>6, ServedLater
  <2>4. QED
    BY <2>2, <2>3
<1>4. QED
  BY <1>1, <1>2, <1>3

LEMMA ProbedStep ==
  ASSUME IInv, NEW n \in Runs, Probed(n) PROVE IInv'
<1>0. /\ Shapes /\ Attempts /\ Hosted /\ Tokens /\ ~scene.vnc
      /\ run[n] # None /\ run[n].step = "probe" /\ UNCHANGED <<scene, status, cur>>
  BY DEF IInv, Probed, In, Attempts
<1>1. CASE run[n].disposed
  <2>1. Goes(n, "over") /\ UNCHANGED <<scene, status, cur, link, mainvars>>
    BY <1>0, <1>1 DEF Probed
  <2>2. QED
    BY <1>0, <1>1, <2>1, GoesBeforeViewing, StepNames
<1>2. CASE ~run[n].disposed /\ Goes(n, "launch") /\ UNCHANGED <<link, mainvars>>
  BY <1>0, <1>2, GoesBeforeViewing, StepNames
<1>3. CASE ~run[n].disposed /\ OpenRdp(n) /\ UNCHANGED <<guacd, pinned>>
  <2> DEFINE stale == host = "up" /\ builtFor # guacd
  <2>1. /\ link' = (IF stale THEN CutAll(Runs) ELSE link)
        /\ UNCHANGED <<targets, byTab, pending>>
        /\ host = "up" /\ ~stale => /\ run' = Resumed({n}, "opened") /\ StartLog(n)
                                    /\ UNCHANGED <<host, builtFor, waiting>>
        /\ ~(host = "up" /\ ~stale) =>
             /\ host' = IF host = "failed" THEN host ELSE "starting"
             /\ builtFor' = BuiltFor(stale) /\ Waits(n)
    BY <1>3 DEF OpenRdp
  <2>2. Present(n) /\ run[n].step \in {"vault", "probe"}
    BY <1>0, <1>3 DEF Present
  <2>3. CASE host = "up" /\ ~stale
    <3>1. /\ run' = Resumed({n}, "opened") /\ StartLog(n)
          /\ UNCHANGED <<link, targets, byTab, pending, host, builtFor, waiting>>
      BY <2>1, <2>3
    <3>2. QED
      BY <1>0, <1>3, <2>2, <2>3, <3>1, ServedAtOnce
  <2>4. CASE ~(host = "up" /\ ~stale)
    <3>1. stale => scene.changes
      BY <1>0 DEF Hosted
    <3>2. host # "up" \/ scene.changes
      BY <2>4, <3>1
    <3>3. ~scene.changes => builtFor' = "g1"
      BY <1>0, <2>1, <2>4, <3>1 DEF Hosted, BuiltFor
    <3>4. targets = {} /\ \A q \in Panes : byTab[q] = None /\ pending[q] = None
      BY <1>0, NoServer
    <3>5. /\ targets' = {} /\ byTab' \in [Panes -> MaybeRun] /\ pending' \in [Panes -> MaybeRun]
          /\ \A q \in Panes : byTab'[q] = None /\ pending'[q] = None
      BY <1>0, <2>1, <3>4 DEF Shapes
    <3>6. link' \in [Runs -> Link] /\ \A m \in Runs : link'[m] \in {link[m], Cut(link[m])}
      <4>1. link \in [Runs -> Link]
        BY <1>0 DEF Shapes
      <4>2. link' = CutAll(Runs) \/ link' = link
        BY <2>1
      <4>3. QED
        BY <4>1, <4>2, CutAllFacts
    <3>7. host' = (IF host = "failed" THEN host ELSE "starting") /\ Waits(n)
      BY <2>1, <2>4
    <3>8. QED
      BY <1>0, <1>3, <2>2, <3>2, <3>3, <3>5, <3>6, <3>7, ServedLater
  <2>5. QED
    BY <2>3, <2>4
<1>4. QED
  BY <1>0, <1>1, <1>2, <1>3 DEF Probed

-----------------------------------------------------------------------------
(* Panes that come and go.                                                 *)

(* A new attempt, of a pane that has none then.                            *)
LEMMA NewAttempt ==
  ASSUME Shapes, NEW p \in Panes
  PROVE  /\ NewRun(p) \in RunRecords /\ NewRun(p) # None /\ ~NewRun(p).disposed
         /\ NewRun(p).pane = p /\ NewRun(p).step = "vault"
<1>1. scene.cands \in Nat
  BY SceneFacts DEF Shapes
<1>2. NewRun(p).pane = p /\ NewRun(p).step = "vault"
  BY DEF NewRun
<1>3. NewRun(p).disposed = FALSE
  BY Zenon DEF NewRun
<1>4. NewRun(p) \in RunRecords
  BY <1>1 DEF NewRun, RunRecords, RunSteps
<1>5. QED
  BY <1>2, <1>3, <1>4, NoneAssumption

LEMMA MountStep ==
  ASSUME IInv, NEW p \in Panes, Mount(p) PROVE IInv'
<1>0. /\ Shapes /\ Attempts /\ Hosted /\ Tokens /\ LogRows /\ Links /\ Handshakes
      /\ status[p] = "none" /\ status' = [status EXCEPT ![p] = "connecting"]
      /\ UNCHANGED <<scene, link, host, builtFor, guacd, waiting, targets, byTab, pending,
                     pinned, logs, rows>>
  BY DEF IInv, Mount, mainvars
<1>1. PICK c \in Runs : /\ run[c] = None /\ cur' = [cur EXCEPT ![p] = c]
                        /\ run' = [run EXCEPT ![c] = NewRun(p)]
  <2>1. Fresh # {} /\ LET n == CHOOSE f \in Fresh : TRUE
                      IN cur' = [cur EXCEPT ![p] = n] /\ run' = [run EXCEPT ![n] = NewRun(p)]
    BY DEF Mount
  <2>2. \A f \in Fresh : f \in Runs /\ run[f] = None
    BY DEF Fresh
  <2>3. QED
    BY <2>1, <2>2
<1>2. /\ run' \in [Runs -> RunRecords \cup {None}] /\ c # None
      /\ run'[c] # None /\ ~run'[c].disposed /\ run'[c].pane = p /\ run'[c].step = "vault"
      /\ \A m \in Runs : m # c => run'[m] = run[m]
  <2>1. run' = [run EXCEPT ![c] = NewRun(p)] /\ run \in [Runs -> RunRecords \cup {None}]
    BY <1>0, <1>1 DEF Shapes
  <2>2. QED
    BY <1>0, <2>1, NewAttempt, NoneAssumption
<1>3. /\ cur[p] = None /\ cur'[p] = c /\ status'[p] = "connecting"
      /\ \A q \in Panes : q # p => cur'[q] = cur[q] /\ status'[q] = status[q]
  BY <1>0, <1>1 DEF Shapes, Attempts
<1>4. Shapes'
  BY <1>0, <1>1, <1>2 DEF Shapes, Statuses, MaybeRun
<1>5. /\ \A m \in Runs : m # c => Given(m)' = Given(m) /\ Present(m)' = Present(m)
      /\ ~Given(c)' /\ Present(c)' /\ ~Given(c) /\ ~Present(c)
  BY <1>1, <1>2 DEF Given, Present
<1>6. Attempts'
  <2>1. ASSUME NEW q \in Panes, cur'[q] # None
        PROVE  /\ run'[cur'[q]] # None /\ ~run'[cur'[q]].disposed /\ run'[cur'[q]].pane = q
               /\ status'[q] \in ShownAt(run'[cur'[q]].step)
    <3>1. CASE q = p
      <4>1. "connecting" \in ShownAt("vault")
        BY DEF ShownAt
      <4>2. QED
        BY <1>2, <1>3, <3>1, <4>1
    <3>2. CASE q # p
      <4>1. /\ cur'[q] = cur[q] /\ cur[q] \in Runs /\ Present(cur[q]) /\ run[cur[q]].pane = q
            /\ status'[q] \in ShownAt(run[cur[q]].step)
        BY <1>0, <1>3, <2>1, <3>2 DEF Attempts, Shapes, MaybeRun
      <4>2. cur[q] # c
        BY <1>5, <4>1
      <4>3. QED
        BY <1>2, <4>1, <4>2 DEF Present
    <3>3. QED
      BY <3>1, <3>2
  <2>2. \A q \in Panes : (cur'[q] = None) = (status'[q] \in {"none", "closed"})
    BY <1>0, <1>2, <1>3 DEF Attempts
  <2>3. \A m \in Runs : Present(m)' => cur'[run'[m].pane] = m
    <3> SUFFICES ASSUME NEW m \in Runs, Present(m)', m # c PROVE cur'[run'[m].pane] = m
      BY <1>2, <1>3
    <3>1. Present(m) /\ run'[m] = run[m] /\ cur[run[m].pane] = m
      BY <1>0, <1>2, <1>5 DEF Attempts
    <3>2. run[m].pane \in Panes /\ m # None
      BY <1>0, <3>1, NoneAssumption DEF Shapes, RunRecords, Present
    <3>3. QED
      BY <1>3, <3>1, <3>2
  <2>4. scene.patient => \A m \in Runs : Given(m)' => run'[m].step = "over"
    BY <1>0, <1>2, <1>5 DEF Attempts
  <2>5. \A m \in Runs : In(m, "probe")' => ~scene.vnc
    BY <1>0, <1>2 DEF Attempts, In
  <2>6. QED
    BY <1>0, <2>1, <2>2, <2>3, <2>4, <2>5 DEF Attempts, Present
<1>7. Hosted'
  <2>1. Waiters' = Waiters /\ \A m \in Waiters : m \in Runs /\ m # c
    BY <1>1, <1>2 DEF Waiters, In
  <2>2. \A m \in Runs : run'[m] # None /\ run'[m].step \in Served =>
                          run[m] # None /\ run[m].step \in Served
    BY <1>2 DEF Served, Viewing
  <2>3. \A m \in Waiters : Present(m)' => waiting[run'[m].pane] = m
    BY <1>0, <1>2, <1>5, <2>1 DEF Hosted
  <2>4. \A q \in Panes : waiting[q] # None => waiting[q] \in Waiters /\ run'[waiting[q]].pane = q
    BY <1>0, <1>2, <2>1 DEF Hosted
  <2>5. QED
    BY <1>0, <2>1, <2>2, <2>3, <2>4 DEF Hosted
<1>8. Tokens'
  <2>1. \A m \in targets : m \in Runs /\ m # c /\ run'[m] = run[m] /\ Present(m)' = Present(m)
    BY <1>0, <1>1, <1>2, <1>5 DEF Tokens, Shapes
  <2>2. \A q \in Panes : pending[q] # None => pending[q] = cur'[q] /\ byTab[q] = cur'[q]
    BY <1>0, <1>3 DEF Tokens
  <2>3. QED
    BY <1>0, <2>1, <2>2 DEF Tokens
<1>9. LogRows'
  <2>1. \A m \in rows : m \in Runs
    BY <1>0 DEF Shapes
  <2>2. QED
    BY <1>0, <1>2, <1>5, <2>1 DEF LogRows
<1>10. Links'
  <2>1. link[c].step = "cut"
    BY <1>0, <1>1 DEF Links
  <2>2. QED
    BY <1>0, <1>2, <1>5, <2>1 DEF Links, Open
<1>11. Handshakes'
  BY <1>0 DEF Handshakes, LinkIsSound, Vouched
<1>12. QED
  BY <1>4, <1>6, <1>7, <1>8, <1>9, <1>10, <1>11 DEF IInv

(* An attempt that is given up: it has no viewer any more.                 *)
LEMMA DisposedFacts ==
  ASSUME Shapes, NEW n \in Runs, run[n] # None
  PROVE  /\ Disposed(n) \in [Runs -> RunRecords \cup {None}]
         /\ Disposed(n)[n] # None /\ Disposed(n)[n].disposed
         /\ Disposed(n)[n].pane = run[n].pane
         /\ Disposed(n)[n].step = IF run[n].step \in Viewing THEN "over" ELSE run[n].step
         /\ \A m \in Runs : m # n => Disposed(n)[m] = run[m]
<1>1. run[n] \in RunRecords /\ run \in [Runs -> RunRecords \cup {None}]
  BY DEF Shapes
<1>2. PICK s \in RunSteps : s = IF run[n].step \in Viewing THEN "over" ELSE run[n].step
  BY <1>1 DEF RunRecords, RunSteps
<1>3. PICK r : r = [run[n] EXCEPT !.disposed = TRUE]
  OBVIOUS
<1>4. r.pane = run[n].pane /\ r.step = run[n].step /\ r.cands = run[n].cands /\ r \in RunRecords
  BY <1>1, <1>3 DEF RunRecords
<1>5. r.disposed = TRUE
  BY <1>1, <1>3, Zenon DEF RunRecords
<1>6. PICK q : q = [r EXCEPT !.step = s]
  OBVIOUS
<1>7. q \in RunRecords /\ q # None /\ q.step = s /\ q.pane = run[n].pane /\ q.disposed = r.disposed
  BY <1>4, <1>6, RecordMoves
<1>8. Disposed(n) = [run EXCEPT ![n] = q]
  BY <1>1, <1>2, <1>3, <1>4, <1>6 DEF Disposed
<1>9. /\ Disposed(n) \in [Runs -> RunRecords \cup {None}] /\ Disposed(n)[n] = q
      /\ \A m \in Runs : m # n => Disposed(n)[m] = run[m]
  BY <1>1, <1>7, <1>8
<1>10. QED
  BY <1>2, <1>5, <1>7, <1>9

(* A pane closes, or gives its attempt up for another: the attempt, its    *)
(* token, its prompt and its row go with it, and its links are cut.        *)
LEMMA PaneLeaves ==
  ASSUME IInv, NEW p \in Panes, status[p] \notin {"none", "closed"},
         scene.patient => ~Busy(p),
         NEW c \in MaybeRun, c # None => run[c] = None,
         cur' = [cur EXCEPT ![p] = c],
         run' = IF c = None THEN Disposed(cur[p])
                ELSE [Disposed(cur[p]) EXCEPT ![c] = NewRun(p)],
         status' = [status EXCEPT ![p] = IF c = None THEN "closed" ELSE "connecting"],
         CloseBridge(p), EndLog(p),
         UNCHANGED <<scene, host, builtFor, guacd, waiting, pinned>>
  PROVE  IInv'
<1>0. /\ Shapes /\ Attempts /\ Hosted /\ Tokens /\ LogRows /\ Links /\ Handshakes
  BY DEF IInv
<1>1. PICK n \in Runs : /\ n = cur[p] /\ run[n] # None /\ ~run[n].disposed /\ run[n].pane = p
                        /\ status[p] \in ShownAt(run[n].step) /\ n # None /\ n # c
  BY <1>0, NoneAssumption DEF Shapes, MaybeRun, Attempts, Present
<1>2. /\ run' \in [Runs -> RunRecords \cup {None}]
      /\ run'[n] # None /\ run'[n].disposed /\ run'[n].pane = p
      /\ run'[n].step = (IF run[n].step \in Viewing THEN "over" ELSE run[n].step)
      /\ \A m \in Runs : m # n /\ m # c => run'[m] = run[m]
      /\ c # None => /\ c \in Runs /\ run'[c] # None /\ ~run'[c].disposed
                     /\ run'[c].pane = p /\ run'[c].step = "vault"
  <2>1. PICK d \in [Runs -> RunRecords \cup {None}] :
          /\ d = Disposed(n) /\ d[n] # None /\ d[n].disposed /\ d[n].pane = p
          /\ d[n].step = (IF run[n].step \in Viewing THEN "over" ELSE run[n].step)
          /\ \A m \in Runs : m # n => d[m] = run[m]
    BY <1>0, <1>1, DisposedFacts
  <2>2. PICK r : /\ r = NewRun(p) /\ r \in RunRecords /\ r # None /\ ~r.disposed
                 /\ r.pane = p /\ r.step = "vault"
    BY <1>0, NewAttempt
  <2>3. CASE c = None
    BY <1>1, <2>1, <2>3
  <2>4. CASE c # None
    <3>1. run' = [d EXCEPT ![c] = r] /\ c \in Runs
      BY <1>1, <2>1, <2>2, <2>4 DEF MaybeRun
    <3>2. /\ run' \in [Runs -> RunRecords \cup {None}] /\ run'[c] = r
          /\ \A m \in Runs : m # c => run'[m] = d[m]
      BY <2>2, <3>1
    <3>3. QED
      BY <1>1, <2>1, <2>2, <3>1, <3>2
  <2>5. QED
    BY <2>3, <2>4
<1>3. /\ cur' \in [Panes -> MaybeRun] /\ cur'[p] = c /\ status' \in [Panes -> Statuses]
      /\ status'[p] = (IF c = None THEN "closed" ELSE "connecting")
      /\ \A q \in Panes : q # p => cur'[q] = cur[q] /\ status'[q] = status[q]
  BY <1>0 DEF Shapes, Statuses
<1>4. /\ targets' = targets \ {byTab[p]} /\ rows' = rows \ {logs[p]}
      /\ byTab' \in [Panes -> MaybeRun] /\ pending' \in [Panes -> MaybeRun]
      /\ logs' \in [Panes -> MaybeRun] /\ byTab'[p] = None /\ pending'[p] = None
      /\ \A q \in Panes : q # p => /\ byTab'[q] = byTab[q] /\ pending'[q] = pending[q]
                                   /\ logs'[q] = logs[q]
  BY <1>0 DEF CloseBridge, EndLog, Shapes, MaybeRun
<1>5. /\ link' \in [Runs -> Link]
      /\ \A m \in Runs : /\ link'[m] = link[m] \/ link'[m] = Cut(link[m])
                         /\ m \in {byTab[p], n} => link'[m] = Cut(link[m])
  BY <1>0, <1>1, CutAllFacts DEF CloseBridge, Shapes
<1>6. \A m \in Runs : /\ Open(link'[m]) => Open(link[m]) /\ m \notin {byTab[p], n}
                      /\ link'[m].step # "cut" => link[m].step # "cut" /\ m # n
                      /\ LinkIsSound(link'[m])
  BY <1>0, <1>5, CutLink DEF Shapes, Handshakes
<1>7. /\ \A m \in Runs : m # n /\ m # c => Given(m)' = Given(m) /\ Present(m)' = Present(m)
      /\ Given(n)' /\ ~Present(n)' /\ Present(n) /\ ~Given(n)
      /\ c # None => ~Given(c)' /\ Present(c)' /\ ~Given(c) /\ ~Present(c)
  BY <1>1, <1>2 DEF Given, Present
<1>8. Shapes'
  <2>1. targets' \subseteq Runs /\ rows' \subseteq Runs
    BY <1>0, <1>4 DEF Shapes
  <2>2. QED
    BY <1>0, <1>2, <1>3, <1>4, <1>5, <2>1 DEF Shapes
<1>9. \A m \in Runs : run[m] # None => m # c
  BY NoneAssumption
<1>10. Attempts'
  <2>1. ASSUME NEW q \in Panes, cur'[q] # None
        PROVE  /\ run'[cur'[q]] # None /\ ~run'[cur'[q]].disposed /\ run'[cur'[q]].pane = q
               /\ status'[q] \in ShownAt(run'[cur'[q]].step)
    <3>1. CASE q = p
      <4>1. "connecting" \in ShownAt("vault")
        BY DEF ShownAt
      <4>2. QED
        BY <1>2, <1>3, <2>1, <3>1, <4>1
    <3>2. CASE q # p
      <4>1. /\ cur'[q] = cur[q] /\ cur[q] \in Runs /\ Present(cur[q]) /\ run[cur[q]].pane = q
            /\ status'[q] \in ShownAt(run[cur[q]].step)
        BY <1>0, <1>3, <2>1, <3>2 DEF Attempts, Shapes, MaybeRun
      <4>2. cur[q] # c /\ cur[q] # n
        BY <1>1, <1>9, <3>2, <4>1 DEF Present
      <4>3. QED
        BY <1>2, <4>1, <4>2 DEF Present
    <3>3. QED
      BY <3>1, <3>2
  <2>2. \A q \in Panes : (cur'[q] = None) = (status'[q] \in {"none", "closed"})
    BY <1>0, <1>3 DEF Attempts
  <2>3. ASSUME NEW m \in Runs, Present(m)' PROVE cur'[run'[m].pane] = m
    <3>1. CASE m = c
      BY <1>1, <1>2, <1>3, <3>1, NoneAssumption
    <3>2. CASE m # c
      <4>1. m # n /\ Present(m) /\ run'[m] = run[m] /\ cur[run[m].pane] = m
        BY <1>0, <1>2, <1>7, <2>3, <3>2 DEF Attempts
      <4>2. run[m].pane \in Panes /\ m # None
        BY <1>0, <4>1, NoneAssumption DEF Shapes, RunRecords, Present
      <4>3. run[m].pane # p
        BY <1>1, <4>1
      <4>4. QED
        BY <1>3, <4>1, <4>2, <4>3
    <3>3. QED
      BY <3>1, <3>2
  <2>4. ASSUME scene.patient, NEW m \in Runs, Given(m)' PROVE run'[m].step = "over"
    <3>1. CASE m = n
      <4>1. status[p] \notin {"connecting", "credentials"}
        BY <2>4 DEF Busy
      <4>2. run[n].step \in {"on", "over"}
        BY <1>1, <4>1 DEF ShownAt
      <4>3. QED
        BY <1>2, <3>1, <4>2 DEF Viewing
    <3>2. CASE m # n
      <4>1. m # c
        BY <1>7, <2>4, NoneAssumption
      <4>2. Given(m) /\ run'[m] = run[m]
        BY <1>2, <1>7, <2>4, <3>2, <4>1
      <4>3. QED
        BY <1>0, <2>4, <4>2 DEF Attempts
    <3>3. QED
      BY <3>1, <3>2
  <2>5. ASSUME NEW m \in Runs, In(m, "probe")' PROVE ~scene.vnc
    <3>1. m # c
      BY <1>2, <2>5, NoneAssumption DEF In
    <3>2. In(m, "probe")
      BY <1>1, <1>2, <2>5, <3>1 DEF In
    <3>3. QED
      BY <1>0, <3>2 DEF Attempts
  <2>6. QED
    BY <1>0, <2>1, <2>2, <2>3, <2>4, <2>5 DEF Attempts, Present
<1>11. Hosted'
  <2>1. \A m \in Runs : In(m, "opening")' = In(m, "opening")
    <3> SUFFICES ASSUME NEW m \in Runs PROVE In(m, "opening")' = In(m, "opening")
      OBVIOUS
    <3>1. CASE m = c
      BY <1>1, <1>2, <3>1, NoneAssumption DEF In
    <3>2. CASE m # c
      BY <1>1, <1>2, <3>2 DEF In, Viewing
    <3>3. QED
      BY <3>1, <3>2
  <2>2. Waiters' = Waiters /\ \A m \in Waiters : m \in Runs /\ m # c
    <3>1. Waiters' = Waiters
      BY <2>1 DEF Waiters
    <3>2. QED
      BY <1>9, <3>1 DEF Waiters, In
  <2>3. \A m \in Runs : run'[m] # None /\ run'[m].step \in Served =>
                          run[m] # None /\ run[m].step \in Served
    <3> SUFFICES ASSUME NEW m \in Runs, run'[m] # None, run'[m].step \in Served
                 PROVE  run[m] # None /\ run[m].step \in Served
      OBVIOUS
    <3>1. m # c
      BY <1>2, NoneAssumption DEF Served, Viewing
    <3>2. QED
      BY <1>1, <1>2, <3>1 DEF Served, Viewing
  <2>4. \A m \in Waiters : Present(m)' => waiting[run'[m].pane] = m
    BY <1>0, <1>2, <1>7, <2>2 DEF Hosted
  <2>5. \A q \in Panes : waiting[q] # None => waiting[q] \in Waiters /\ run'[waiting[q]].pane = q
    BY <1>0, <1>1, <1>2, <2>2 DEF Hosted
  <2>6. QED
    BY <1>0, <2>2, <2>3, <2>4, <2>5 DEF Hosted
<1>12. Tokens'
  <2>1. ASSUME NEW q \in Panes, byTab'[q] # None
        PROVE  byTab'[q] \in targets' /\ run'[byTab'[q]].pane = q
    <3>1. q # p /\ byTab'[q] = byTab[q]
      BY <1>4, <2>1
    <3>2. /\ byTab[q] \in targets /\ run[byTab[q]].pane = q /\ byTab[q] \in Runs
          /\ run[byTab[q]] # None
      BY <1>0, <2>1, <3>1 DEF Tokens, Shapes
    <3>3. byTab[q] # byTab[p] /\ byTab[q] # n /\ byTab[q] # c
      BY <1>0, <1>1, <1>9, <2>1, <3>1, <3>2 DEF Tokens
    <3>4. QED
      BY <1>2, <1>4, <3>1, <3>2, <3>3
  <2>2. ASSUME NEW m \in targets'
        PROVE  /\ run'[m] # None /\ scene.vnc /\ host = "up"
               /\ Present(m)' => byTab'[run'[m].pane] = m
               /\ scene.started \/ scene.patient => Present(m)'
    <3>1. /\ m \in targets /\ m # byTab[p] /\ m \in Runs /\ run[m] # None
          /\ scene.vnc /\ host = "up" /\ (Present(m) => byTab[run[m].pane] = m)
          /\ (scene.started \/ scene.patient => Present(m))
      BY <1>0, <1>4, <2>2 DEF Tokens, Shapes
    <3>2. m # n /\ m # c
      BY <1>1, <1>7, <1>9, <3>1
    <3>3. run'[m] = run[m] /\ Present(m)' = Present(m) /\ run[m].pane \in Panes
      BY <1>0, <1>2, <1>7, <3>1, <3>2 DEF Shapes, RunRecords
    <3>4. Present(m) => run[m].pane # p
      BY <3>1
    <3>5. QED
      BY <1>4, <3>1, <3>3, <3>4
  <2>3. \A q \in Panes : pending'[q] # None => pending'[q] = cur'[q] /\ byTab'[q] = cur'[q]
    BY <1>0, <1>3, <1>4 DEF Tokens
  <2>4. QED
    BY <2>1, <2>2, <2>3 DEF Tokens
<1>13. LogRows'
  <2> SUFFICES ASSUME (scene.started /\ ~scene.changes) \/ scene.patient, NEW m \in rows'
               PROVE  Present(m)' /\ logs'[run'[m].pane] = m
    BY DEF LogRows
  <2>1. /\ m \in Runs /\ m # logs[p] /\ Present(m) /\ logs[run[m].pane] = m /\ run[m] # None
    BY <1>0, <1>4 DEF LogRows, Shapes, Present
  <2>2. run[m].pane \in Panes /\ run[m].pane # p
    BY <1>0, <2>1 DEF Shapes, RunRecords
  <2>3. m # n /\ m # c
    BY <1>1, <1>9, <2>1, <2>2
  <2>4. run'[m] = run[m] /\ Present(m)' = Present(m)
    BY <1>2, <1>7, <2>1, <2>3
  <2>5. QED
    BY <1>4, <2>1, <2>2, <2>4
<1>14. Links'
  <2> SUFFICES ASSUME NEW m \in Runs
               PROVE  /\ link'[m].step # "cut" => run'[m] # None /\ run'[m].step \in Viewing
                      /\ scene.vnc /\ Given(m)' =>
                           /\ ~Open(link'[m])
                           /\ run'[m].step \in {"importing"} \cup Viewing => m \notin targets'
                      /\ scene.vnc /\ Open(link'[m]) => byTab'[run'[m].pane] = m
    BY DEF Links
  <2>1. link'[m].step # "cut" => run[m] # None /\ run[m].step \in Viewing /\ m # n
    BY <1>0, <1>6 DEF Links
  <2>2. link'[m].step # "cut" => run'[m] = run[m]
    BY <1>2, <1>9, <2>1
  <2>3. ASSUME scene.vnc, Given(m)'
        PROVE  /\ ~Open(link'[m])
               /\ run'[m].step \in {"importing"} \cup Viewing => m \notin targets'
    <3>1. CASE m = n
      <4>1. n \in targets => byTab[p] = n
        BY <1>0, <1>1, <1>7 DEF Tokens
      <4>2. QED
        BY <1>4, <1>6, <3>1, <4>1
    <3>2. CASE m # n
      <4>1. m # c
        BY <1>7, <2>3, NoneAssumption
      <4>2. Given(m) /\ run'[m] = run[m]
        BY <1>2, <1>7, <2>3, <3>2, <4>1
      <4>3. QED
        BY <1>0, <1>4, <1>6, <2>3, <4>2 DEF Links
    <3>3. QED
      BY <3>1, <3>2
  <2>4. ASSUME scene.vnc, Open(link'[m]) PROVE byTab'[run'[m].pane] = m
    <3>1. /\ byTab[run[m].pane] = m /\ m # byTab[p] /\ link'[m].step # "cut"
      BY <1>0, <1>6, <2>4 DEF Links, Open
    <3>2. run'[m] = run[m] /\ run[m].pane \in Panes
      BY <1>0, <2>1, <2>2, <3>1 DEF Shapes, RunRecords
    <3>3. QED
      BY <1>4, <3>1, <3>2
  <2>5. QED
    BY <2>1, <2>2, <2>3, <2>4
<1>15. Handshakes'
  BY <1>6 DEF Handshakes, LinkIsSound, Vouched
<1>16. QED
  BY <1>8, <1>10, <1>11, <1>12, <1>13, <1>14, <1>15 DEF IInv

LEMMA ClosePaneStep ==
  ASSUME IInv, NEW p \in Panes, ClosePane(p) PROVE IInv'
<1>1. /\ status[p] \notin {"none", "closed"} /\ (scene.patient => ~Busy(p))
      /\ run' = Disposed(cur[p]) /\ CloseBridge(p) /\ EndLog(p)
      /\ status' = [status EXCEPT ![p] = "closed"] /\ cur' = [cur EXCEPT ![p] = None]
      /\ UNCHANGED <<scene, host, builtFor, guacd, waiting, pinned>>
  BY DEF ClosePane
<1>2. PICK c \in MaybeRun : c = None
  BY DEF MaybeRun
<1>3. /\ cur' = [cur EXCEPT ![p] = c] /\ (c # None => run[c] = None)
      /\ run' = (IF c = None THEN Disposed(cur[p])
                 ELSE [Disposed(cur[p]) EXCEPT ![c] = NewRun(p)])
      /\ status' = [status EXCEPT ![p] = IF c = None THEN "closed" ELSE "connecting"]
  BY <1>1, <1>2
<1>4. QED
  BY <1>1, <1>3, PaneLeaves

LEMMA ReconnectStep ==
  ASSUME IInv, NEW p \in Panes, Reconnect(p) PROVE IInv'
<1>1. /\ status[p] \notin {"none", "closed"} /\ (scene.patient => ~Busy(p))
      /\ CloseBridge(p) /\ EndLog(p) /\ status' = [status EXCEPT ![p] = "connecting"]
      /\ UNCHANGED <<scene, host, builtFor, guacd, waiting, pinned>>
  BY DEF Reconnect
<1>2. PICK c \in Runs : /\ run[c] = None /\ cur' = [cur EXCEPT ![p] = c]
                        /\ run' = [Disposed(cur[p]) EXCEPT ![c] = NewRun(p)]
  <2>1. Fresh # {} /\ LET n == CHOOSE f \in Fresh : TRUE
                      IN /\ cur' = [cur EXCEPT ![p] = n]
                         /\ run' = [Disposed(cur[p]) EXCEPT ![n] = NewRun(p)]
    BY DEF Reconnect
  <2>2. \A f \in Fresh : f \in Runs /\ run[f] = None
    BY DEF Fresh
  <2>3. QED
    BY <2>1, <2>2
<1>3. /\ c \in MaybeRun /\ c # None
      /\ run' = (IF c = None THEN Disposed(cur[p])
                 ELSE [Disposed(cur[p]) EXCEPT ![c] = NewRun(p)])
      /\ status' = [status EXCEPT ![p] = IF c = None THEN "closed" ELSE "connecting"]
  BY <1>1, <1>2, NoneAssumption DEF MaybeRun
<1>4. QED
  BY <1>1, <1>2, <1>3, PaneLeaves

-----------------------------------------------------------------------------
(* The invariant, and what follows from it.                                *)

LEMMA NextIInv == IInv /\ [Next]_vars => IInv'
<1> SUFFICES ASSUME IInv, [Next]_vars PROVE IInv'
  OBVIOUS
<1>1. ASSUME NEW p \in Panes, Mount(p) \/ ClosePane(p) \/ Reconnect(p) \/ Submits(p)
      PROVE  IInv'
  BY <1>1, MountStep, ClosePaneStep, ReconnectStep, SubmitsStep
<1>2. ASSUME NEW p \in Panes, NEW d \in Decisions, Answers(p, d) PROVE IInv'
  BY <1>2, AnswersStep
<1>3. ASSUME NEW n \in Runs, Advances(n) PROVE IInv'
  <2>1. CASE VaultRefused(n) \/ ClientStarts(n) \/ LaunchFails(n) \/ Replied(n) \/ OpenRefused(n)
    BY <2>1, EarlySteps
  <2>2. CASE Unlocked(n) \/ Probed(n) \/ ClientMissing(n)
    BY <2>2, UnlockedStep, ProbedStep, ClientMissingStep
  <2>3. CASE Imported(n) \/ WsConnects(n) \/ Bridges(n)
    BY <2>3, ImportedStep, WsConnectsStep, BridgesStep
  <2>4. CASE ViewerConnects(n) \/ ViewerAsks(n) \/ Denied(n) \/ Told(n)
    BY <2>4, ViewerSteps
  <2>5. QED
    BY <1>3, <2>1, <2>2, <2>3, <2>4 DEF Advances
<1>4. ASSUME NEW n \in Runs, Drops(n) PROVE IInv'
  BY <1>4, DropsStep
<1>5. CASE Listens \/ ListenFails \/ SetGuacd
  BY <1>5, ListensStep, ListenFailsStep, SetGuacdStep
<1>6. CASE UNCHANGED vars
  <2>1. UNCHANGED <<scene, status, cur, run, link, host, builtFor, guacd, waiting, targets, byTab,
                    pending, pinned, logs, rows>>
    BY <1>6 DEF vars, mainvars
  <2>2. UNCHANGED <<scene, status, cur, run>> /\ Waiters' = Waiters
    BY <2>1 DEF Waiters, In
  <2>3. Shapes' /\ Attempts' /\ LogRows'
    BY <2>1 DEF IInv, Shapes, Attempts, LogRows, In, Given, Present
  <2>4. Hosted'
    BY <2>1, <2>2 DEF IInv, Hosted, Present
  <2>5. Tokens' /\ Links' /\ Handshakes'
    BY <2>1 DEF IInv, Tokens, Links, Given, Present, Handshakes, LinkIsSound, Vouched
  <2>6. QED
    BY <2>3, <2>4, <2>5 DEF IInv
<1>7. QED
  BY <1>1, <1>2, <1>3, <1>4, <1>5, <1>6 DEF Next

LEMMA NothingFollows == IInv => NothingIsLeft
<1> SUFFICES ASSUME IInv PROVE NothingIsLeft
  OBVIOUS
<1>0. /\ Shapes /\ Attempts /\ Hosted /\ Tokens /\ LogRows /\ Links /\ Handshakes
  BY DEF IInv
<1>1. \A n \in Runs : run[n] # None => run[n] \in RunRecords /\ run[n].pane \in Panes
  BY <1>0 DEF Shapes, RunRecords
<1>2. TypeOK
  <2>1. /\ scene \in Scenes /\ host \in {"down", "starting", "up", "failed"}
        /\ \A p \in Panes : status[p] \in Statuses
        /\ \A n \in Runs : link[n].step \in Steps
    BY <1>0 DEF Shapes, Link
  <2>2. \A p \in Panes : /\ cur[p] # None => run[cur[p]].pane = p /\ ~run[cur[p]].disposed
                         /\ (cur[p] = None) = (status[p] \in {"none", "closed"})
    BY <1>0 DEF Attempts, Present
  <2>3. \A p \in Panes : /\ byTab[p] # None => byTab[p] \in targets
                         /\ waiting[p] # None => waiting[p] \in Waiters /\ run[waiting[p]].pane = p
    BY <1>0 DEF Tokens, Hosted
  <2>4. \A n \in Waiters : ~run[n].disposed => waiting[run[n].pane] = n
    BY <1>0 DEF Hosted, Waiters, In, Present
  <2>5. QED
    BY <1>1, <2>1, <2>2, <2>3, <2>4 DEF TypeOK, Statuses
<1>3. TargetsAreOwned
  <2> SUFFICES ASSUME scene.started \/ scene.patient, NEW n \in targets
               PROVE  cur[run[n].pane] = n /\ byTab[run[n].pane] = n
    BY DEF TargetsAreOwned
  <2>1. n \in Runs /\ Present(n) /\ byTab[run[n].pane] = n
    BY <1>0 DEF Tokens, Shapes
  <2>2. QED
    BY <1>0, <2>1 DEF Attempts
<1>4. LogsAreOwned
  <2> SUFFICES ASSUME (scene.started /\ ~scene.changes) \/ scene.patient, NEW n \in rows
               PROVE  cur[run[n].pane] = n /\ logs[run[n].pane] = n
    BY DEF LogsAreOwned
  <2>1. n \in Runs /\ Present(n) /\ logs[run[n].pane] = n
    BY <1>0 DEF LogRows, Shapes
  <2>2. QED
    BY <1>0, <2>1 DEF Attempts
<1>5. PromptIsLive
  BY <1>0 DEF Tokens, PromptIsLive
<1>6. NoGhosts
  <2> SUFFICES ASSUME scene.vnc \/ scene.patient, NEW n \in Runs, run[n] # None, run[n].disposed,
                      Open(link[n])
               PROVE  FALSE
    BY DEF NoGhosts
  <2>1. Given(n) /\ run[n].step \in Viewing
    BY <1>0 DEF Given, Links, Open
  <2>2. QED
    BY <1>0, <2>1 DEF Links, Attempts, Viewing
<1>7. GatewayStays
  <2> SUFFICES ASSUME ~scene.changes, NEW n \in Runs, run[n] # None,
                      run[n].step \in {"opened", "importing"} \/ link[n].step = "ws"
               PROVE  host = "up"
    BY DEF GatewayStays
  <2>1. run[n].step \in Served
    BY <1>0, StepNames DEF Links
  <2>2. QED
    BY <1>0, <2>1 DEF Hosted
<1>8. ConnectedIsOn
  <2> SUFFICES ASSUME NEW p \in Panes, status[p] = "connected" PROVE In(cur[p], "on")
    BY DEF ConnectedIsOn
  <2>1. cur[p] # None /\ Present(cur[p]) /\ "connected" \in ShownAt(run[cur[p]].step)
    BY <1>0 DEF Attempts
  <2>2. run[cur[p]].step = "on"
    BY <2>1 DEF ShownAt
  <2>3. QED
    BY <2>1, <2>2 DEF In, Present
<1>9. QED
  BY <1>2, <1>3, <1>4, <1>5, <1>6, <1>7, <1>8 DEF NothingIsLeft

LEMMA SoundFollows == IInv => HandshakeIsSound
<1> SUFFICES ASSUME IInv, NEW n \in Runs, link[n].step = "piped"
             PROVE  /\ link[n].viewer = link[n].server
                    /\ link[n].sub # 0 => /\ link[n].sub \in {260, 261, 262}
                                          /\ scene.server.ca \/ link[n].said \/ pinned = scene.server.cert
  BY DEF HandshakeIsSound, TlsIsTrusted, AuthAgrees
<1>1. LinkIsSound(link[n])
  BY DEF IInv, Handshakes
<1>2. QED
  BY <1>1 DEF LinkIsSound, Vouched

(* Whatever a pane's attempts did in which order, what is open is of its   *)
(* present one: tokens, log rows, prompts, viewers and the gateway         *)
(* (RemoteDesktopPane's effect, VncBridgeService and RdpGatewayService's   *)
(* open and close, startLog and endLog of ipc/remote).                     *)
THEOREM NothingAlwaysLeft == Spec => []NothingIsLeft
<1>1. Spec => []IInv
  BY InitIInv, NextIInv, PTL DEF Spec
<1>2. QED
  BY <1>1, NothingFollows, PTL

(* What is piped runs the same authentication at both ends, and in TLS only*)
(* over a certificate of an authority, the pinned one or one the user said *)
(* yes to (VncBridgeService's handshake, innerAuth, confirmCertificate).   *)
THEOREM HandshakeAlwaysSound == Spec => []HandshakeIsSound
<1>1. Spec => []IInv
  BY InitIInv, NextIInv, PTL DEF Spec
<1>2. QED
  BY <1>1, SoundFollows, PTL
=============================================================================
