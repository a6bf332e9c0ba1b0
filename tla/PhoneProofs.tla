---------------------------- MODULE PhoneProofs -----------------------------
(***************************************************************************)
(* Proofs about the two halves of phone access, which share no variable:   *)
(* PhonePanes, for any panes and sockets, and PhoneAccess, for every set   *)
(* of servers, processes, codes, devices and sockets and every scenario.   *)
(*                                                                         *)
(* Panes: the phone's timers and the server's stop never end a pane of the *)
(* desktop; a phone's pane that runs is on a screen, or timed, or was let  *)
(* go of by its phone.                                                     *)
(*                                                                         *)
(* Access: who gets in with a code, which phones stay in, and what the     *)
(* service still holds of its server and its tunnel. The invariant has     *)
(* three parts. Way: a patient user's calls run one at a time, so what     *)
(* resumes after an await meets the server and the tunnel it began with.   *)
(* Phones: an open or linked socket is of a server that listens. Code: of  *)
(* the panel's two copies of the code, the reply that is on its way        *)
(* counts, and the one on the screen else.                                 *)
(***************************************************************************)
EXTENDS PhoneAccess, PhonePanes, FiniteSetTheorems, TLAPS

-----------------------------------------------------------------------------
(* The panes of phones.                                                    *)

(* ownPanes only grows when a spawn frame's pane comes up, and that pane   *)
(* is a phone's: what is being spawned is never the desktop's.             *)
PInv ==
  /\ ownPanes \subseteq Phone
  /\ orphans \subseteq Phone
  /\ pane \in [Panes -> {"unused", "spawning", "live", "gone"}]
  /\ \A p \in Panes : pane[p] = "spawning" => p \in Phone

LEMMA InitPInv == PanesInit => PInv
<1>1. QED
  BY DEF PanesInit, PInv, Panes

(* Ending panes makes nothing that is not being spawned look so.           *)
LEMMA GonePInv ==
  ASSUME PInv, NEW S, pane' = Gone(S),
         ownPanes' \subseteq ownPanes, orphans' \subseteq orphans
  PROVE  PInv'
<1>1. QED
  BY DEF PInv, Gone, Live

LEMMA NextPInv == PInv /\ [PanesNext]_panevars => PInv'
<1> SUFFICES ASSUME PInv, [PanesNext]_panevars PROVE PInv'
  OBVIOUS
<1>1. ASSUME NEW s \in Conns,
             LinkUp(s) \/ ServerCloses(s) \/ LinkDies(s) \/ Cleanup(s) \/ Detach(s)
      PROVE PInv'
  BY <1>1 DEF LinkUp, ServerCloses, LinkDies, Cleanup, Detach, PInv
<1>2. ASSUME NEW s \in Conns, KillFrame(s) PROVE PInv'
  BY <1>2, GonePInv DEF KillFrame
<1>3. ASSUME NEW s \in Conns, NEW p \in Panes, SpawnFrame(s, p) PROVE PInv'
  BY <1>3 DEF SpawnFrame, PInv
<1>4. ASSUME NEW s \in Conns, NEW p \in Panes, Attach(s, p) PROVE PInv'
  BY <1>4 DEF Attach, PInv
<1>5. ASSUME NEW s \in Conns, NEW p \in Panes, CloseFrame(s, p) PROVE PInv'
  BY <1>5, GonePInv DEF CloseFrame
<1>6. ASSUME NEW p \in Panes, SpawnOk(p) PROVE PInv'
  BY <1>6 DEF SpawnOk, PInv
<1>7. ASSUME NEW p \in Panes, SpawnFails(p) PROVE PInv'
  BY <1>7 DEF SpawnFails, PInv
<1>8. ASSUME NEW p \in Panes, GraceOver(p) \/ PaneEnds(p) PROVE PInv'
  BY <1>8, GonePInv DEF GraceOver, PaneEnds
<1>9. ASSUME NEW p \in Panes, DesktopOpens(p) PROVE PInv'
  BY <1>9 DEF DesktopOpens, PInv
<1>10. CASE ServerStops
  BY <1>10, GonePInv DEF ServerStops
<1>11. CASE ServerStarts
  BY <1>11 DEF ServerStarts, PInv
<1>12. CASE UNCHANGED panevars
  BY <1>12 DEF panevars, servervars, PInv
<1>13. QED
  BY <1>1, <1>2, <1>3, <1>4, <1>5, <1>6, <1>7, <1>8, <1>9, <1>10, <1>11, <1>12
     DEF PanesNext, SocketStep, PaneStep

-----------------------------------------------------------------------------

(* The strengthened invariant of MobileService's panes.                    *)
THEOREM PhonesOwnTheirs == PanesSpec => []PInv
<1>1. QED
  BY InitPInv, NextPInv, PTL DEF PanesSpec

(***************************************************************************)
(* "Mirrored desktop panes are never reaped by the phone" (README.md),     *)
(* however its sockets die, overlap and return.                            *)
(***************************************************************************)
THEOREM DesktopNeverReaped == PanesSpec => []DesktopNotReaped
<1>1. PInv => DesktopNotReaped
  BY PanesAssumption DEF PInv, DesktopNotReaped
<1>2. QED
  BY <1>1, PhonesOwnTheirs, PTL

(***************************************************************************)
(* A step that ends a grace window, and one that stops the server, leave   *)
(* every pane of the desktop as it is.                                     *)
(***************************************************************************)
THEOREM ReapingSparesDesktop ==
  PanesSpec => [][ \A p \in Phone, d \in Desktop :
                GraceOver(p) \/ ServerStops => pane'[d] = pane[d] ]_panevars
<1> DEFINE Spared == \A p \in Phone, d \in Desktop :
                       GraceOver(p) \/ ServerStops => pane'[d] = pane[d]
<1>1. PInv /\ [PanesNext]_panevars => [Spared]_panevars
  <2> SUFFICES ASSUME PInv, NEW p \in Phone, NEW d \in Desktop,
                      GraceOver(p) \/ ServerStops
               PROVE  pane'[d] = pane[d]
    OBVIOUS
  <2>1. d \in Panes /\ d # p /\ d \notin ownPanes
    BY PanesAssumption DEF Panes, PInv
  <2>2. QED
    BY <2>1 DEF GraceOver, ServerStops, Gone
<1>2. QED
  BY <1>1, PhonesOwnTheirs, PTL DEF PanesSpec

-----------------------------------------------------------------------------
(* Every running pane of a phone is on a screen, timed, or let go of.      *)

(* A pane no spawn frame asked for yet is nowhere, a socket shows nothing  *)
(* before its handshake, a running pane is the phones' own, and two        *)
(* sockets that show one pane were seen to.                                *)
Known ==
  /\ \A p \in Phone : pane[p] = "unused" =>
       p \notin orphans \cup ownPanes /\ \A s \in Conns : paneId[s] # p
  /\ \A s \in Conns : conn[s] = "new" => paneId[s] = Null
  /\ \A p \in Phone : Live(p) => p \in ownPanes
  /\ \A s, t \in Conns, p \in Phone : Shows(s, p) /\ Shows(t, p) /\ s # t => p \in shared

RInv == PanesTyped /\ Known /\ ShownIsNotReaped /\ AbandonedIsReaped

LEMMA GoneOf ==
  ASSUME PanesTyped, NEW S
  PROVE  /\ Gone(S) \in [Panes -> {"unused", "spawning", "live", "gone"}]
         /\ \A p \in Panes : Gone(S)[p] = IF p \in S /\ Live(p) THEN "gone" ELSE pane[p]
<1>1. QED
  BY DEF Gone, PanesTyped

LEMMA PhonesArePanes == Phone \subseteq Panes /\ Null \notin Panes \cup Conns
<1>1. QED
  BY PanesAssumption DEF Panes

LEMMA InitRInv == PanesInit => RInv
<1>1. QED
  BY PhonesArePanes
     DEF PanesInit, RInv, PanesTyped, Known, Shows, Held, Live, ShownIsNotReaped,
         AbandonedIsReaped

(* What a step must keep so that what is said of shown panes stays true,   *)
(* when it lets go of nothing: ending panes, and no socket comes to show   *)
(* another pane.                                                           *)
LEMMA GoneRInv ==
  ASSUME RInv, NEW S \in SUBSET Panes, pane' = Gone(S),
         running' \in BOOLEAN, asker' = asker, left' = left, shared' = shared,
         conn' \in [Conns -> {"new", "open", "closing", "dead", "closed"}],
         Held' = Held, \A s \in Conns : conn'[s] = "new" => conn[s] = "new",
         paneId' \in [Conns -> Panes \cup {Null}],
         \A s \in Conns : paneId'[s] # paneId[s] =>
           /\ paneId'[s] = Null
           /\ \A p \in Phone : p = paneId[s] /\ Live(p) => p \in S,
         ownPanes' \subseteq ownPanes, ownPanes \ S \subseteq ownPanes',
         orphans' \subseteq orphans, orphans \ S \subseteq orphans'
  PROVE  RInv'
<1>0. PanesTyped /\ Known /\ ShownIsNotReaped /\ AbandonedIsReaped
  BY DEF RInv
<1> USE PhonesArePanes
<1>1. /\ pane' \in [Panes -> {"unused", "spawning", "live", "gone"}]
      /\ \A p \in Panes : pane'[p] = IF p \in S /\ Live(p) THEN "gone" ELSE pane[p]
  BY <1>0, GoneOf
<1>2. PanesTyped'
  BY <1>0, <1>1 DEF PanesTyped, Live
<1>3. \A s \in Conns, p \in Panes : Shows(s, p)' => Shows(s, p)
  BY DEF Shows
<1>4. \A p \in Phone : Live(p)' => Live(p) /\ p \notin S
  BY <1>1 DEF Live
<1>5. Known'
  BY <1>0, <1>1, <1>3, <1>4 DEF Known, Live
<1>6. ShownIsNotReaped'
  BY <1>0, <1>3 DEF ShownIsNotReaped
<1>7. AbandonedIsReaped'
  BY <1>0, <1>4 DEF AbandonedIsReaped, Shows
<1>8. QED
  BY <1>2, <1>5, <1>6, <1>7 DEF RInv

LEMMA NextRInv == RInv /\ [PanesNext]_panevars => RInv'
<1> SUFFICES ASSUME RInv, [PanesNext]_panevars PROVE RInv'
  OBVIOUS
<1>0. PanesTyped /\ Known /\ ShownIsNotReaped /\ AbandonedIsReaped
  BY DEF RInv
<1> USE PhonesArePanes
<1>1. ASSUME NEW s \in Conns, LinkUp(s) PROVE RInv'
  <2>1. /\ conn' \in [Conns -> {"new", "open", "closing", "dead", "closed"}]
        /\ Held' = Held \cup {s} /\ paneId[s] = Null
        /\ \A t \in Conns : conn'[t] = "new" => conn[t] = "new"
        /\ UNCHANGED <<running, paneId, pane, asker, ownPanes, orphans, left, shared>>
    BY <1>0, <1>1 DEF LinkUp, PanesTyped, Known, Held
  <2>2. \A t \in Conns, p \in Panes : Shows(t, p)' <=> Shows(t, p)
    BY <1>0, <2>1 DEF Shows
  <2>3. QED
    BY <1>0, <2>1, <2>2
       DEF RInv, PanesTyped, Known, ShownIsNotReaped, AbandonedIsReaped, Live
<1>2. ASSUME NEW s \in Conns, ServerCloses(s) \/ LinkDies(s) PROVE RInv'
  <2>1. /\ conn' \in [Conns -> {"new", "open", "closing", "dead", "closed"}]
        /\ Held' = Held
        /\ \A t \in Conns : conn'[t] = "new" => conn[t] = "new"
        /\ UNCHANGED <<running, paneId, pane, asker, ownPanes, orphans, left, shared>>
    BY <1>0, <1>2 DEF ServerCloses, LinkDies, Served, PanesTyped, Held
  <2>2. \A t \in Conns, p \in Panes : Shows(t, p)' <=> Shows(t, p)
    BY <2>1 DEF Shows
  <2>3. QED
    BY <1>0, <2>1, <2>2
       DEF RInv, PanesTyped, Known, ShownIsNotReaped, AbandonedIsReaped, Live
<1>3. ASSUME NEW s \in Conns, Cleanup(s) PROVE RInv'
  <2>1. /\ conn' \in [Conns -> {"new", "open", "closing", "dead", "closed"}]
        /\ s \in Held /\ Held' = Held \ {s}
        /\ \A t \in Conns : conn'[t] = "new" => conn[t] = "new"
        /\ orphans' = orphans \cup ({paneId[s]} \cap ownPanes)
        /\ UNCHANGED <<running, paneId, pane, asker, ownPanes, left, shared>>
    BY <1>0, <1>3 DEF Cleanup, PanesTyped, Held
  <2>2. \A t \in Conns, p \in Panes : Shows(t, p)' <=> Shows(t, p) /\ t # s
    BY <2>1 DEF Shows
  <2>3. PanesTyped'
    BY <1>0, <2>1 DEF PanesTyped
  <2>4. Known'
    BY <1>0, <2>1, <2>2 DEF Known, Live
  <2>5. ASSUME NEW t \in Conns, NEW p \in Phone, Shows(t, p)', p \in orphans'
        PROVE  p \in shared'
    <3>1. Shows(t, p) /\ t # s
      BY <2>2, <2>5
    <3>2. CASE p \in orphans
      BY <1>0, <2>1, <3>1, <3>2 DEF ShownIsNotReaped
    <3>3. CASE p = paneId[s]
      <4>1. Shows(s, p)
        BY <2>1, <3>3 DEF Shows
      <4>2. QED
        BY <1>0, <2>1, <3>1, <4>1 DEF Known
    <3>4. QED
      BY <2>1, <2>5, <3>2, <3>3
  <2>6. ShownIsNotReaped'
    BY <2>5 DEF ShownIsNotReaped
  <2>7. AbandonedIsReaped'
    BY <1>0, <2>1, <2>2 DEF AbandonedIsReaped, Known, Shows, Live
  <2>8. QED
    BY <2>3, <2>4, <2>6, <2>7 DEF RInv
<1>4. ASSUME NEW s \in Conns, NEW p \in Panes, SpawnFrame(s, p) PROVE RInv'
  <2>1. /\ Served(s) /\ p \in Phone /\ pane[p] = "unused"
        /\ paneId' = [paneId EXCEPT ![s] = p]
        /\ pane' = [pane EXCEPT ![p] = "spawning"]
        /\ asker' = [asker EXCEPT ![p] = s]
        /\ left' = left \cup LetGo(s)
        /\ UNCHANGED <<running, conn, ownPanes, orphans, shared>>
        /\ p \notin ownPanes /\ p \notin orphans
        /\ \A t \in Conns : paneId[t] # p
    BY <1>0, <1>4 DEF SpawnFrame, Known
  <2>2. /\ Held' = Held /\ s \in Held /\ conn[s] # "new"
        /\ \A q \in Panes : pane'[q] = IF q = p THEN "spawning" ELSE pane[q]
        /\ \A t \in Conns : paneId'[t] = IF t = s THEN p ELSE paneId[t]
    BY <1>0, <2>1 DEF Held, Served, PanesTyped
  <2>3. \A t \in Conns, q \in Panes :
          Shows(t, q)' <=> IF t = s THEN q = p ELSE Shows(t, q)
    BY <2>2 DEF Shows
  <2>4. PanesTyped'
    <3>1. pane' \in [Panes -> {"unused", "spawning", "live", "gone"}]
      BY <1>0, <2>1 DEF PanesTyped
    <3>2. \A q \in Panes : pane'[q] = "spawning" => q \in Phone /\ asker'[q] # Null
      BY <1>0, <2>1, <2>2 DEF PanesTyped
    <3>3. QED
      BY <1>0, <2>1, <3>1, <3>2 DEF PanesTyped, LetGo
  <2>5. Known'
    BY <1>0, <2>1, <2>2, <2>3 DEF Known, Live, Shows
  <2>6. ShownIsNotReaped'
    BY <1>0, <2>1, <2>2, <2>3 DEF ShownIsNotReaped
  <2>7. AbandonedIsReaped'
    BY <1>0, <2>1, <2>2, <2>3 DEF AbandonedIsReaped, LetGo, Live
  <2>8. QED
    BY <2>4, <2>5, <2>6, <2>7 DEF RInv
<1>5. ASSUME NEW s \in Conns, NEW p \in Panes, Attach(s, p) PROVE RInv'
  <2>1. /\ Served(s) /\ Live(p)
        /\ paneId' = [paneId EXCEPT ![s] = p]
        /\ left' = (left \cup LetGo(s)) \ {p}
        /\ shared' = IF \E t \in Conns \ {s} : Shows(t, p) THEN shared \cup {p} ELSE shared
        /\ orphans' = orphans \ {p}
        /\ UNCHANGED <<running, conn, pane, asker, ownPanes>>
    BY <1>5 DEF Attach, ComesToShow
  <2>2. /\ Held' = Held /\ s \in Held /\ conn[s] # "new"
        /\ \A t \in Conns : paneId'[t] = IF t = s THEN p ELSE paneId[t]
    BY <1>0, <2>1 DEF Held, Served, PanesTyped
  <2>3. \A t \in Conns, q \in Panes :
          Shows(t, q)' <=> IF t = s THEN q = p ELSE Shows(t, q)
    BY <2>2 DEF Shows
  <2>4. PanesTyped'
    BY <1>0, <2>1 DEF PanesTyped, LetGo
  <2>5. Known'
    <3>1. \A t, u \in Conns, q \in Phone :
            Shows(t, q)' /\ Shows(u, q)' /\ t # u => q \in shared'
      BY <1>0, <2>1, <2>3 DEF Known
    <3>2. QED
      BY <1>0, <2>1, <2>2, <3>1 DEF Known, Live
  <2>6. ShownIsNotReaped'
    BY <1>0, <2>1, <2>3 DEF ShownIsNotReaped
  <2>7. AbandonedIsReaped'
    BY <1>0, <2>1, <2>2, <2>3 DEF AbandonedIsReaped, LetGo, Live
  <2>8. QED
    BY <2>4, <2>5, <2>6, <2>7 DEF RInv
<1>6. ASSUME NEW s \in Conns, Detach(s) PROVE RInv'
  <2>1. /\ Served(s)
        /\ paneId' = [paneId EXCEPT ![s] = Null]
        /\ left' = left \cup LetGo(s)
        /\ UNCHANGED <<running, conn, pane, asker, ownPanes, orphans, shared>>
    BY <1>6 DEF Detach
  <2>2. Held' = Held /\ \A t \in Conns : paneId'[t] = IF t = s THEN Null ELSE paneId[t]
    BY <1>0, <2>1 DEF Held, PanesTyped
  <2>3. \A t \in Conns, q \in Panes : Shows(t, q)' <=> t # s /\ Shows(t, q)
    BY <2>2 DEF Shows
  <2>4. PanesTyped'
    BY <1>0, <2>1 DEF PanesTyped, LetGo
  <2>5. Known'
    BY <1>0, <2>1, <2>2, <2>3 DEF Known, Live
  <2>6. ShownIsNotReaped'
    BY <1>0, <2>1, <2>3 DEF ShownIsNotReaped
  <2>7. AbandonedIsReaped'
    BY <1>0, <2>1, <2>3 DEF AbandonedIsReaped, LetGo, Live
  <2>8. QED
    BY <2>4, <2>5, <2>6, <2>7 DEF RInv
<1>7. ASSUME NEW s \in Conns, KillFrame(s) PROVE RInv'
  <2> DEFINE mine == {paneId[s]} \cap ownPanes
  <2>1. /\ pane' = Gone(mine) /\ ownPanes' = ownPanes \ mine
        /\ paneId' = [paneId EXCEPT ![s] = Null]
        /\ UNCHANGED <<running, conn, asker, orphans, left, shared>>
        /\ Held' = Held
    BY <1>7 DEF KillFrame, Held
  <2>2. mine \subseteq Panes
    BY <1>0 DEF PanesTyped
  <2>3. /\ paneId' \in [Conns -> Panes \cup {Null}]
        /\ \A t \in Conns : paneId'[t] # paneId[t] => t = s /\ paneId'[t] = Null
    BY <1>0, <2>1 DEF PanesTyped
  <2>4. \A p \in Phone : p = paneId[s] /\ Live(p) => p \in mine
    BY <1>0 DEF Known
  <2>5. /\ running' \in BOOLEAN
        /\ conn' \in [Conns -> {"new", "open", "closing", "dead", "closed"}]
    BY <1>0, <2>1 DEF PanesTyped
  <2> HIDE DEF mine
  <2>6. QED
    BY <2>1, <2>2, <2>3, <2>4, <2>5, GoneRInv
<1>8. ASSUME NEW s \in Conns, NEW p \in Panes, CloseFrame(s, p) PROVE RInv'
  <2>1. /\ pane' = Gone({p})
        /\ ownPanes' = ownPanes \ {p} /\ orphans' = orphans \ {p}
        /\ paneId' = IF paneId[s] = p THEN [paneId EXCEPT ![s] = Null] ELSE paneId
        /\ UNCHANGED <<running, conn, asker, left, shared>>
        /\ Held' = Held
    BY <1>8 DEF CloseFrame, Held
  <2>2. /\ paneId' \in [Conns -> Panes \cup {Null}]
        /\ \A t \in Conns :
             paneId'[t] # paneId[t] => t = s /\ paneId'[t] = Null /\ paneId[t] = p
    BY <1>0, <2>1 DEF PanesTyped
  <2>3. /\ running' \in BOOLEAN
        /\ conn' \in [Conns -> {"new", "open", "closing", "dead", "closed"}]
    BY <1>0, <2>1 DEF PanesTyped
  <2>4. QED
    BY <2>1, <2>2, <2>3, GoneRInv
<1>9. ASSUME NEW p \in Panes, SpawnOk(p) PROVE RInv'
  <2>1. /\ pane[p] = "spawning" /\ pane' = [pane EXCEPT ![p] = "live"]
        /\ ownPanes' = ownPanes \cup {p}
        /\ left' = IF \E t \in Conns : Shows(t, p) THEN left ELSE left \cup {p}
        /\ UNCHANGED <<running, conn, paneId, asker, orphans, shared>>
        /\ p \in Phone
    BY <1>0, <1>9 DEF SpawnOk, PanesTyped
  <2>2. /\ \A q \in Panes : pane'[q] = IF q = p THEN "live" ELSE pane[q]
        /\ \A t \in Conns, q \in Panes : Shows(t, q)' <=> Shows(t, q)
    BY <1>0, <2>1 DEF PanesTyped, Shows, Held
  <2>3. PanesTyped'
    BY <1>0, <2>1 DEF PanesTyped
  <2>4. Known'
    BY <1>0, <2>1, <2>2 DEF Known, Live
  <2>5. ShownIsNotReaped'
    BY <1>0, <2>1, <2>2 DEF ShownIsNotReaped
  <2>6. AbandonedIsReaped'
    BY <1>0, <2>1, <2>2 DEF AbandonedIsReaped, Live
  <2>7. QED
    BY <2>3, <2>4, <2>5, <2>6 DEF RInv
<1>10. ASSUME NEW p \in Panes, SpawnFails(p) PROVE RInv'
  <2>0. /\ pane[p] = "spawning" /\ asker[p] \in Conns
    BY <1>0, <1>10 DEF SpawnFails, PanesTyped
  <2> DEFINE s == asker[p]
  <2>1. /\ s \in Conns
        /\ pane' = [pane EXCEPT ![p] = "gone"]
        /\ paneId' = [paneId EXCEPT ![s] = Null]
        /\ left' = left \cup LetGo(s)
        /\ UNCHANGED <<running, conn, asker, ownPanes, orphans, shared>>
    BY <2>0, <1>10 DEF SpawnFails
  <2> HIDE DEF s
  <2>2. /\ Held' = Held
        /\ \A q \in Panes : pane'[q] = IF q = p THEN "gone" ELSE pane[q]
        /\ \A t \in Conns : paneId'[t] = IF t = s THEN Null ELSE paneId[t]
    BY <1>0, <2>1 DEF Held, PanesTyped
  <2>3. \A t \in Conns, q \in Panes : Shows(t, q)' <=> t # s /\ Shows(t, q)
    BY <2>2 DEF Shows
  <2>4. PanesTyped'
    BY <1>0, <2>1 DEF PanesTyped, LetGo
  <2>5. Known'
    BY <1>0, <2>0, <2>1, <2>2, <2>3 DEF Known, Live
  <2>6. ShownIsNotReaped'
    BY <1>0, <2>1, <2>3 DEF ShownIsNotReaped
  <2>7. AbandonedIsReaped'
    BY <1>0, <2>1, <2>2, <2>3 DEF AbandonedIsReaped, LetGo, Live
  <2>8. QED
    BY <2>4, <2>5, <2>6, <2>7 DEF RInv
<1>11. ASSUME NEW p \in Panes, GraceOver(p) PROVE RInv'
  <2>1. /\ pane' = Gone({p}) /\ orphans' = orphans \ {p} /\ ownPanes' = ownPanes \ {p}
        /\ UNCHANGED <<running, conn, paneId, asker, left, shared>>
        /\ paneId' \in [Conns -> Panes \cup {Null}] /\ Held' = Held
        /\ running' \in BOOLEAN
        /\ conn' \in [Conns -> {"new", "open", "closing", "dead", "closed"}]
    BY <1>0, <1>11 DEF GraceOver, PanesTyped, Held
  <2>2. QED
    BY <2>1, GoneRInv
<1>12. ASSUME NEW p \in Panes, PaneEnds(p) PROVE RInv'
  <2>1. /\ pane' = Gone({p})
        /\ UNCHANGED <<running, conn, paneId, asker, ownPanes, orphans, left, shared>>
        /\ paneId' \in [Conns -> Panes \cup {Null}] /\ Held' = Held
        /\ running' \in BOOLEAN
        /\ conn' \in [Conns -> {"new", "open", "closing", "dead", "closed"}]
    BY <1>0, <1>12 DEF PaneEnds, PanesTyped, Held
  <2>2. QED
    BY <2>1, GoneRInv
<1>13. ASSUME NEW p \in Panes, DesktopOpens(p) PROVE RInv'
  <2>1. /\ p \in Desktop /\ p \notin Phone
        /\ pane' = [pane EXCEPT ![p] = "live"]
        /\ UNCHANGED <<running, conn, paneId, asker, ownPanes, orphans, left, shared>>
    BY <1>13, PanesAssumption DEF DesktopOpens
  <2>2. /\ \A q \in Panes : pane'[q] = IF q = p THEN "live" ELSE pane[q]
        /\ \A t \in Conns, q \in Panes : Shows(t, q)' <=> Shows(t, q)
    BY <1>0, <2>1 DEF PanesTyped, Shows, Held
  <2>3. PanesTyped'
    BY <1>0, <2>1 DEF PanesTyped
  <2>4. QED
    BY <1>0, <2>1, <2>2, <2>3
       DEF RInv, Known, ShownIsNotReaped, AbandonedIsReaped, Live
<1>14. CASE ServerStops
  <2>1. /\ running' = FALSE /\ orphans' = {} /\ ownPanes' = {} /\ pane' = Gone(ownPanes)
        /\ conn' = [s \in Conns |-> IF conn[s] = "open" THEN "closing" ELSE conn[s]]
        /\ UNCHANGED <<paneId, asker, left, shared>>
    BY <1>14 DEF ServerStops
  <2>2. /\ pane' \in [Panes -> {"unused", "spawning", "live", "gone"}]
        /\ \A q \in Panes : pane'[q] = IF q \in ownPanes /\ Live(q) THEN "gone" ELSE pane[q]
        /\ \A q \in Phone : pane'[q] # "live"
    BY <1>0, <2>1, GoneOf DEF Known, Live
  <2>3. Held' = Held /\ \A s \in Conns : conn'[s] = "new" => conn[s] = "new"
    BY <1>0, <2>1 DEF Held, PanesTyped
  <2>4. \A t \in Conns, q \in Panes : Shows(t, q)' <=> Shows(t, q)
    BY <2>1, <2>3 DEF Shows
  <2>5. PanesTyped'
    BY <1>0, <2>1, <2>2 DEF PanesTyped, Live
  <2>6. Known' /\ ShownIsNotReaped' /\ AbandonedIsReaped'
    BY <1>0, <2>1, <2>2, <2>3, <2>4
       DEF Known, Live, ShownIsNotReaped, AbandonedIsReaped
  <2>7. QED
    BY <2>5, <2>6 DEF RInv
<1>15. CASE ServerStarts
  BY <1>0, <1>15
     DEF ServerStarts, RInv, PanesTyped, Known, Shows, Held, Live, ShownIsNotReaped,
         AbandonedIsReaped
<1>16. CASE UNCHANGED panevars
  BY <1>0, <1>16
     DEF panevars, servervars, RInv, PanesTyped, Known, Shows, Held, Live,
         ShownIsNotReaped, AbandonedIsReaped
<1>17. QED
  BY <1>1, <1>2, <1>3, <1>4, <1>5, <1>6, <1>7, <1>8, <1>9, <1>10, <1>11, <1>12,
     <1>13, <1>14, <1>15, <1>16
     DEF PanesNext, SocketStep, PaneStep

(***************************************************************************)
(* For any number of panes and sockets and any frames in any order: a pane *)
(* of a phone runs on with neither a socket nor a reap timer only if a     *)
(* phone let go of it itself, and has both only if two sockets showed it   *)
(* at once (cleanup, attach, detach, spawn, stop).                         *)
(***************************************************************************)
THEOREM AbandonedAlwaysReaped == PanesSpec => []ReapsTheAbandoned
<1>1. RInv => ReapsTheAbandoned
  BY DEF RInv, ReapsTheAbandoned
<1>2. QED
  BY <1>1, InitRInv, NextRInv, PTL DEF PanesSpec

-----------------------------------------------------------------------------
(* The way in.                                                             *)

(* What is under way excludes everything else a button starts.             *)
OneCall ==
  scene.patient =>
    /\ panel.stopping => panel.open /\ ~Pending
    /\ \A s \in Servers : srv[s] = "binding" =>
         /\ http = None /\ install = "idle" /\ ~waiting
         /\ \A r \in Servers : srv[r] = "binding" => r = s
    /\ \A s \in Servers : stops[s] > 0 =>
         /\ stops[s] = 1 /\ http = s /\ srv[s] \in {"closing", "closed"}
         /\ tunnel = None /\ install = "idle" /\ ~waiting
    /\ waiting => install # "idle" /\ http # None /\ tunnel = None

WayPart == WayTypeOK /\ OneCall /\ TunnelIsOwned /\ UrlIsTunnels /\ ServerIsReachable

-----------------------------------------------------------------------------
(* The phones.                                                             *)

Linked == {d \in Devices : linkedBy[d] # None}

Socket == [st : {"new", "open", "closing", "closed"},
           dev : Devices \cup {None}, srv : Servers \cup {None}]

PhoneTypes ==
  /\ devices \subseteq Linked /\ IsFiniteSet(Linked)
  /\ linkedBy \in [Devices -> Codes \cup {None}]
  /\ sock \in [Sockets -> Socket]

SocketsAreServed ==
  scene.patient => \A w \in Sockets : sock[w].st = "open" =>
    sock[w].srv # None /\ srv[sock[w].srv] = "listening"

PhonePart == PhoneTypes /\ SocketsAreServed /\ RevokedIsOut

-----------------------------------------------------------------------------
(* The code.                                                               *)

Panel == [open : BOOLEAN, pair : Codes \cup {None}, reply : Codes \cup {None},
          justLinked : BOOLEAN, prev : Nat \cup {None}, running : BOOLEAN, stopping : BOOLEAN]

CodeTypes ==
  /\ pairing \in [secret : Codes \cup {None}, tries : 0 .. (MaxTries - 1)]
  /\ minted \subseteq Codes /\ expired \subseteq minted
  /\ panel \in Panel

(* A closed panel knows of no code. The one that is awaited, and else the  *)
(* one on the screen, is the live one or dead; a panel at rest with none on*)
(* the screen leaves none live, unless no secret is left to mint.          *)
CodeIsPanels ==
  /\ ~panel.open => /\ panel.reply = None /\ panel.pair = None
                    /\ ~panel.running /\ ~panel.justLinked
  /\ panel.reply # None => pairing.secret \in {None, panel.reply}
  /\ panel.reply = None /\ panel.pair # None => pairing.secret \in {None, panel.pair}
  /\ AtRest /\ panel.pair = None /\ Fresh # {} => pairing.secret = None

CodePart == CodeTypes /\ CodeIsPanels

IInv == WayPart /\ PhonePart /\ CodePart

-----------------------------------------------------------------------------
LEMMA AnyFact == ASSUME NEW S, S # {} PROVE Any(S) \in S
BY DEF Any

LEMMA NoneFacts ==
  None \notin Servers /\ None \notin Procs /\ None \notin Codes /\ None \notin Devices
BY NoneAssumption, CodesAssumption

LEMMA SceneFacts ==
  ASSUME WayTypeOK
  PROVE  /\ scene.patient \in BOOLEAN /\ scene.lingers \in BOOLEAN
         /\ scene.servers \subseteq Servers /\ scene.procs \subseteq Procs
         /\ scene.codes \subseteq Codes
BY ScenarioAssumption, ScopeAssumption DEF WayTypeOK

LEMMA CountFact == ASSUME PhoneTypes PROVE Count \in Nat
<1>1. IsFiniteSet(devices)
  BY FS_Subset DEF PhoneTypes
<1> QED
  BY <1>1, FS_CardinalityType DEF Count

LEMMA InvImplies == IInv => AccessIsOwned
<1> SUFFICES ASSUME IInv PROVE AccessIsOwned
  OBVIOUS
<1>1. TypeOK
  BY DEF IInv, WayPart, PhonePart, CodePart, PhoneTypes, CodeTypes, Linked, Socket, Panel, TypeOK
<1>2. ShownCodeLinks
  BY DEF IInv, CodePart, CodeIsPanels, ShownCodeLinks, AtRest, OnScreen
<1> QED
  BY <1>1, <1>2 DEF IInv, WayPart, PhonePart, AccessIsOwned

LEMMA InitInv == Init => IInv
<1> SUFFICES ASSUME Init PROVE IInv
  OBVIOUS
<1>1. WayTypeOK
  BY NoneFacts DEF Init, TunnelInit, WayTypeOK
<1>2. OneCall /\ TunnelIsOwned /\ UrlIsTunnels /\ ServerIsReachable
  BY DEF Init, TunnelInit, OneCall, TunnelIsOwned, UrlIsTunnels, ServerIsReachable, Alive,
         Closed0
<1>3. PhonePart
  <2>1. Linked = {}
    BY DEF Init, Linked
  <2>2. IsFiniteSet(Linked)
    BY <2>1, FS_EmptySet
  <2> QED
    BY <2>1, <2>2 DEF Init, PhonePart, PhoneTypes, SocketsAreServed, RevokedIsOut, Socket
<1>4. CodePart
  BY CodesAssumption DEF Init, CodePart, CodeTypes, CodeIsPanels, Panel, Closed0, NoCode, AtRest
<1> QED
  BY <1>1, <1>2, <1>3, <1>4 DEF IInv, WayPart

-----------------------------------------------------------------------------
(* The code: what a mint, and the effects after a render, leave behind.    *)

LEMMA MintKeeps ==
  ASSUME WayTypeOK, CodeTypes, NEW p \in Panel, p.open, Fresh # {}, Mint(p),
         UNCHANGED <<scene, expired>>
  PROVE  CodePart'
<1> DEFINE c == Any(Fresh)
<1>1. c \in Codes
  BY AnyFact, SceneFacts DEF Fresh
<1>2. /\ minted' = minted \cup {c} /\ pairing' = [secret |-> c, tries |-> 0]
      /\ panel' = [p EXCEPT !.reply = c]
  BY DEF Mint
<1> HIDE DEF c
<1>3. panel' \in Panel /\ panel'.reply = c /\ panel'.open
  BY <1>1, <1>2 DEF Panel
<1>4. pairing' \in [secret : Codes \cup {None}, tries : 0 .. (MaxTries - 1)]
  BY <1>1, <1>2, CodesAssumption
<1>5. pairing'.secret = c
  BY <1>2
<1> QED
  BY <1>1, <1>2, <1>3, <1>4, <1>5, NoneFacts DEF CodePart, CodeTypes, CodeIsPanels, AtRest

(* The panel agrees with the live code but for what the effects see to.    *)
Agrees(p) ==
  /\ p \in Panel
  /\ ~p.open => p.reply = None /\ p.pair = None /\ ~p.running /\ ~p.justLinked
  /\ p.reply # None => pairing.secret \in {None, p.reply}
  /\ p.reply = None /\ p.pair # None => pairing.secret \in {None, p.pair}

LEMMA EffectsKeep ==
  ASSUME WayTypeOK, CodeTypes, NEW p, Agrees(p), Effects(p), UNCHANGED <<scene, expired>>
  PROVE  CodePart'
<1>1. CASE ~p.running
  <2>1. panel' = [p EXCEPT !.pair = None] /\ UNCHANGED <<minted, pairing>>
    BY <1>1 DEF Effects
  <2> QED
    BY <1>1, <2>1 DEF Agrees, Panel, CodePart, CodeTypes, CodeIsPanels, AtRest
<1>2. CASE p.running /\ p.pair = None /\ ~p.justLinked
  <2>1. CASE p.reply = None /\ Fresh # {}
    BY <1>2, <2>1, MintKeeps DEF Effects, Generate, Agrees
  <2>2. CASE ~(p.reply = None /\ Fresh # {})
    <3>1. panel' = p /\ UNCHANGED <<minted, pairing>>
      BY <1>2, <2>2 DEF Effects, Generate
    <3> QED
      BY <2>2, <3>1 DEF Agrees, CodePart, CodeTypes, CodeIsPanels, AtRest, Fresh
  <2> QED
    BY <2>1, <2>2
<1>3. CASE p.running /\ ~(p.pair = None /\ ~p.justLinked)
  <2>1. panel' = p /\ UNCHANGED <<minted, pairing>>
    BY <1>3 DEF Effects
  <2> QED
    BY <1>3, <2>1 DEF Agrees, CodePart, CodeTypes, CodeIsPanels, AtRest
<1> QED
  BY <1>1, <1>2, <1>3

(* The live code is dropped, or stands one more try.                       *)
LEMMA CodeDropped ==
  ASSUME CodePart, pairing' \in [secret : {None, pairing.secret}, tries : 0 .. (MaxTries - 1)],
         UNCHANGED <<scene, minted, panel>>, expired' \subseteq minted
  PROVE  CodePart'
<1>1. pairing'.secret \in {None, pairing.secret}
      /\ pairing' \in [secret : Codes \cup {None}, tries : 0 .. (MaxTries - 1)]
  BY DEF CodePart, CodeTypes
<1>2. CodeTypes'
  BY <1>1 DEF CodePart, CodeTypes
<1>3. CodeIsPanels'
  BY <1>1 DEF CodePart, CodeIsPanels, AtRest, Fresh
<1> QED
  BY <1>2, <1>3 DEF CodePart

LEMMA VerdictFact ==
  ASSUME CodeTypes, NEW ok \in BOOLEAN
  PROVE  Verdict(ok) \in [secret : {None, pairing.secret}, tries : 0 .. (MaxTries - 1)]
BY CodesAssumption DEF CodeTypes, Verdict, NoCode

LEMMA SameCodePart ==
  ASSUME CodePart, UNCHANGED <<scene, pairing, minted, expired, panel>>
  PROVE  CodePart'
BY DEF CodePart, CodeTypes, CodeIsPanels, AtRest, Fresh

(* What the panel's own steps make of the code.                            *)
LEMMA PanelCodeSteps ==
  ASSUME IInv,
         \/ TurnOff \/ PanelOpens \/ PanelCloses \/ StatusArrives \/ JustLinkedOver
         \/ MintReplies \/ Tick \/ NewCode
  PROVE  CodePart'
<1> USE DEF IInv, WayPart, PhonePart, CodePart
<1>1. panel \in Panel
  BY DEF CodeTypes
<1>2. CASE TurnOff
  <2> DEFINE p == [panel EXCEPT !.pair = None, !.stopping = TRUE]
  <2>1. Agrees(p)
    BY <1>1 DEF Agrees, Panel, CodeIsPanels
  <2>2. Effects(p) /\ UNCHANGED <<scene, expired>>
    BY <1>2 DEF TurnOff, way
  <2> QED
    BY <2>1, <2>2, EffectsKeep
<1>3. CASE PanelOpens
  BY <1>1, <1>3 DEF PanelOpens, CodeTypes, CodeIsPanels, Panel, AtRest, way, phones
<1>4. CASE PanelCloses
  <2>1. panel' = [Closed0 EXCEPT !.stopping = panel.stopping]
        /\ UNCHANGED <<pairing, minted, expired>>
    BY <1>4 DEF PanelCloses, phones
  <2> QED
    BY <1>1, <2>1 DEF CodeTypes, CodeIsPanels, Panel, AtRest, Closed0
<1>5. CASE StatusArrives
  <2> DEFINE linked == panel.prev # None /\ Count > panel.prev /\ panel.pair # None
             p == [panel EXCEPT !.running = Running, !.prev = Count,
                                !.pair = IF linked THEN None ELSE @,
                                !.justLinked = @ \/ linked]
  <2>1. panel.open /\ Effects(p) /\ UNCHANGED <<scene, expired>>
    BY <1>5 DEF StatusArrives, way
  <2>2. linked \in BOOLEAN /\ Running \in BOOLEAN
    BY DEF Running
  <2>3. p \in Panel
    BY <1>1, <2>2, CountFact DEF Panel
  <2>4. p.open = panel.open /\ p.reply = panel.reply /\ p.pair \in {None, panel.pair}
    BY <1>1 DEF Panel
  <2> HIDE DEF linked, p
  <2>5. Agrees(p)
    BY <2>1, <2>3, <2>4 DEF Agrees, CodeIsPanels
  <2> QED
    BY <2>1, <2>5, EffectsKeep
<1>6. CASE JustLinkedOver
  <2> DEFINE p == [panel EXCEPT !.justLinked = FALSE]
  <2>1. Agrees(p)
    BY <1>1 DEF Agrees, Panel, CodeIsPanels
  <2>2. Effects(p) /\ UNCHANGED <<scene, expired>>
    BY <1>6 DEF JustLinkedOver, way
  <2> QED
    BY <2>1, <2>2, EffectsKeep
<1>7. CASE MintReplies
  <2> DEFINE p == [panel EXCEPT !.pair = panel.reply, !.reply = None]
  <2>1. panel.reply # None /\ Effects(p) /\ UNCHANGED <<scene, expired>>
    BY <1>7 DEF MintReplies, way
  <2>2. Agrees(p)
    BY <1>1, <2>1 DEF Agrees, Panel, CodeIsPanels
  <2> QED
    BY <2>1, <2>2, EffectsKeep
<1>8. CASE Tick \/ NewCode
  <2>1. panel.pair # None /\ Fresh # {} /\ Mint(panel) /\ UNCHANGED <<scene, expired>>
    BY <1>8 DEF Tick, NewCode, Generate, way
  <2>2. panel.open
    BY <2>1 DEF CodeIsPanels
  <2> QED
    BY <1>1, <2>1, <2>2, MintKeeps
<1> QED
  BY <1>2, <1>3, <1>4, <1>5, <1>6, <1>7, <1>8

-----------------------------------------------------------------------------
(* The way in, when only the panel or the phones move.                     *)

LEMMA SameWayPart ==
  ASSUME WayPart, UNCHANGED way,
         scene.patient => (panel'.stopping => panel'.open /\ ~Pending)
  PROVE  WayPart'
<1>1. WayTypeOK' /\ TunnelIsOwned' /\ UrlIsTunnels' /\ ServerIsReachable'
  BY DEF WayPart, WayTypeOK, TunnelIsOwned, UrlIsTunnels, ServerIsReachable, Alive, way, server,
         binary, tunnels
<1>2. OneCall'
  BY DEF WayPart, OneCall, Pending, way, server, binary, tunnels
<1> QED
  BY <1>1, <1>2 DEF WayPart

LEMMA EffectsFact ==
  ASSUME NEW p \in Panel, Effects(p)
  PROVE  panel'.stopping = p.stopping /\ panel'.open = p.open
BY DEF Effects, Generate, Mint, Panel

LEMMA PanelWaySteps ==
  ASSUME IInv,
         \/ TurnOff \/ PanelOpens \/ PanelCloses \/ StatusArrives \/ JustLinkedOver
         \/ MintReplies \/ Tick \/ NewCode
  PROVE  WayPart'
<1> USE DEF IInv, WayPart, PhonePart, CodePart
<1>1. panel \in Panel
  BY DEF CodeTypes
<1>2. UNCHANGED way
  BY DEF TurnOff, PanelOpens, PanelCloses, StatusArrives, JustLinkedOver, MintReplies, Tick,
         NewCode
<1>3. ASSUME scene.patient, panel'.stopping PROVE panel'.open /\ ~Pending
  <2>1. CASE TurnOff
    <3> DEFINE p == [panel EXCEPT !.pair = None, !.stopping = TRUE]
    <3>1. p \in Panel /\ p.open /\ Effects(p)
      BY <1>1, <2>1 DEF TurnOff, Panel
    <3> QED
      BY <1>3, <2>1, <3>1, EffectsFact DEF TurnOff, MayPress
  <2>2. CASE PanelOpens
    BY <1>1, <1>3, <2>2 DEF PanelOpens, OneCall, Panel
  <2>3. CASE PanelCloses
    BY <1>1, <1>3, <2>3 DEF PanelCloses, Closed0
  <2>4. ASSUME StatusArrives \/ JustLinkedOver \/ MintReplies \/ Tick \/ NewCode
        PROVE  panel'.stopping = panel.stopping /\ panel'.open = panel.open
    <3>1. CASE StatusArrives
      <4> DEFINE linked == panel.prev # None /\ Count > panel.prev /\ panel.pair # None
                 p == [panel EXCEPT !.running = Running, !.prev = Count,
                                    !.pair = IF linked THEN None ELSE @,
                                    !.justLinked = @ \/ linked]
      <4>1. linked \in BOOLEAN /\ Running \in BOOLEAN
        BY DEF Running
      <4>2. p \in Panel /\ p.stopping = panel.stopping /\ p.open = panel.open
        BY <1>1, <4>1, CountFact DEF Panel
      <4>3. Effects(p)
        BY <3>1 DEF StatusArrives
      <4> QED
        BY <4>2, <4>3, EffectsFact
    <3>2. CASE JustLinkedOver
      <4> DEFINE p == [panel EXCEPT !.justLinked = FALSE]
      <4>1. p \in Panel /\ p.stopping = panel.stopping /\ p.open = panel.open /\ Effects(p)
        BY <1>1, <3>2 DEF JustLinkedOver, Panel
      <4> QED
        BY <4>1, EffectsFact
    <3>3. CASE MintReplies
      <4> DEFINE p == [panel EXCEPT !.pair = panel.reply, !.reply = None]
      <4>1. p \in Panel /\ p.stopping = panel.stopping /\ p.open = panel.open /\ Effects(p)
        BY <1>1, <3>3 DEF MintReplies, Panel
      <4> QED
        BY <4>1, EffectsFact
    <3>4. CASE Tick \/ NewCode
      BY <1>1, <3>4 DEF Tick, NewCode, Generate, Mint, Panel
    <3> QED
      BY <2>4, <3>1, <3>2, <3>3, <3>4
  <2>5. CASE StatusArrives \/ JustLinkedOver \/ MintReplies \/ Tick \/ NewCode
    BY <1>3, <2>4, <2>5 DEF OneCall
  <2> QED
    BY <2>1, <2>2, <2>3, <2>5
<1> QED
  BY <1>2, <1>3, SameWayPart

-----------------------------------------------------------------------------
(* The server.                                                             *)

LEMMA StartStep ==
  ASSUME WayPart, Start, panel' = panel, scene.patient => ~panel.stopping
  PROVE  WayPart' /\ scene' = scene /\ \A r \in Servers : srv[r] = "listening" => srv'[r] = srv[r]
<1> USE DEF WayPart
<1> DEFINE new == {r \in scene.servers : srv[r] = "new"}
           s == Any(new)
<1>1. /\ MayPress /\ http = None /\ new # {}
      /\ srv' = [srv EXCEPT ![s] = "binding"]
      /\ UNCHANGED <<scene, http, stops, binary, tunnels>>
  BY DEF Start
<1>2. s \in Servers /\ srv[s] = "new"
  BY <1>1, AnyFact, SceneFacts
<1> HIDE DEF s
<1>3. WayTypeOK'
  BY <1>1, <1>2 DEF WayTypeOK, binary, tunnels
<1>4. OneCall'
  BY <1>1, <1>2 DEF OneCall, MayPress, Pending, WayTypeOK, binary, tunnels
<1>5. TunnelIsOwned' /\ UrlIsTunnels'
  BY <1>1 DEF TunnelIsOwned, UrlIsTunnels, Alive, binary, tunnels
<1>6. ServerIsReachable'
  BY <1>1, <1>2 DEF ServerIsReachable, WayTypeOK
<1> QED
  BY <1>1, <1>2, <1>3, <1>4, <1>5, <1>6 DEF WayTypeOK

(* A server step that leaves the binary, the tunnel and the panel alone.   *)
LEMMA ServerSteps ==
  ASSUME WayPart, panel' = panel, NEW s \in Servers,
         Listens(s) \/ Refused(s) \/ StopReturns(s) \/ \E b \in BOOLEAN : Closed(s, b)
  PROVE  WayPart' /\ scene' = scene /\ \A r \in Servers : srv[r] = "listening" => srv'[r] = srv[r]
<1> USE DEF WayPart
<1>1. UNCHANGED <<scene, install, file, waiting, tunnelStarting, proc, tunnel, tunnelUrl,
                  tunnelTimeout, timers>>
  BY DEF Listens, Refused, StopReturns, Closed, binary, tunnels
<1>2. CASE Listens(s)
  <2>1. srv[s] = "binding" /\ srv' = [srv EXCEPT ![s] = "listening"] /\ http' = s /\ stops' = stops
    BY <1>2 DEF Listens
  <2>2. WayTypeOK'
    BY <1>1, <2>1 DEF WayTypeOK
  <2>3. OneCall'
    BY <1>1, <2>1, NoneFacts DEF OneCall, Pending, WayTypeOK
  <2>4. TunnelIsOwned' /\ UrlIsTunnels' /\ ServerIsReachable'
    BY <1>1, <2>1, NoneFacts
       DEF TunnelIsOwned, UrlIsTunnels, ServerIsReachable, Alive, OneCall, WayTypeOK
  <2> QED
    BY <1>1, <2>1, <2>2, <2>3, <2>4 DEF WayTypeOK
<1>3. CASE Refused(s)
  <2>1. srv[s] = "binding" /\ srv' = [srv EXCEPT ![s] = "closed"] /\ UNCHANGED <<http, stops>>
    BY <1>3 DEF Refused
  <2>2. WayTypeOK'
    BY <1>1, <2>1 DEF WayTypeOK
  <2>3. OneCall'
    BY <1>1, <2>1 DEF OneCall, Pending, WayTypeOK
  <2>4. TunnelIsOwned' /\ UrlIsTunnels' /\ ServerIsReachable'
    BY <1>1, <2>1 DEF TunnelIsOwned, UrlIsTunnels, ServerIsReachable, Alive, WayTypeOK
  <2> QED
    BY <1>1, <2>1, <2>2, <2>3, <2>4 DEF WayTypeOK
<1>4. CASE \E b \in BOOLEAN : Closed(s, b)
  <2>1. srv[s] = "closing" /\ srv' = [srv EXCEPT ![s] = "closed"] /\ UNCHANGED <<http, stops>>
    BY <1>4 DEF Closed
  <2>2. WayTypeOK'
    BY <1>1, <2>1 DEF WayTypeOK
  <2>3. OneCall'
    BY <1>1, <2>1 DEF OneCall, Pending, WayTypeOK
  <2>4. TunnelIsOwned' /\ UrlIsTunnels' /\ ServerIsReachable'
    BY <1>1, <2>1 DEF TunnelIsOwned, UrlIsTunnels, ServerIsReachable, Alive, WayTypeOK
  <2> QED
    BY <1>1, <2>1, <2>2, <2>3, <2>4 DEF WayTypeOK
<1>5. CASE StopReturns(s)
  <2>1. stops[s] > 0 /\ stops' = [stops EXCEPT ![s] = @ - 1] /\ http' = None /\ srv' = srv
    BY <1>5 DEF StopReturns
  <2>2. WayTypeOK'
    BY <1>1, <2>1 DEF WayTypeOK
  <2>3. scene.patient => \A r \in Servers : stops'[r] = 0
    BY <2>1 DEF OneCall, WayTypeOK
  <2>4. OneCall'
    BY <1>1, <2>1, <2>3 DEF OneCall, Pending, WayTypeOK
  <2>5. TunnelIsOwned' /\ UrlIsTunnels' /\ ServerIsReachable'
    BY <1>1, <2>1 DEF TunnelIsOwned, UrlIsTunnels, ServerIsReachable, Alive, OneCall, WayTypeOK
  <2> QED
    BY <1>1, <2>1, <2>2, <2>4, <2>5 DEF WayTypeOK
<1> QED
  BY <1>2, <1>3, <1>4, <1>5

(* stopTunnel, as stop and the button call it.                             *)
LEMMA ClearFacts ==
  ASSUME WayTypeOK, ClearTunnel
  PROVE  /\ tunnel' = None /\ tunnelUrl' = None /\ tunnelStarting' = FALSE
         /\ tunnelTimeout' = None /\ timers' \subseteq Procs
         /\ proc' \in [Procs -> {"none", "run", "dud", "killed", "gone"}]
         /\ \A p \in Procs : proc'[p] \in {"run", "dud"} => Alive(p) /\ p # tunnel
<1>1. CASE tunnel = None
  BY <1>1, NoneFacts DEF ClearTunnel, WayTypeOK, Alive
<1>2. CASE tunnel # None
  BY <1>2 DEF ClearTunnel, WayTypeOK, Alive, Kill
<1> QED
  BY <1>1, <1>2

(* stop, up to its await, and the panel that called it.                    *)
LEMMA StopWay ==
  ASSUME WayPart, CodeTypes, Stop
  PROVE  /\ WayPart' /\ scene' = scene
         /\ http = None => srv' = srv
         /\ http # None => srv' = [srv EXCEPT ![http] = "closing"]
<1> USE DEF WayPart
<1>1. /\ panel.stopping /\ panel'.stopping = FALSE
      /\ ClearTunnel /\ UNCHANGED <<scene, install, file, waiting, http>>
      /\ http = None => UNCHANGED <<srv, stops>>
      /\ http # None => /\ srv' = [srv EXCEPT ![http] = "closing"]
                        /\ stops' = [stops EXCEPT ![http] = @ + 1]
  BY DEF Stop, CloseServer, server, binary, CodeTypes, Panel
<1>2. WayTypeOK'
  <2>1. /\ srv' \in [Servers -> {"new", "binding", "listening", "closing", "closed"}]
        /\ stops' \in [Servers -> Nat]
    BY <1>1 DEF WayTypeOK
  <2>2. /\ {tunnel', tunnelUrl', tunnelTimeout'} \subseteq Procs \cup {None}
        /\ tunnelStarting' \in BOOLEAN /\ timers' \subseteq Procs
        /\ proc' \in [Procs -> {"none", "run", "dud", "killed", "gone"}]
    BY <1>1, ClearFacts
  <2> QED
    BY <1>1, <2>1, <2>2 DEF WayTypeOK
<1>3. ASSUME scene.patient
      PROVE  /\ ~waiting /\ install = "idle"
             /\ \A s \in Servers : srv[s] # "binding" /\ stops[s] = 0
  BY <1>1, <1>3 DEF OneCall, Pending, WayTypeOK
<1>4. OneCall'
  <2> SUFFICES ASSUME scene.patient, NEW s \in Servers
      PROVE  /\ srv'[s] # "binding"
             /\ stops'[s] > 0 => stops'[s] = 1 /\ http = s /\ srv'[s] \in {"closing", "closed"}
    BY <1>1, <1>3, ClearFacts DEF OneCall
  <2> QED
    BY <1>1, <1>3, NoneFacts DEF WayTypeOK
<1>5. TunnelIsOwned' /\ UrlIsTunnels'
  <2>1. scene.patient => \A p \in Procs : proc'[p] \notin {"run", "dud"}
    BY <1>1, ClearFacts DEF TunnelIsOwned
  <2>2. tunnel' = None /\ tunnelUrl' = None /\ scene' = scene
    BY <1>1, ClearFacts
  <2> QED
    BY <2>1, <2>2 DEF TunnelIsOwned, UrlIsTunnels, Alive
<1>6. ServerIsReachable'
  BY <1>1 DEF ServerIsReachable, WayTypeOK
<1> QED
  BY <1>1, <1>2, <1>4, <1>5, <1>6

-----------------------------------------------------------------------------
(* The binary and the tunnel.                                              *)

LEMMA SpawnFacts ==
  ASSUME WayTypeOK, Spawn
  PROVE  \E p \in Procs :
           /\ proc[p] = "none" /\ tunnelUrl' = tunnelUrl
           /\ tunnel' = p /\ tunnelTimeout' = p /\ timers' = timers \cup {p}
           /\ proc' = [proc EXCEPT ![p] = "run"] \/ proc' = [proc EXCEPT ![p] = "dud"]
<1> DEFINE p == Any(Unused)
<1>1. Unused # {} /\ tunnelUrl' = tunnelUrl
      /\ tunnel' = p /\ tunnelTimeout' = p /\ timers' = timers \cup {p}
      /\ proc' = [proc EXCEPT ![p] = IF file = "good" THEN "run" ELSE "dud"]
  BY DEF Spawn
<1>2. p \in Procs /\ proc[p] = "none"
  BY <1>1, AnyFact, SceneFacts DEF Unused
<1> HIDE DEF p
<1> QED
  BY <1>1, <1>2

(* What a spawn does to the tunnel's part, when there was none.            *)
LEMMA SpawnKeeps ==
  ASSUME WayPart, Spawn, UNCHANGED <<scene, http>>, scene.patient => tunnel = None /\ http # None
  PROVE  /\ TunnelIsOwned' /\ UrlIsTunnels'
         /\ {tunnel', tunnelUrl', tunnelTimeout'} \subseteq Procs \cup {None}
         /\ timers' \subseteq Procs
         /\ proc' \in [Procs -> {"none", "run", "dud", "killed", "gone"}]
<1> USE DEF WayPart
<1>1. PICK p \in Procs :
        /\ proc[p] = "none" /\ tunnelUrl' = tunnelUrl
        /\ tunnel' = p /\ tunnelTimeout' = p /\ timers' = timers \cup {p}
        /\ proc' = [proc EXCEPT ![p] = "run"] \/ proc' = [proc EXCEPT ![p] = "dud"]
  BY SpawnFacts
<1>2. \A q \in Procs : Alive(q)' => q = p \/ Alive(q)
  BY <1>1 DEF Alive, WayTypeOK
<1>3. TunnelIsOwned'
  BY <1>1, <1>2, NoneFacts DEF TunnelIsOwned
<1>4. UrlIsTunnels'
  BY <1>1 DEF UrlIsTunnels
<1> QED
  BY <1>1, <1>3, <1>4 DEF WayTypeOK

LEMMA BinarySteps ==
  ASSUME WayPart, panel' = panel,
         CheckPasses \/ InstallFails \/ \E q \in {"good", "bad"} : Fetched(q)
  PROVE  WayPart' /\ UNCHANGED <<scene, srv>>
<1> USE DEF WayPart
<1>1. install # "idle" /\ UNCHANGED <<scene, srv, http, stops>>
  BY DEF CheckPasses, InstallFails, Fetched, server
<1>2. ServerIsReachable'
  BY <1>1 DEF ServerIsReachable
<1>3. scene.patient => /\ ~panel.stopping
                       /\ \A s \in Servers : srv[s] # "binding" /\ stops[s] = 0
  BY <1>1 DEF OneCall, Pending, WayTypeOK
<1>4. CASE CheckPasses
  <2>1. install' = "idle" /\ file' = file /\ waiting' = FALSE
    BY <1>4 DEF CheckPasses, Resumed
  <2>2. OneCall'
    BY <1>1, <1>3, <2>1 DEF OneCall
  <2>3. CASE ~(waiting /\ http # None)
    <3>1. /\ UNCHANGED <<proc, tunnel, tunnelUrl, tunnelTimeout, timers>>
          /\ tunnelStarting' \in {tunnelStarting, FALSE}
      BY <1>4, <2>3 DEF CheckPasses, Resumed, tunnels
    <3>2. WayTypeOK'
      BY <1>1, <2>1, <3>1 DEF WayTypeOK
    <3>3. TunnelIsOwned' /\ UrlIsTunnels'
      BY <1>1, <3>1 DEF TunnelIsOwned, UrlIsTunnels, Alive
    <3> QED
      BY <1>1, <1>2, <2>2, <3>2, <3>3
  <2>4. CASE waiting /\ http # None
    <3>1. Spawn /\ tunnelStarting' = tunnelStarting
      BY <1>4, <2>4 DEF CheckPasses, Resumed
    <3>2. scene.patient => tunnel = None /\ http # None
      BY <2>4 DEF OneCall
    <3>3. TunnelIsOwned' /\ UrlIsTunnels'
          /\ {tunnel', tunnelUrl', tunnelTimeout'} \subseteq Procs \cup {None}
          /\ timers' \subseteq Procs
          /\ proc' \in [Procs -> {"none", "run", "dud", "killed", "gone"}]
      BY <1>1, <3>1, <3>2, SpawnKeeps
    <3>4. WayTypeOK'
      BY <1>1, <2>1, <3>1, <3>3 DEF WayTypeOK
    <3> QED
      BY <1>1, <1>2, <2>2, <3>3, <3>4
  <2> QED
    BY <2>3, <2>4
<1>5. CASE InstallFails
  <2>1. /\ install' = "idle" /\ file' = "none" /\ waiting' = FALSE
        /\ tunnelStarting' = (tunnelStarting /\ ~waiting)
        /\ UNCHANGED <<proc, tunnel, tunnelUrl, tunnelTimeout, timers>>
    BY <1>5 DEF InstallFails
  <2>2. OneCall'
    BY <1>1, <1>3, <2>1 DEF OneCall
  <2>3. WayTypeOK'
    BY <1>1, <2>1 DEF WayTypeOK
  <2>4. TunnelIsOwned' /\ UrlIsTunnels'
    BY <1>1, <2>1 DEF TunnelIsOwned, UrlIsTunnels, Alive
  <2> QED
    BY <1>1, <1>2, <2>2, <2>3, <2>4
<1>6. ASSUME NEW q \in {"good", "bad"}, Fetched(q) PROVE WayPart'
  <2>1. /\ install' = "checking" /\ file' = q /\ waiting' = waiting
        /\ UNCHANGED <<tunnelStarting, proc, tunnel, tunnelUrl, tunnelTimeout, timers>>
    BY <1>6 DEF Fetched, tunnels
  <2>2. OneCall'
    BY <1>1, <1>3, <2>1 DEF OneCall
  <2>3. WayTypeOK'
    BY <1>1, <2>1 DEF WayTypeOK
  <2>4. TunnelIsOwned' /\ UrlIsTunnels'
    BY <1>1, <2>1 DEF TunnelIsOwned, UrlIsTunnels, Alive
  <2> QED
    BY <1>1, <1>2, <2>2, <2>3, <2>4
<1> QED
  BY <1>1, <1>4, <1>5, <1>6

LEMMA ButtonSteps ==
  ASSUME WayPart, Buttons, panel' = panel, scene.patient => ~panel.stopping
  PROVE  WayPart' /\ UNCHANGED <<scene, srv>>
<1> USE DEF WayPart
<1>1. UNCHANGED <<scene, srv, http, stops>>
  BY DEF Buttons, Install, Uninstall, StartTunnel, StopTunnel, server
<1>2. ServerIsReachable'
  BY <1>1 DEF ServerIsReachable
<1>3. scene.patient => /\ install = "idle" /\ ~waiting
                       /\ \A s \in Servers : srv[s] # "binding" /\ stops[s] = 0
  BY DEF Buttons, Install, Uninstall, StartTunnel, StopTunnel, MayPress, Pending, WayTypeOK
<1>4. CASE Install \/ Uninstall
  <2>1. /\ install' \in {"fetching", "idle"} /\ file' \in {file, "none"} /\ waiting' = waiting
        /\ UNCHANGED <<tunnelStarting, proc, tunnel, tunnelUrl, tunnelTimeout, timers>>
    BY <1>4 DEF Install, Uninstall, tunnels
  <2>2. OneCall'
    BY <1>1, <1>3, <2>1 DEF OneCall
  <2>3. WayTypeOK'
    BY <1>1, <2>1 DEF WayTypeOK
  <2>4. TunnelIsOwned' /\ UrlIsTunnels'
    BY <1>1, <2>1 DEF TunnelIsOwned, UrlIsTunnels, Alive
  <2> QED
    BY <1>1, <1>2, <2>2, <2>3, <2>4
<1>5. CASE StartTunnel
  <2>1. /\ http # None /\ tunnel = None /\ tunnelStarting' = TRUE /\ file' = file
        /\ \/ Spawn /\ UNCHANGED <<install, waiting>>
           \/ /\ waiting' = TRUE /\ install' = "fetching"
              /\ UNCHANGED <<proc, tunnel, tunnelUrl, tunnelTimeout, timers>>
    BY <1>5 DEF StartTunnel
  <2>2. CASE Spawn /\ UNCHANGED <<install, waiting>>
    <3>1. TunnelIsOwned' /\ UrlIsTunnels'
          /\ {tunnel', tunnelUrl', tunnelTimeout'} \subseteq Procs \cup {None}
          /\ timers' \subseteq Procs
          /\ proc' \in [Procs -> {"none", "run", "dud", "killed", "gone"}]
      BY <1>1, <2>1, <2>2, SpawnKeeps
    <3>2. WayTypeOK'
      BY <1>1, <2>1, <2>2, <3>1 DEF WayTypeOK
    <3>3. OneCall'
      BY <1>1, <1>3, <2>2 DEF OneCall
    <3> QED
      BY <1>1, <1>2, <3>1, <3>2, <3>3
  <2>3. CASE /\ waiting' = TRUE /\ install' = "fetching"
             /\ UNCHANGED <<proc, tunnel, tunnelUrl, tunnelTimeout, timers>>
    <3>1. WayTypeOK'
      BY <1>1, <2>1, <2>3 DEF WayTypeOK
    <3>2. OneCall'
      BY <1>1, <1>3, <2>1, <2>3 DEF OneCall
    <3>3. TunnelIsOwned' /\ UrlIsTunnels'
      BY <1>1, <2>3 DEF TunnelIsOwned, UrlIsTunnels, Alive
    <3> QED
      BY <1>1, <1>2, <3>1, <3>2, <3>3
  <2> QED
    BY <2>1, <2>2, <2>3
<1>6. CASE StopTunnel
  <2>1. ClearTunnel /\ UNCHANGED <<install, file, waiting>>
    BY <1>6 DEF StopTunnel, binary
  <2>2. /\ {tunnel', tunnelUrl', tunnelTimeout'} \subseteq Procs \cup {None}
        /\ tunnelStarting' \in BOOLEAN /\ timers' \subseteq Procs
        /\ proc' \in [Procs -> {"none", "run", "dud", "killed", "gone"}]
    BY <2>1, ClearFacts
  <2>3. WayTypeOK'
    BY <1>1, <2>1, <2>2 DEF WayTypeOK
  <2>4. OneCall'
    BY <1>1, <1>3, <2>1 DEF OneCall
  <2>5. TunnelIsOwned' /\ UrlIsTunnels'
    <3>1. scene.patient => \A p \in Procs : proc'[p] \notin {"run", "dud"}
      BY <2>1, ClearFacts DEF TunnelIsOwned
    <3>2. tunnel' = None /\ tunnelUrl' = None
      BY <2>1, ClearFacts
    <3> QED
      BY <1>1, <3>1, <3>2 DEF TunnelIsOwned, UrlIsTunnels, Alive
  <2> QED
    BY <1>1, <1>2, <2>3, <2>4, <2>5
<1> QED
  BY <1>1, <1>4, <1>5, <1>6 DEF Buttons

(* A process prints, is timed out, cannot be launched, or is gone.         *)
LEMMA ProcSteps ==
  ASSUME WayPart, panel' = panel, NEW p \in Procs,
         Prints(p) \/ TimesOut(p) \/ LaunchFails(p) \/ Exits(p)
  PROVE  WayPart' /\ UNCHANGED <<scene, srv>>
<1> USE DEF WayPart
<1>1. UNCHANGED <<scene, srv, http, stops, install, file, waiting>>
  BY DEF Prints, TimesOut, LaunchFails, Exits, server, binary
<1>2. ServerIsReachable'
  BY <1>1 DEF ServerIsReachable
<1>3. tunnel' \in {tunnel, None}
  BY DEF Prints, TimesOut, LaunchFails, Exits
<1>4. OneCall'
  BY <1>1, <1>3 DEF OneCall, Pending
<1>5. /\ proc' \in [Procs -> {"none", "run", "dud", "killed", "gone"}]
      /\ scene.patient =>
           \A q \in Procs : Alive(q)' => Alive(q) /\ (tunnel' = tunnel \/ tunnel # q)
  <2>1. CASE Prints(p)
    BY <2>1 DEF Prints, Alive, WayTypeOK
  <2>2. CASE TimesOut(p)
    BY <2>2 DEF TimesOut, Kill, Alive, WayTypeOK
  <2>3. CASE LaunchFails(p)
    BY <2>3 DEF LaunchFails, TunnelIsOwned, Alive, WayTypeOK
  <2>4. CASE Exits(p)
    BY <2>4 DEF Exits, Alive, WayTypeOK
  <2> QED
    BY <2>1, <2>2, <2>3, <2>4
<1>6. TunnelIsOwned'
  BY <1>1, <1>3, <1>5 DEF TunnelIsOwned
<1>7. UrlIsTunnels'
  BY <1>1 DEF UrlIsTunnels, TunnelIsOwned, Alive, Prints, TimesOut, LaunchFails, Exits
<1>8. WayTypeOK'
  <2>1. /\ tunnelUrl' \in {tunnelUrl, None, p} /\ tunnelTimeout' \in {tunnelTimeout, None}
        /\ timers' \subseteq timers /\ tunnelStarting' \in {tunnelStarting, FALSE}
    BY DEF Prints, TimesOut, LaunchFails, Exits
  <2> QED
    BY <1>1, <1>3, <1>5, <2>1 DEF WayTypeOK
<1> QED
  BY <1>1, <1>2, <1>4, <1>6, <1>7, <1>8

-----------------------------------------------------------------------------
(* The phones.                                                             *)

LEMMA SamePhonePart ==
  ASSUME PhonePart, UNCHANGED <<scene, devices, linkedBy, sock>>,
         \A s \in Servers : srv[s] = "listening" => srv'[s] = "listening"
  PROVE  PhonePart'
<1>1. PhoneTypes' /\ RevokedIsOut'
  BY DEF PhonePart, PhoneTypes, Linked, RevokedIsOut, Unknown
<1>2. SocketsAreServed'
  <2>1. \A w \in Sockets : sock[w].srv \in Servers \cup {None}
    BY DEF PhonePart, PhoneTypes, Socket
  <2> QED
    BY <2>1 DEF PhonePart, SocketsAreServed
<1> QED
  BY <1>1, <1>2 DEF PhonePart

(* stop closes the sockets of the server it closes; those of another one   *)
(* are not open, for no other one listens.                                 *)
LEMMA StopPhones ==
  ASSUME WayPart, PhonePart, CodeTypes, Stop
  PROVE  PhonePart'
<1>1. /\ UNCHANGED <<scene, devices, linkedBy>> /\ CloseSockets
      /\ http = None => srv' = srv
      /\ http # None => srv' = [srv EXCEPT ![http] = "closing"]
  BY StopWay DEF Stop
<1>2. \A w \in Sockets :
        /\ sock'[w] \in Socket /\ sock'[w].srv = sock[w].srv /\ sock'[w].dev = sock[w].dev
        /\ sock'[w].st = "open" =>
             sock'[w].st = sock[w].st /\ (http = None \/ sock[w].srv # http)
  BY <1>1 DEF CloseSockets, PhonePart, PhoneTypes, Socket
<1>3. PhoneTypes'
  <2>1. sock' \in [Sockets -> Socket]
    BY <1>1, <1>2 DEF CloseSockets
  <2> QED
    BY <1>1, <2>1 DEF PhonePart, PhoneTypes, Linked
<1>4. SocketsAreServed'
  <2> SUFFICES ASSUME scene.patient, NEW w \in Sockets, sock'[w].st = "open"
      PROVE  sock'[w].srv # None /\ srv'[sock'[w].srv] = "listening"
    BY <1>1 DEF SocketsAreServed
  <2>1. sock[w].srv # None /\ srv[sock[w].srv] = "listening" /\ sock[w].srv \in Servers
    BY <1>2 DEF PhonePart, PhoneTypes, Socket, SocketsAreServed
  <2> QED
    BY <1>1, <1>2, <2>1 DEF WayPart, WayTypeOK
<1>5. RevokedIsOut'
  BY <1>1, <1>2 DEF PhonePart, RevokedIsOut, Unknown
<1> QED
  BY <1>3, <1>4, <1>5 DEF PhonePart

LEMMA RedeemFacts ==
  ASSUME PhoneTypes, NEW c \in Codes, Redeem(c)
  PROVE  \E d \in Devices :
           /\ linkedBy[d] = None /\ devices' = devices \cup {d}
           /\ linkedBy' = [linkedBy EXCEPT ![d] = c]
           /\ Linked' = Linked \cup {d} /\ d \notin Linked
<1> DEFINE d == Any(Unlinked)
<1>1. Unlinked # {} /\ devices' = devices \cup {d} /\ linkedBy' = [linkedBy EXCEPT ![d] = c]
  BY DEF Redeem
<1>2. d \in Devices /\ linkedBy[d] = None
  BY <1>1, AnyFact DEF Unlinked
<1> HIDE DEF d
<1>3. Linked' = Linked \cup {d} /\ d \notin Linked
  BY <1>1, <1>2, NoneFacts DEF PhoneTypes, Linked
<1> QED
  BY <1>1, <1>2, <1>3

LEMMA RedeemStep ==
  ASSUME PhonePart, NEW c \in Codes, Redeem(c)
  PROVE  PhonePart'
<1>1. PICK d \in Devices :
        /\ linkedBy[d] = None /\ devices' = devices \cup {d}
        /\ linkedBy' = [linkedBy EXCEPT ![d] = c]
        /\ Linked' = Linked \cup {d} /\ d \notin Linked
  BY RedeemFacts DEF PhonePart
<1>2. UNCHANGED <<scene, srv, sock>>
  BY DEF Redeem, way, server
<1>3. IsFiniteSet(Linked')
  BY <1>1, FS_AddElement DEF PhonePart, PhoneTypes
<1>4. PhoneTypes'
  BY <1>1, <1>2, <1>3 DEF PhonePart, PhoneTypes
<1>5. SocketsAreServed' /\ RevokedIsOut'
  BY <1>1, <1>2 DEF PhonePart, SocketsAreServed, RevokedIsOut, Unknown
<1> QED
  BY <1>4, <1>5 DEF PhonePart

(* A revoked phone's sockets are on the only server that listens.          *)
LEMMA RevokeStep ==
  ASSUME WayPart, PhonePart, NEW d \in Devices, Revoke(d)
  PROVE  PhonePart'
<1>1. /\ devices' = devices \ {d} /\ UNCHANGED <<scene, srv, linkedBy>>
      /\ sock' = [w \in Sockets |->
           IF http # None /\ sock[w].srv = http /\ sock[w].dev = d /\ sock[w].st = "open"
           THEN [sock[w] EXCEPT !.st = "closing"] ELSE sock[w]]
  BY DEF Revoke, way, server
<1>2. \A w \in Sockets :
        /\ sock'[w] \in Socket /\ sock'[w].srv = sock[w].srv /\ sock'[w].dev = sock[w].dev
        /\ sock'[w].st = "open" => sock[w].st = "open"
        /\ sock'[w].st = "open" => ~(http # None /\ sock[w].srv = http /\ sock[w].dev = d)
  BY <1>1 DEF PhonePart, PhoneTypes, Socket
<1>3. PhoneTypes'
  <2>1. sock' \in [Sockets -> Socket]
    BY <1>1, <1>2
  <2> QED
    BY <1>1, <2>1 DEF PhonePart, PhoneTypes, Linked
<1>4. SocketsAreServed'
  BY <1>1, <1>2 DEF PhonePart, SocketsAreServed
<1>5. RevokedIsOut'
  <2> SUFFICES ASSUME scene.patient, NEW w \in Sockets, sock'[w].st = "open", ~Unknown(w)
      PROVE  sock[w].dev \in devices /\ sock[w].dev # d
    BY <1>1, <1>2 DEF RevokedIsOut, Unknown
  <2>1. sock[w].st = "open" /\ sock[w].srv \in Servers /\ srv[sock[w].srv] = "listening"
    BY <1>2 DEF PhonePart, PhoneTypes, Socket, SocketsAreServed
  <2>2. http = sock[w].srv /\ http # None
    BY <2>1, NoneFacts DEF WayPart, ServerIsReachable
  <2> QED
    BY <1>2, <2>1, <2>2 DEF PhonePart, RevokedIsOut
<1> QED
  BY <1>3, <1>4, <1>5 DEF PhonePart

LEMMA SocketSteps ==
  ASSUME WayPart, PhonePart, NEW w \in Sockets,
         \/ Connect(w) \/ NotLinked(w) \/ HandshakeTimeout(w) \/ SocketCloses(w) \/ PhoneLeaves(w)
         \/ \E d \in Devices : Handshake(w, d)
  PROVE  PhonePart'
<1>1. UNCHANGED <<scene, srv, devices, linkedBy>>
  BY DEF Connect, NotLinked, HandshakeTimeout, SocketCloses, PhoneLeaves, Handshake, SetSock,
         way, server
<1>2. scene.patient /\ sock[w].st = "open" =>
        sock[w].srv \in Servers /\ srv[sock[w].srv] = "listening"
  BY DEF PhonePart, PhoneTypes, Socket, SocketsAreServed
<1>3. /\ sock' \in [Sockets -> Socket] /\ \A v \in Sockets \ {w} : sock'[v] = sock[v]
      /\ scene.patient /\ sock'[w].st = "open" =>
           sock'[w].srv \in Servers /\ srv[sock'[w].srv] = "listening"
      /\ sock'[w].st = "open" /\ sock'[w].dev # None => sock'[w].dev \in devices
  <2>1. CASE Connect(w)
    BY <2>1 DEF Connect, PhonePart, PhoneTypes, Socket
  <2>2. CASE NotLinked(w) \/ HandshakeTimeout(w) \/ SocketCloses(w) \/ PhoneLeaves(w)
    BY <2>2 DEF NotLinked, HandshakeTimeout, SocketCloses, PhoneLeaves, SetSock, PhonePart,
                PhoneTypes, Socket
  <2>3. ASSUME NEW d \in Devices, Handshake(w, d)
        PROVE  /\ sock' \in [Sockets -> Socket] /\ \A v \in Sockets \ {w} : sock'[v] = sock[v]
               /\ sock'[w].st = sock[w].st /\ sock'[w].srv = sock[w].srv
               /\ sock'[w].dev \in devices
    BY <2>3 DEF Handshake, Heard, SetSock, PhonePart, PhoneTypes, Socket
  <2> QED
    BY <1>2, <2>1, <2>2, <2>3
<1>4. PhoneTypes'
  BY <1>1, <1>3 DEF PhonePart, PhoneTypes, Linked
<1>5. SocketsAreServed'
  <2> SUFFICES ASSUME scene.patient, NEW v \in Sockets, sock'[v].st = "open"
      PROVE  sock'[v].srv # None /\ srv[sock'[v].srv] = "listening"
    BY <1>1 DEF SocketsAreServed
  <2>1. CASE v # w
    BY <1>3, <2>1 DEF PhonePart, SocketsAreServed
  <2>2. CASE v = w
    BY <1>3, <2>2, NoneFacts DEF PhonePart, SocketsAreServed
  <2> QED
    BY <2>1, <2>2
<1>6. RevokedIsOut'
  BY <1>1, <1>3 DEF PhonePart, RevokedIsOut, Unknown
<1> QED
  BY <1>4, <1>5, <1>6 DEF PhonePart

-----------------------------------------------------------------------------
(* Every step keeps the invariant.                                         *)

LEMMA PanelSteps ==
  ASSUME IInv, PanelNext
  PROVE  IInv'
<1> USE DEF IInv
<1>1. CASE \/ TurnOff \/ PanelOpens \/ PanelCloses \/ StatusArrives \/ JustLinkedOver
           \/ MintReplies \/ Tick \/ NewCode
  <2>1. UNCHANGED <<scene, srv, devices, linkedBy, sock>>
    BY <1>1 DEF TurnOff, PanelOpens, PanelCloses, StatusArrives, JustLinkedOver, MintReplies,
                Tick, NewCode, way, server, phones
  <2> QED
    BY <1>1, <2>1, PanelCodeSteps, PanelWaySteps, SamePhonePart
<1>2. CASE Stop
  <2>1. WayPart' /\ PhonePart' /\ scene' = scene
    BY <1>2, StopWay, StopPhones DEF CodePart
  <2>2. /\ panel' = [panel EXCEPT !.stopping = FALSE] /\ pairing' = NoCode
        /\ UNCHANGED <<minted, expired>>
    BY <1>2 DEF Stop
  <2>3. CodePart'
    <3>1. pairing'.secret = None
          /\ pairing' \in [secret : Codes \cup {None}, tries : 0 .. (MaxTries - 1)]
      BY <2>2, CodesAssumption DEF NoCode
    <3>2. /\ panel' \in Panel /\ panel'.open = panel.open /\ panel'.reply = panel.reply
          /\ panel'.pair = panel.pair /\ panel'.running = panel.running
          /\ panel'.justLinked = panel.justLinked
      BY <2>2 DEF CodePart, CodeTypes, Panel
    <3>3. CodeTypes'
      BY <2>2, <3>1, <3>2 DEF CodePart, CodeTypes
    <3>4. CodeIsPanels'
      BY <3>1, <3>2 DEF CodePart, CodeIsPanels
    <3> QED
      BY <3>3, <3>4 DEF CodePart
  <2> QED
    BY <2>1, <2>3
<1>3. CASE TurnOn
  <2>1. Start /\ UNCHANGED <<phones, panel>> /\ (panel.open => ~panel.stopping)
    BY <1>3 DEF TurnOn
  <2>2. scene.patient => ~panel.stopping
    BY <2>1 DEF WayPart, OneCall
  <2>3. WayPart' /\ scene' = scene /\ \A r \in Servers : srv[r] = "listening" => srv'[r] = srv[r]
    BY <2>1, <2>2, StartStep
  <2> QED
    BY <2>1, <2>3, SamePhonePart, SameCodePart DEF phones
<1> QED
  BY <1>1, <1>2, <1>3 DEF PanelNext

LEMMA PhoneSteps ==
  ASSUME IInv, PhoneNext
  PROVE  IInv'
<1> USE DEF IInv
<1>1. UNCHANGED <<way, panel>>
  BY DEF PhoneNext, Redeem, Expire, Reject, Revoke, Handshake, Connect, NotLinked,
         HandshakeTimeout, SocketCloses, PhoneLeaves, SetSock
<1>2. WayPart' /\ UNCHANGED <<scene, srv, panel>>
  BY <1>1, SameWayPart DEF WayPart, OneCall, way, server
<1>3. ASSUME NEW c \in Codes, Redeem(c) PROVE PhonePart' /\ CodePart'
  <2>1. pairing' = Verdict(TRUE) /\ UNCHANGED <<minted, expired>>
    BY <1>3 DEF Redeem
  <2> QED
    BY <1>2, <1>3, <2>1, RedeemStep, VerdictFact, CodeDropped DEF CodePart, CodeTypes
<1>4. ASSUME NEW c \in Codes, Expire(c) PROVE PhonePart' /\ CodePart'
  <2>1. /\ c \in minted /\ expired' = expired \cup {c}
        /\ UNCHANGED <<pairing, minted, devices, linkedBy, sock>>
    BY <1>4 DEF Expire
  <2>2. CodePart'
    BY <1>2, <2>1 DEF CodePart, CodeTypes, CodeIsPanels, AtRest, Fresh
  <2> QED
    BY <1>2, <2>1, <2>2, SamePhonePart
<1>5. ASSUME Reject PROVE PhonePart' /\ CodePart'
  <2>1. pairing' = Verdict(FALSE) /\ UNCHANGED <<minted, expired, devices, linkedBy, sock>>
    BY <1>5 DEF Reject
  <2> QED
    BY <1>2, <2>1, SamePhonePart, VerdictFact, CodeDropped DEF CodePart, CodeTypes
<1>6. ASSUME NEW d \in Devices, Revoke(d) PROVE PhonePart' /\ CodePart'
  BY <1>2, <1>6, RevokeStep, SameCodePart DEF Revoke
<1>7. ASSUME NEW w \in Sockets,
             \/ Connect(w) \/ NotLinked(w) \/ HandshakeTimeout(w) \/ SocketCloses(w)
             \/ PhoneLeaves(w) \/ \E d \in Devices : Handshake(w, d)
      PROVE  PhonePart' /\ CodePart'
  <2>1. UNCHANGED <<pairing, minted, expired>>
    BY <1>7 DEF Connect, NotLinked, HandshakeTimeout, SocketCloses, PhoneLeaves, Handshake, SetSock
  <2> QED
    BY <1>2, <1>7, <2>1, SocketSteps, SameCodePart
<1> QED
  BY <1>2, <1>3, <1>4, <1>5, <1>6, <1>7 DEF PhoneNext

LEMMA ServerNextSteps ==
  ASSUME IInv, ServerNext
  PROVE  IInv'
<1> USE DEF IInv
<1>1. UNCHANGED <<phones, panel>>
  BY DEF ServerNext, Way
<1>2. WayPart' /\ scene' = scene
      /\ \A s \in Servers : srv[s] = "listening" => srv'[s] = "listening"
  <2>1. CASE WayNext
    BY <1>1, <2>1, ServerSteps, BinarySteps, ProcSteps DEF WayNext
  <2>2. CASE Buttons /\ (scene.patient => ~panel.stopping)
    BY <1>1, <2>2, ButtonSteps
  <2>3. ASSUME NEW s \in Servers, Closed(s, OnServer(s) # {}) \/ StopReturns(s)
        PROVE  WayPart' /\ scene' = scene
               /\ \A r \in Servers : srv[r] = "listening" => srv'[r] = "listening"
    <3>1. (OnServer(s) # {}) \in BOOLEAN
      OBVIOUS
    <3> QED
      BY <1>1, <2>3, <3>1, ServerSteps
  <2> QED
    BY <2>1, <2>2, <2>3 DEF ServerNext, Way
<1> QED
  BY <1>1, <1>2, SamePhonePart, SameCodePart DEF phones

LEMMA StepInv == IInv /\ [Next]_vars => IInv'
<1> SUFFICES ASSUME IInv, [Next]_vars PROVE IInv'
  OBVIOUS
<1>1. CASE UNCHANGED vars
  <2>1. UNCHANGED <<scene, srv, devices, linkedBy, sock, pairing, minted, expired, panel, way>>
    BY <1>1 DEF vars, way, server, phones
  <2> QED
    BY <2>1, SameWayPart, SamePhonePart, SameCodePart DEF IInv, WayPart, OneCall
<1> QED
  BY <1>1, PanelSteps, PhoneSteps, ServerNextSteps DEF Next

(* Processes, the address on show, the listener, the linked phones and the *)
(* code on the screen belong together in every reachable state             *)
(* (MobileService's calls, timers and events, with PhonePanel).            *)
THEOREM AccessAlwaysOwned == Spec => []AccessIsOwned
<1>1. Spec => []IInv
  BY InitInv, StepInv, PTL DEF Spec
<1> QED
  BY <1>1, InvImplies, PTL

-----------------------------------------------------------------------------
(* The service keeps the promise of OneTimeCodes.                          *)

(* What a step of the program may do to the codes: issue a new one, link a *)
(* phone with the live one, count a wrong request, or drop the live one.   *)
Issues ==
  /\ \E c \in Codes : /\ c \notin minted /\ minted' = minted \cup {c}
                      /\ pairing' = [secret |-> c, tries |-> 0]
  /\ linkedBy' = linkedBy
Links ==
  /\ pairing.secret # None /\ pairing' = NoCode /\ minted' = minted
  /\ Cardinality(Linked') = Cardinality(Linked) + 1
Guesses ==
  /\ pairing.secret # None /\ pairing.tries + 1 < MaxTries
  /\ pairing' = [pairing EXCEPT !.tries = @ + 1]
  /\ UNCHANGED <<minted, linkedBy>>
Drops == pairing' = NoCode /\ UNCHANGED <<minted, linkedBy>>

LEMMA EffectsIssue ==
  ASSUME WayTypeOK, NEW p, Effects(p) \/ Generate(p), linkedBy' = linkedBy
  PROVE  Issues \/ UNCHANGED <<minted, pairing, linkedBy>>
<1>1. CASE UNCHANGED <<minted, pairing>>
  BY <1>1
<1>2. CASE Fresh # {} /\ Mint(p)
  <2> DEFINE c == Any(Fresh)
  <2>1. c \in Codes /\ c \notin minted
    BY <1>2, AnyFact, SceneFacts DEF Fresh
  <2>2. minted' = minted \cup {c} /\ pairing' = [secret |-> c, tries |-> 0]
    BY <1>2 DEF Mint
  <2> HIDE DEF c
  <2> QED
    BY <2>1, <2>2 DEF Issues
<1> QED
  BY <1>1, <1>2 DEF Effects, Generate

LEMMA CodeSteps ==
  ASSUME IInv, [Next]_vars
  PROVE  Issues \/ Links \/ Guesses \/ Drops \/ UNCHANGED <<minted, pairing, linkedBy>>
<1> USE DEF IInv, WayPart, PhonePart, CodePart
<1>1. CASE TurnOff \/ StatusArrives \/ JustLinkedOver \/ MintReplies \/ Tick \/ NewCode
  BY <1>1, EffectsIssue DEF TurnOff, StatusArrives, JustLinkedOver, MintReplies, Tick, NewCode
<1>2. CASE PanelOpens \/ PanelCloses \/ TurnOn
  BY <1>2 DEF PanelOpens, PanelCloses, TurnOn, phones
<1>3. CASE Stop
  BY <1>3 DEF Stop, Drops
<1>4. ASSUME NEW c \in Codes, Redeem(c) PROVE Links
  <2>1. /\ c = pairing.secret /\ pairing' = Verdict(TRUE) /\ minted' = minted
    BY <1>4 DEF Redeem
  <2>2. pairing.secret # None /\ pairing' = NoCode
    BY <2>1, NoneFacts DEF Verdict
  <2>3. PICK d \in Devices : Linked' = Linked \cup {d} /\ d \notin Linked
    BY <1>4, RedeemFacts
  <2>4. Cardinality(Linked') = Cardinality(Linked) + 1
    BY <2>3, FS_AddElement DEF PhoneTypes
  <2> QED
    BY <2>1, <2>2, <2>4 DEF Links
<1>5. CASE Reject
  <2>1. pairing.secret # None /\ pairing' = Verdict(FALSE) /\ UNCHANGED <<minted, linkedBy>>
    BY <1>5 DEF Reject
  <2>2. pairing' = NoCode \/ (pairing.tries + 1 < MaxTries
                              /\ pairing' = [pairing EXCEPT !.tries = @ + 1])
    BY <2>1, CodesAssumption DEF Verdict, CodeTypes
  <2> QED
    BY <2>1, <2>2 DEF Drops, Guesses
<1>6. CASE \/ \E c \in Codes : Expire(c)
           \/ \E d \in Devices : Revoke(d) \/ \E w \in Sockets : Handshake(w, d)
           \/ \E w \in Sockets : \/ Connect(w) \/ NotLinked(w) \/ HandshakeTimeout(w)
                                 \/ SocketCloses(w) \/ PhoneLeaves(w)
  BY <1>6 DEF Expire, Revoke, Handshake, Connect, NotLinked, HandshakeTimeout, SocketCloses,
              PhoneLeaves, SetSock
<1>7. CASE ServerNext
  BY <1>7 DEF ServerNext, Way, phones
<1>8. CASE UNCHANGED vars
  BY <1>8 DEF vars, phones
<1> QED
  BY <1>1, <1>2, <1>3, <1>4, <1>5, <1>6, <1>7, <1>8 DEF Next, PanelNext, PhoneNext

LEMMA PromiseInit == Init => Promise!Init
<1> SUFFICES ASSUME Init PROVE Promise!Init
  OBVIOUS
<1>1. {d \in Devices : linkedBy[d] # None} = {}
  BY DEF Init
<1>2. Cardinality({d \in Devices : linkedBy[d] # None}) = 0
  BY <1>1, FS_EmptySet
<1> QED
  BY <1>2 DEF Init, NoCode, Promise!Init

LEMMA PromiseStep == IInv /\ [Next]_vars => [Promise!Next]_(Promise!vars)
<1> SUFFICES ASSUME IInv, [Next]_vars PROVE [Promise!Next]_(Promise!vars)
  OBVIOUS
<1>1. pairing \in [secret : Codes \cup {None}, tries : 0 .. (MaxTries - 1)]
  BY DEF IInv, CodePart, CodeTypes
<1>2. CASE Issues
  <2>1. PICK c \in Codes : /\ c \notin minted /\ minted' = minted \cup {c}
                           /\ pairing' = [secret |-> c, tries |-> 0]
    BY <1>2 DEF Issues
  <2>2. Promise!Issue(c)
    BY <1>2, <2>1 DEF Issues, Promise!Issue
  <2> QED
    BY <2>2 DEF Promise!Next
<1>3. CASE Links
  <2>1. Promise!Link
    BY <1>3 DEF Links, Linked, NoCode, Promise!Link
  <2> QED
    BY <2>1 DEF Promise!Next
<1>4. CASE Guesses
  <2>1. pairing'.secret = pairing.secret /\ pairing'.tries = pairing.tries + 1
    BY <1>1, <1>4 DEF Guesses
  <2>2. Promise!Guess
    BY <1>4, <2>1 DEF Guesses, Promise!Guess
  <2> QED
    BY <2>2 DEF Promise!Next
<1>5. CASE Drops
  <2>1. Promise!Retire
    BY <1>5 DEF Drops, NoCode, Promise!Retire
  <2> QED
    BY <2>1 DEF Promise!Next
<1>6. CASE UNCHANGED <<minted, pairing, linkedBy>>
  BY <1>6 DEF Promise!vars
<1> QED
  BY <1>2, <1>3, <1>4, <1>5, <1>6, CodeSteps

(* A pairing code links one phone, is issued once, is dead once another is *)
(* made, and stands fewer than MaxTries wrong requests, whatever the panel,*)
(* the phones and the server do: PhoneAccess implements OneTimeCodes       *)
(* (newPairing, redeemPairing, stop).                                      *)
THEOREM CodesAlwaysOneTime == Spec => CodesAreOneTime
<1>1. Spec => []IInv /\ Init /\ [][Next]_vars
  BY InitInv, StepInv, PTL DEF Spec
<1> QED
  BY <1>1, PromiseInit, PromiseStep, PTL DEF CodesAreOneTime, Promise!Spec
=============================================================================
