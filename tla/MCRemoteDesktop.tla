-------------------------- MODULE MCRemoteDesktop ---------------------------
EXTENDS RemoteDesktop

Server(types, subs, ca) == [types |-> types, subs |-> subs, ca |-> ca, cert |-> "cert"]

(* A refusal, plain VNC, VeNCrypt with each kind of subtype, and what the  *)
(* viewer cannot do at all.                                                *)
Servers ==
  { Server({}, {}, FALSE), Server({2, 19}, {262}, FALSE), Server({5}, {}, FALSE),
    Server({19}, {256, 257}, FALSE), Server({19}, {258}, FALSE),
    Server({19}, {259, 260, 261}, FALSE), Server({19}, {262}, TRUE) }

Scene(vnc, patient, started, panes, runs, server) ==
  [vnc |-> vnc, patient |-> patient, started |-> started, changes |-> FALSE,
   windows |-> FALSE, cands |-> 2, server |-> server, panes |-> panes, runs |-> runs]

APane == {CHOOSE p \in Panes : TRUE}
Plain == Server({2}, {}, FALSE)
Certs == Server({19}, {259, 261}, FALSE)

(* Every server; two attempts with every interleaving of a certificate's   *)
(* prompt; three attempts, or two panes, with a server that asks nothing.  *)
MCScenes ==
  { Scene(TRUE, TRUE, TRUE, APane, 1, s) : s \in Servers }
  \cup { Scene(TRUE, pt, TRUE, APane, 2, Certs) : pt \in BOOLEAN }
  \cup { Scene(TRUE, pt, FALSE, APane, 3, Plain) : pt \in BOOLEAN }
  \cup { Scene(vnc, pt, FALSE, Panes, 2, Plain) : vnc \in BOOLEAN, pt \in BOOLEAN }
  \cup { Scene(FALSE, pt, TRUE, Panes, 2, Plain) : pt \in BOOLEAN }
  \cup { [Scene(FALSE, FALSE, st, Panes, 2, Plain) EXCEPT !.changes = TRUE] : st \in BOOLEAN }
  \cup { [Scene(FALSE, FALSE, FALSE, APane, 2, Plain) EXCEPT !.windows = TRUE] }
=============================================================================
