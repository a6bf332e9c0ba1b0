---------------------------- MODULE MCPaneClient ----------------------------
(* Panes of different kinds and two windows. *)
EXTENDS PaneClient, TLC

CONSTANTS p1, p2, w1, w2, b1, b2, b3

TwoPanes == {p1, p2}
TwoWindows == {w1, w2}
TwoBackends == {b1, b2}
ThreeBackends == {b1, b2, b3}
OneTelnet == {p1}
OneLocal == {p2}
NoPane == {}

(* Backends are interchangeable; panes differ in kind, windows in ClientInit.    *)
BackendSymmetry == Permutations(Backends)
=============================================================================
