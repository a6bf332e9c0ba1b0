---------------------------- MODULE MCPhonePanes ----------------------------
(* Two panes of phones, one of the desktop, and two or three sockets.       *)
EXTENDS PhonePanes, TLC

CONSTANTS f1, f2, d1, s1, s2, s3

TwoPhonePanes == {f1, f2}
OneDesktopPane == {d1}
ThreeSockets == {s1, s2, s3}

Symmetry == Permutations(Phone) \cup Permutations(Conns)
=============================================================================
