---------------------------- MODULE MCWorkspace -----------------------------
(* A window small enough for TLC. Each scene bounds the panes ever made and *)
(* the tabs open at once, and gives the user some of the gestures.          *)
EXTENDS Workspace

Scene(boot, panes, tabs, gestures) ==
    [boot |-> boot, panes |-> panes, tabs |-> tabs, gestures |-> gestures,
     lostEnd |-> FALSE, meanwhile |-> FALSE, snippets |-> {}]

Snippet(modes) == [Scene("picker", 2, 2, {"click"}) EXCEPT !.snippets = modes]

SceneList == <<
    Scene("picker", 4, 4, {"strip", "drag"}),
    Scene("picker", 4, 4, {"strip", "menu"}),
    Scene("reopen", 3, 3, {"strip", "click"}),
    [Scene("blank", 3, 3, {"strip", "drag"}) EXCEPT !.lostEnd = TRUE],
    Scene("blank", 7, 1, {"split"}),
    Scene("blank", 5, 2, {"split", "strip"}),
    Scene("adopt", 4, 2, {"split", "click", "strip"}),
    Scene("picker", 4, 2, {"split", "menu", "click", "strip"}),
    [Scene("blank", 3, 2, {"split", "menu", "click", "strip"}) EXCEPT !.meanwhile = TRUE],
    Scene("blank", 3, 1, {"split", "click", "size"}),
    Snippet({"run"}), Snippet({"run", "hasty"}), Snippet({"run", "lookalike"}), Snippet({"run", "slow"})>>

MCScenes == Range(SceneList)
=============================================================================
