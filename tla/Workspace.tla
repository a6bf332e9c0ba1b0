----------------------------- MODULE Workspace ------------------------------
(***************************************************************************)
(* One window at work: its tabs (TabStore) and the snippets sent to their  *)
(* panes (Snippets), and what must hold of them.                           *)
(***************************************************************************)
EXTENDS Snippets

vars == <<tabvars, snipvars>>

Init == TabInit /\ SnippetInit

Next == (TabNext /\ UNCHANGED snipvars) \/ SnippetNext

Spec == Init /\ [][Next]_vars /\ SnippetFairness

---------------------------------------------------------------------------
PaneIds == 1..made
TabType == [id : PaneIds, layout : Seq(Seq(PaneIds)), panes : Seq(PaneIds), active : PaneIds,
            group : Groups, rowFr : Seq(1..Whole), colFr : Seq(Seq(1..Whole))]

\* Every variable has the shape its code gives it.
TypeOK ==
    /\ scene \in Scenes /\ booted \in BOOLEAN /\ made \in Nat
    /\ store.activeTabId \in 0..made
    /\ store.groupActive \in [Groups -> 0..made]
    /\ \A i \in DOMAIN store.tabs : store.tabs[i] \in TabType
    /\ killed \subseteq PaneIds /\ moved \subseteq PaneIds /\ sent \subseteq PaneIds
    /\ dragId \in [Groups -> 0..made]
    /\ job \in [Jobs -> JobType]

ShowsItsPanes(t) ==
    /\ UNION {ToSet(t.layout[r]) : r \in DOMAIN t.layout} = ToSet(t.panes)
    /\ \A r, s \in DOMAIN t.layout : \A c \in DOMAIN t.layout[r], d \in DOMAIN t.layout[s] :
          t.layout[r][c] = t.layout[s][d] => r = s /\ c = d
    /\ \A i, j \in DOMAIN t.panes : t.panes[i] = t.panes[j] => i = j
    /\ \A r \in DOMAIN t.layout : t.layout[r] # <<>>
    /\ t.active \in ToSet(t.panes)

\* The grid of a tab shows each of its panes in exactly one cell, no row is empty, and
\* the active pane is one of them: a pane out of the grid would run unseen.
GridShowsPanes == \A t \in ToSet(store.tabs) : ShowsItsPanes(t)

Holds(t, rows, cols, panes) ==
    /\ Len(t.layout) <= rows /\ Len(t.panes) <= panes
    /\ \A r \in DOMAIN t.layout : Len(t.layout[r]) <= cols

\* A tab never has more than two rows, three columns or six panes, whatever the order of
\* splits, closes and moves between groups.
GridFits == \A t \in ToSet(store.tabs) : Holds(t, MaxRows, MaxCols, MaxPanes)

\* The focused tab exists as long as any tab does, and no pane is in two tabs.
FocusIsOpen ==
    /\ IF store.tabs = <<>> THEN Focused = NoTab ELSE Focused \in Open
    /\ \A s, t \in ToSet(store.tabs) : ToSet(s.panes) \cap ToSet(t.panes) # {} => s = t

\* What the user works in is on screen: the focused tab is the one its side shows.
FocusIsShown == store.tabs # <<>> => Focused \in Visible(store)

\* A split has two sides, and each side shows a tab of its own: none is blank.
EachSideShows ==
    IsTabSplit(store.tabs) =>
        /\ \A g \in Groups : InGroup(store.tabs, g) # <<>>
        /\ ~scene.lostEnd =>
              \A g \in Groups : \E t \in ToSet(store.tabs) : t.group = g /\ t.id = store.groupActive[g]

\* A pane that left the window is either closed or handed to the window that was opened
\* for its tab, never both and never neither, if no key and no exit came under an open menu.
ClosedOrHandedOver ==
    /\ PanesOf(store.tabs) \cap (killed \cup moved) = {}
    /\ ~scene.meanwhile => /\ sent = moved
                           /\ killed \cap sent = {}
                           /\ killed \cup sent = PaneIds \ PanesOf(store.tabs)

\* There are at most three shares in a direction.
Total(fr) == fr[1] + (IF Len(fr) > 1 THEN fr[2] ELSE 0) + (IF Len(fr) > 2 THEN fr[3] ELSE 0)
Fills(fr) == Len(fr) \in 1..MaxCols /\ Total(fr) = Whole /\ \A i \in DOMAIN fr : fr[i] >= MinFr

\* The sizes of the panes of a row, and of the rows, always fill the tab, and none is
\* below the least share, though a divider may be dragged while the grid changes.
SharesFill ==
    \A t \in ToSet(store.tabs) :
        Fills(RowShares(t)) /\ \A r \in DOMAIN t.layout : Fills(ColShares(t)[r])

\* While the tabs are split no pane is added beyond two by two.
SplitKeepsBudget ==
    [][\A s \in ToSet(store.tabs), t \in ToSet(store.tabs') :
          s.id = t.id /\ IsTabSplit(store.tabs) /\ Len(t.panes) > Len(s.panes)
              => Len(t.panes) <= 4 /\ (Fits2x2(s) => Fits2x2(t))]_vars

\* The lines of a snippet run in their order and each at most once.
LinesInOrder ==
    \A p \in Terminals : \A m, n \in DOMAIN shell[p].ran :
        m < n /\ shell[p].ran[m][1] = shell[p].ran[n][1] => shell[p].ran[m][2] < shell[p].ran[n][2]

Calm == scene.snippets = {"run"}

\* With prompts that are recognised, one snippet at a time and no command beyond ten
\* minutes, nothing is typed ahead of a prompt, so no line is lost.
NothingTypedAhead == Calm => \A p \in Terminals : shell[p].ahead = <<>>

\* A snippet whose first line was sent ends, even if its prompt is never seen or its pane goes.
SnippetEnds == \A j \in Jobs : job[j].state = "waiting" ~> job[j].state = "done"

\* The grid, the list of panes and the sizes of a tab describe one layout, within the budget.
LayoutIsSound == TypeOK /\ GridShowsPanes /\ GridFits /\ SharesFill

\* The focus and both sides of a split show tabs that are open.
SidesShowTabs == FocusIsOpen /\ FocusIsShown /\ EachSideShows

\* The lines of a snippet are sent in order, none ahead of its prompt, and come to an end.
SnippetRuns == []LinesInOrder /\ []NothingTypedAhead /\ SnippetEnds

\* No pane is lost and none is too many: it goes by being closed or handed over, and while
\* the tabs are split none comes beyond two by two.
PanesAccounted == []ClosedOrHandedOver /\ SplitKeepsBudget
=============================================================================
