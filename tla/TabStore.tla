------------------------------ MODULE TabStore ------------------------------
(***************************************************************************)
(* The tabs of one window: src/store/useTabStore.ts with the views that    *)
(* drive it (TabBar, TerminalArea, SplitLayout, the shortcuts, the command *)
(* palette and the window's start-up in App.tsx).                          *)
(*                                                                         *)
(* The store is the record the zustand store holds: the strip of tabs, the *)
(* focused tab and the tab each side of a split shows.  A tab is a grid of *)
(* panes (rows of columns) with the panes in the order they were opened    *)
(* and the active one.  Panes are numbered in the order they are made, and *)
(* a tab is named by the pane it was opened with (the code draws two uuids)*)
(* so that a fresh name is the next number.                                *)
(*                                                                         *)
(* `scene` never changes: it says how the window starts, which gestures    *)
(* the user has and how many panes are ever made.                          *)
(***************************************************************************)
EXTENDS Integers, Sequences, FiniteSets, SequencesExt

CONSTANT Scenes    \* the situations that are explored, records of TabSceneType

VARIABLES
    scene,      \* the situation of this behaviour
    booted,     \* the start-up effect of App.tsx has run to its end
    store,      \* [tabs, activeTabId, groupActive]
    made,       \* how many panes were ever made (or adopted)
    killed,     \* panes terminal.kill was called for
    moved,      \* panes whose unmount must not kill them (detachedPanes)
    sent,       \* panes of the tabs given to window.openTab
    menu,       \* the open tab menu with the tab as it was when it opened, or NoMenu
    dragId,     \* per strip: the ref that remembers the tab being dragged
    divider     \* the pane divider the mouse holds, or NoDivider

tabvars == <<scene, booted, store, made, killed, moved, sent, menu, dragId, divider>>

NoTab == 0
NoMenu == [strip |-> -1]
NoDivider == [held |-> FALSE]
Groups == {0, 1}
TabSceneType == [boot : {"blank", "reopen", "picker", "adopt"},
              panes : Nat, tabs : Nat,    \* bounds: panes ever made, tabs open at once
              gestures : SUBSET {"strip", "split", "click", "drag", "menu", "size"},
              lostEnd : BOOLEAN,          \* a dragend of an unmounted tab may be lost
              meanwhile : BOOLEAN,        \* keys and exits may come under an open menu
              snippets : SUBSET {"run", "hasty", "lookalike", "slow"}]    \* see Snippets

ASSUME ScenesAssumption == Scenes \subseteq TabSceneType

MaxPanes == 6
MaxRows == 2
MaxCols == 3
Whole == 60          \* the width or height of a tab, so that halves and thirds are whole
MinFr == 9           \* 0.15 of it

---------------------------------------------------------------------------
(* Reading the store.                                                      *)

\* seq.filter: the elements of a sequence that are in T, in their order.
Keep(seq, T) ==
    LET kept[i \in 0..Len(seq)] ==
            IF i = 0 THEN <<>>
            ELSE IF seq[i] \in T THEN Append(kept[i - 1], seq[i]) ELSE kept[i - 1]
    IN  kept[Len(seq)]

TabIds(tabs) == {t.id : t \in ToSet(tabs)}
PosOf(tabs, id) == SelectInSeq(tabs, LAMBDA t : t.id = id)     \* 0 when absent
TabOf(tabs, id) == tabs[PosOf(tabs, id)]
GroupOf(tabs, id) == TabOf(tabs, id).group
InGroup(tabs, g) == Keep(tabs, {t \in ToSet(tabs) : t.group = g})
PanesOf(tabs) == UNION {ToSet(t.panes) : t \in ToSet(tabs)}

IsTabSplit(tabs) == \E t \in ToSet(tabs) : t.group = 1
Fits2x2(tab) == Len(tab.layout) <= 2 /\ \A r \in DOMAIN tab.layout : Len(tab.layout[r]) <= 2
\* Mutant: the split forgets its narrower budget.
MaxColsForAnySplit(tabs) == MaxCols

MaxColsFor(tabs) == IF IsTabSplit(tabs) THEN 2 ELSE MaxCols
MaxPanesFor(tabs) == IF IsTabSplit(tabs) THEN 4 ELSE MaxPanes

\* The strip that lists a tab, and the tabs on screen.
StripOf(s, id) == IF IsTabSplit(s.tabs) THEN GroupOf(s.tabs, id) ELSE 0
Visible(s) == IF IsTabSplit(s.tabs)
              THEN {t \in TabIds(s.tabs) : t = s.groupActive[GroupOf(s.tabs, t)]}
              ELSE TabIds(s.tabs) \cap {s.activeTabId}

---------------------------------------------------------------------------
(* The operations of the store: each gives the store it leaves.            *)

CollapseIfEmpty(tabs) ==
    IF \A g \in Groups : InGroup(tabs, g) # <<>>
    THEN tabs
    ELSE [i \in DOMAIN tabs |-> [tabs[i] EXCEPT !.group = 0]]

\* The tab of `group` to show where `wanted` was: itself, else its nearest survivor
\* to the left in the strip as it was, else the first of the group.
Survivor(before, group, wanted) ==
    LET left == {i \in 1..(PosOf(before, wanted) - 1) : before[i].id \in TabIds(group)}
    IN  CASE group = <<>> -> NoTab
          [] group # <<>> /\ wanted \in TabIds(group) -> wanted
          [] group # <<>> /\ wanted \notin TabIds(group) /\ left # {} ->
                 before[CHOOSE i \in left : \A j \in left : j <= i].id
          [] OTHER -> group[1].id

AfterRemoval(prev, remaining) ==
    LET tabs == CollapseIfEmpty(remaining)
        pick(g, wanted) == Survivor(prev.tabs, InGroup(tabs, g), wanted)
        shown == [g \in Groups |-> pick(g, prev.groupActive[g])]
        side == IF prev.activeTabId \in TabIds(prev.tabs)
                THEN GroupOf(prev.tabs, prev.activeTabId) ELSE 0
        next == pick(side, prev.activeTabId)
        firstOf(a, b) == IF a # NoTab THEN a ELSE b
    IN  [tabs |-> tabs,
         activeTabId |-> IF prev.activeTabId \in TabIds(tabs) THEN prev.activeTabId
                         ELSE firstOf(next, firstOf(shown[0], shown[1])),
         groupActive |-> shown]

Without(s, ids) == AfterRemoval(s, Keep(s.tabs, {t \in ToSet(s.tabs) : t.id \notin ids}))

SetActiveTab(s, id) ==
    IF id \notin TabIds(s.tabs) THEN s
    ELSE [s EXCEPT !.activeTabId = id, !.groupActive[GroupOf(s.tabs, id)] = id]

FocusedGroup(s) ==
    IF s.activeTabId \in TabIds(s.tabs) THEN GroupOf(s.tabs, s.activeTabId) ELSE 0

NewTab(s, pane, group, after) ==
    LET tab == [id |-> pane, layout |-> << <<pane>> >>, panes |-> <<pane>>, active |-> pane,
                group |-> group, rowFr |-> <<>>, colFr |-> <<>>]
        at == PosOf(s.tabs, after)
        tabs == IF at = 0 THEN Append(s.tabs, tab) ELSE InsertAt(s.tabs, at + 1, tab)
    IN  [tabs |-> tabs, activeTabId |-> pane, groupActive |-> [s.groupActive EXCEPT ![group] = pane]]

AdoptTab(s, tab) ==
    [tabs |-> Append(s.tabs, [tab EXCEPT !.group = 0]), activeTabId |-> tab.id,
     groupActive |-> [s.groupActive EXCEPT ![0] = tab.id]]

ReorderTab(s, from, to) ==
    LET i == PosOf(s.tabs, from)
        j == PosOf(s.tabs, to)
        g == GroupOf(s.tabs, to)
        tab == [s.tabs[i] EXCEPT !.group = g]
        next == CollapseIfEmpty(InsertAt(RemoveAt(s.tabs, i), j, tab))
    IN  IF i = 0 \/ j = 0 THEN s
        ELSE [tabs |-> next, activeTabId |-> from,
              groupActive |-> IF IsTabSplit(next) THEN [s.groupActive EXCEPT ![g] = from]
                              ELSE [h \in Groups |-> IF h = 0 THEN from ELSE NoTab]]

\* moveTabToGroup; a refusal (a toast) leaves the store as it is.
MayMove(s, id, to) ==
    /\ id \in TabIds(s.tabs)
    /\ GroupOf(s.tabs, id) # to
    /\ to = 1 /\ ~IsTabSplit(s.tabs) => Len(s.tabs) >= 2 /\ Fits2x2(TabOf(s.tabs, id))

\* Mutant: the side a tab leaves goes on naming it.
MoveTabToGroupLeavesGap(s, id, to) ==
    LET tabs == CollapseIfEmpty([s.tabs EXCEPT ![PosOf(s.tabs, id)].group = to])
    IN  IF ~MayMove(s, id, to) THEN s
        ELSE [tabs |-> tabs, activeTabId |-> id,
              groupActive |-> IF IsTabSplit(tabs)
                              THEN [s.groupActive EXCEPT ![GroupOf(tabs, id)] = id]
                              ELSE [g \in Groups |-> IF g = 0 THEN id ELSE NoTab]]

MoveTabToGroup(s, id, to) ==
    LET from == GroupOf(s.tabs, id)
        i == PosOf(s.tabs, id)
        tabs == CollapseIfEmpty([s.tabs EXCEPT ![i].group = to])
        landed == GroupOf(tabs, id)
        left == Survivor(s.tabs, InGroup(tabs, from),
                         IF s.groupActive[from] \in TabIds(InGroup(tabs, from))
                         THEN s.groupActive[from] ELSE id)
    IN  IF ~MayMove(s, id, to) THEN s
        ELSE [tabs |-> tabs, activeTabId |-> id,
              groupActive |-> IF IsTabSplit(tabs)
                              THEN [s.groupActive EXCEPT ![from] = left, ![landed] = id]
                              ELSE [g \in Groups |-> IF g = 0 THEN id ELSE NoTab]]

UnsplitTabs(s) ==
    [s EXCEPT !.tabs = [i \in DOMAIN s.tabs |-> [s.tabs[i] EXCEPT !.group = 0]],
              !.groupActive = [g \in Groups |->
                   IF g = 1 THEN NoTab
                   ELSE IF s.activeTabId # NoTab THEN s.activeTabId ELSE s.groupActive[0]]]

\* The tab after (step 1) or before (step -1) the focused one, around the strip.
Neighbour(s, step) ==
    LET i == PosOf(s.tabs, s.activeTabId) - 1
        n == Len(s.tabs)
    IN  s.tabs[((i + step + n) % n) + 1].id

---------------------------------------------------------------------------
(* The grid of a tab.                                                      *)

RowOf(layout, pane) == SelectInSeq(layout, LAMBDA row : pane \in ToSet(row))

InsertPane(layout, beside, pane, dir, cols) ==
    LET r == RowOf(layout, beside)
        full == IF dir = "h" THEN Len(layout[r]) >= cols ELSE Len(layout) >= MaxRows
        c == SelectInSeq(layout[r], LAMBDA p : p = beside)
    IN  IF r = 0 THEN Append(layout, <<pane>>)
        ELSE IF full THEN layout
        ELSE IF dir = "h" THEN [layout EXCEPT ![r] = InsertAt(@, c + 1, pane)]
        ELSE InsertAt(layout, r + 1, <<pane>>)

Except(seq, x) == Keep(seq, ToSet(seq) \ {x})
RemovePane(layout, pane) == Except([r \in DOMAIN layout |-> Except(layout[r], pane)], <<>>)

SplitTab(s, id, pane, dir) ==
    LET t == TabOf(s.tabs, id)
        layout == InsertPane(t.layout, t.active, pane, dir, MaxColsFor(s.tabs))
    IN  IF Len(t.panes) >= MaxPanesFor(s.tabs) \/ layout = t.layout THEN s
        ELSE [s EXCEPT !.tabs[PosOf(s.tabs, id)] =
                 [t EXCEPT !.panes = Append(@, pane), !.active = pane, !.layout = layout]]

WithoutPane(t, pane) ==
    LET rest == Except(t.panes, pane)
    IN  [t EXCEPT !.panes = rest, !.layout = RemovePane(@, pane),
                  !.active = IF @ = pane THEN rest[1] ELSE @]

ClosePaneOf(s, id, pane) ==
    LET i == PosOf(s.tabs, id)
    IN  IF Len(s.tabs[i].panes) = 1 THEN Without(s, {id})
        ELSE [s EXCEPT !.tabs[i] = WithoutPane(@, pane)]

---------------------------------------------------------------------------
(* What a change of the store does to the window.  A pane that leaves the  *)
(* tabs unmounts, and its unmount kills its backend unless the pane is in  *)
(* detachedPanes; the right strip, its drag ref and its menu exist only in *)
(* a split.                                                                *)

Become(s) ==
    /\ store' = s
    /\ killed' = killed \cup ((PanesOf(store.tabs) \ PanesOf(s.tabs)) \ moved')
    /\ dragId' = IF IsTabSplit(s.tabs) THEN dragId ELSE [dragId EXCEPT ![1] = NoTab]
    /\ menu' = IF menu.strip = 1 /\ ~IsTabSplit(s.tabs) THEN NoMenu ELSE menu

Make(n) == made' = made + n /\ UNCHANGED <<scene, moved, sent, divider>>
Here == UNCHANGED <<booted>>

Has(gesture) == gesture \in scene.gestures
Room == made < scene.panes
MoreTabs == Room /\ Len(store.tabs) < scene.tabs
Focused == store.activeTabId
Open == TabIds(store.tabs)
Mouse == menu = NoMenu /\ ~divider.held     \* a mouse press elsewhere closes the menu first
Keys == menu = NoMenu \/ scene.meanwhile     \* a key or a shell's end does not

TabInit ==
    /\ scene \in Scenes
    /\ booted = FALSE
    /\ store = [tabs |-> <<>>, activeTabId |-> NoTab, groupActive |-> [g \in Groups |-> NoTab]]
    /\ made = 0
    /\ killed = {} /\ moved = {} /\ sent = {}
    /\ menu = NoMenu
    /\ dragId = [g \in Groups |-> NoTab]
    /\ divider = NoDivider

---------------------------------------------------------------------------
(* Start-up.  The effect awaits the settings, the sessions and the torn-off*)
(* tab, so the user's first keys may come before it ends.                  *)

OpenOne(s, pane) == NewTab(s, pane, FocusedGroup(s), NoTab)

\* The tab another window tore off: two panes side by side.
TornOff == [id |-> made + 1, layout |-> << <<made + 1, made + 2>> >>,
            panes |-> <<made + 1, made + 2>>, active |-> made + 1, group |-> 0,
            rowFr |-> <<>>, colFr |-> <<>>]

Adopt == scene.boot = "adopt" /\ Make(2) /\ Become(AdoptTab(store, TornOff))

OpenBlank ==
    IF store.tabs = <<>> THEN Make(1) /\ Become(OpenOne(store, made + 1))
    ELSE Make(0) /\ Become(store)

\* Reopen the tabs of the snapshot: those whose session is gone are skipped.
Reopen ==
    /\ scene.boot = "reopen"
    /\ \/ OpenBlank
       \/ Make(1) /\ Become(OpenOne(store, made + 1))
       \/ Make(2) /\ Become(OpenOne(OpenOne(store, made + 1), made + 2))

StartUp ==
    /\ ~booted
    /\ booted' = TRUE
    /\ \/ Adopt
       \/ Reopen
       \/ scene.boot = "blank" /\ OpenBlank
       \/ scene.boot = "picker" /\ Make(0) /\ Become(store)

---------------------------------------------------------------------------
(* Opening, closing and choosing tabs: the strip and the shortcuts.        *)

CloseAll(ids) == Make(0) /\ Become(Without(store, ids))

Choose(id) == Make(0) /\ Become(SetActiveTab(store, id))

Split(id, dir) ==
    /\ Has("split") /\ Room
    /\ LET s == SplitTab(store, id, made + 1, dir)
       IN  (IF s = store THEN Make(0) ELSE Make(1)) /\ Become(s)

ClosePane(id, pane) == Make(0) /\ Become(ClosePaneOf(store, id, pane))

\* The "+" of a strip focuses what that strip shows, then opens a tab in its group.
HandleNewTab(g) ==
    /\ Here /\ Mouse /\ MoreTabs
    /\ g = 1 => IsTabSplit(store.tabs)
    /\ LET shown == IF IsTabSplit(store.tabs) THEN store.groupActive[g] ELSE Focused
       IN  Make(1) /\ Become(NewTab(SetActiveTab(store, shown), made + 1, g, NoTab))

\* dispatch() of useKeyboard and the terminal-scoped action "disconnect".
Dispatch ==
    /\ Here /\ Keys
    /\ \/ MoreTabs /\ Make(1) /\ Become(OpenOne(store, made + 1))
       \/ Focused # NoTab /\ CloseAll({Focused})
       \/ /\ store.tabs # <<>>
          /\ \E step \in {-1, 1} : Choose(Neighbour(store, step))
       \/ \E n \in 1..Len(store.tabs) : Choose(store.tabs[n].id)
       \/ Focused # NoTab /\ \E dir \in {"h", "v"} : Split(Focused, dir)
       \/ Focused \in Open /\ ClosePane(Focused, TabOf(store.tabs, Focused).active)

\* The commands of the palette that concern the tabs' groups.
Palette ==
    /\ Here /\ Keys /\ Has("strip")
    /\ \/ Focused # NoTab /\ Make(0) /\ Become(MoveTabToGroup(store, Focused, 1))
       \/ Make(0) /\ Become(UnsplitTabs(store))

\* A press on a tab of the strip, or its middle button or cross.
PressTab(id) == Here /\ Mouse /\ (Choose(id) \/ CloseAll({id}))

\* A press in a pane on screen focuses its tab, then the pane; its toolbar splits or closes it.
PressPane(id) ==
    /\ Here /\ Mouse /\ Has("click")
    /\ id \in Visible(store)
    /\ \E pane \in ToSet(TabOf(store.tabs, id).panes) :
          LET s == SetActiveTab(store, id)
          IN  \/ Make(0) /\ Become([s EXCEPT !.tabs[PosOf(s.tabs, id)].active = pane])
              \/ Make(0) /\ Become(ClosePaneOf(s, id, pane))

---------------------------------------------------------------------------
(* Tear-off, and the menu of a tab.  The menu keeps the tab it was opened  *)
(* on as it was then, and a key does not close it.                         *)

OpenMenu(id) ==
    /\ Here /\ Mouse /\ Has("menu")
    /\ LET s == SetActiveTab(store, id)
       IN  /\ store' = s
           /\ menu' = [strip |-> StripOf(s, id), tab |-> TabOf(s.tabs, id), lone |-> Len(s.tabs) < 2]
    /\ UNCHANGED <<scene, made, killed, moved, sent, dragId, divider>>

\* The entries of the open menu.  Each acts by the id of the tab it holds, and some on
\* the tab's own fields, and closes the menu.
Entry(s) ==
    /\ store' = s
    /\ killed' = killed \cup ((PanesOf(store.tabs) \ PanesOf(s.tabs)) \ moved')
    /\ dragId' = IF IsTabSplit(s.tabs) THEN dragId ELSE [dragId EXCEPT ![1] = NoTab]
    /\ menu' = NoMenu
EntryOnly(s) == Make(0) /\ Entry(s)

\* closeTabsToRight: slice(idx + 1), where idx is -1 for a tab that is gone.
CloseTabsToRight(s, id) ==
    AfterRemoval(s, SubSeq(s.tabs, 1, PosOf(s.tabs, id)))

MenuSplit(tab) ==
    /\ Has("split") /\ Room
    /\ \E dir \in {"h", "v"} :
          LET s == IF tab.id \in Open THEN SplitTab(store, tab.id, made + 1, dir) ELSE store
          IN  (IF s = store THEN Make(0) ELSE Make(1)) /\ Entry(s)

MenuGroup(tab) ==
    /\ Has("strip")
    /\ \/ LET s == IF tab.id \in Open THEN MoveTabToGroup(store, tab.id, 1 - tab.group) ELSE store
          IN  EntryOnly(s)
       \/ EntryOnly(UnsplitTabs(store))

\* tearOffTab: the payload is the tab the menu holds, the detach goes by its id.
TearOff(tab, commit(_)) ==
    /\ UNCHANGED <<scene, made, divider>>
    /\ IF Len(store.tabs) < 2 THEN UNCHANGED <<moved, sent>> /\ commit(store)
       ELSE /\ sent' = sent \cup ToSet(tab.panes)
            /\ moved' = moved \cup UNION {ToSet(t.panes) : t \in {u \in ToSet(store.tabs) : u.id = tab.id}}
            /\ commit(IF tab.id \in Open THEN Without(store, {tab.id}) ELSE store)

PickEntry ==
    /\ Here /\ menu # NoMenu
    /\ LET tab == menu.tab
       IN  \/ MoreTabs /\ Make(1) /\ Entry(NewTab(store, made + 1, tab.group, tab.id))
           \/ MenuSplit(tab)
           \/ MenuGroup(tab)
           \/ ~menu.lone /\ TearOff(tab, Entry)
           \/ EntryOnly(IF tab.id \in Open THEN Without(store, {tab.id}) ELSE store)
           \/ EntryOnly(Without(store, Open \ {tab.id}))
           \/ EntryOnly(CloseTabsToRight(store, tab.id))
           \/ EntryOnly(store)                     \* dismissed

---------------------------------------------------------------------------
(* Dragging a tab.  The press focuses it; each strip has a ref of its own, *)
(* so a drop on a tab of the other strip only joins that strip's group.  A *)
(* dragend reaches the row only while the row is mounted in its strip.     *)

\* On tab t: its own handler, then that of the strip around it.
DropOnTab(s, drag, id, t) ==
    LET h == StripOf(s, t)
        ordered == IF drag[h] \in {NoTab, t} THEN s ELSE ReorderTab(s, drag[h], t)
    IN  MoveTabToGroup(ordered, id, h)

\* On the left or the right edge of the panes; the middle does nothing.
DropInArea(s, id, zone) == IF zone = -1 THEN s ELSE MoveTabToGroup(s, id, zone)

DragTab(id) ==
    /\ Here /\ Mouse /\ Has("drag")
    /\ Make(0) /\ UNCHANGED menu
    /\ LET from == SetActiveTab(store, id)
           strip == StripOf(from, id)
           drag == [dragId EXCEPT ![strip] = id]
       IN  \E s \in {DropOnTab(from, drag, id, t) : t \in TabIds(from.tabs)}
                   \cup {DropInArea(from, id, zone) : zone \in {-1, 0, 1}} :
              /\ store' = s
              /\ UNCHANGED killed
              /\ \E ended \in IF scene.lostEnd /\ StripOf(s, id) # strip THEN BOOLEAN ELSE {TRUE} :
                    dragId' = [g \in Groups |->
                        IF (g = strip /\ ended) \/ (g = 1 /\ ~IsTabSplit(s.tabs)) THEN NoTab
                        ELSE drag[g]]

DragOut(id) ==
    /\ Here /\ Mouse /\ Has("drag")
    /\ TearOff(TabOf(store.tabs, id), Become)

---------------------------------------------------------------------------
(* A shell that ends cleanly closes its pane, shown or not.                *)

ShellExits ==
    /\ Here /\ Keys /\ Has("click")
    /\ \E id \in Open : \E pane \in ToSet(TabOf(store.tabs, id).panes) : ClosePane(id, pane)

---------------------------------------------------------------------------
(* Pane sizes: shares of the tab, equal until a divider is dragged and     *)
(* whenever the stored ones have another length.                           *)

Shares(fr, n) == IF Len(fr) = n THEN fr ELSE [i \in 1..n |-> Whole \div n]
RowShares(t) == Shares(t.rowFr, Len(t.layout))
ColShares(t) == [r \in DOMAIN t.layout |->
                    Shares(IF r \in DOMAIN t.colFr THEN t.colFr[r] ELSE <<>>, Len(t.layout[r]))]

Clamp(low, high, x) == IF x < low THEN low ELSE IF x > high THEN high ELSE x
Pulls == {-Whole, Whole}           \* how far the mouse goes: past either end

\* The mouse takes the divider before share i; the shares are those of that moment.
GrabDivider ==
    /\ Here /\ Mouse /\ Has("size")
    /\ \E id \in Visible(store) :
          LET t == TabOf(store.tabs, id)
              lines == {<<0, i>> : i \in 2..Len(t.layout)}
                       \cup UNION {{<<r, i>> : i \in 2..Len(t.layout[r])} : r \in DOMAIN t.layout}
          IN  \E at \in lines :
                 divider' = [held |-> TRUE, tab |-> id, row |-> at[1], before |-> at[2],
                             rows |-> RowShares(t), cols |-> ColShares(t)]
    /\ UNCHANGED <<scene, store, made, killed, moved, sent, menu, dragId>>

\* Mutant: the neighbour may be dragged to nothing.
DraggedOverNeighbour(fr, i, pull) ==
    LET total == fr[i - 1] + fr[i]
        left == Clamp(MinFr, total, fr[i - 1] + pull)
    IN  [fr EXCEPT ![i - 1] = left, ![i] = total - left]

Dragged(fr, i, pull) ==
    LET total == fr[i - 1] + fr[i]
        left == Clamp(MinFr, total - MinFr, fr[i - 1] + pull)
    IN  [fr EXCEPT ![i - 1] = left, ![i] = total - left]

\* Every move writes the captured shares with the two neighbours changed, by tab id.
MoveDivider ==
    /\ Here /\ divider.held
    /\ \E pull \in Pulls :
          store' = [store EXCEPT !.tabs = [k \in DOMAIN store.tabs |->
              IF store.tabs[k].id # divider.tab THEN store.tabs[k]
              ELSE IF divider.row = 0
              THEN [store.tabs[k] EXCEPT !.rowFr = Dragged(divider.rows, divider.before, pull)]
              ELSE [store.tabs[k] EXCEPT !.colFr =
                       [divider.cols EXCEPT ![divider.row] = Dragged(@, divider.before, pull)]]]]
    /\ UNCHANGED <<scene, made, killed, moved, sent, menu, dragId, divider>>

DropDivider ==
    /\ Here /\ divider.held /\ divider' = NoDivider
    /\ UNCHANGED <<scene, store, made, killed, moved, sent, menu, dragId>>

---------------------------------------------------------------------------
TabNext ==
    \/ StartUp
    \/ Dispatch \/ Palette \/ PickEntry
    \/ \E g \in Groups : HandleNewTab(g)
    \/ \E id \in Open : \/ PressTab(id) \/ PressPane(id) \/ OpenMenu(id)
                        \/ DragTab(id) \/ DragOut(id)
    \/ ShellExits
    \/ GrabDivider \/ MoveDivider \/ DropDivider
=============================================================================
