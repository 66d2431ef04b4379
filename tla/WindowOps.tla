------------------------------ MODULE WindowOps -------------------------------
(***************************************************************************)
(* The window session of the desktop shell: packages/ui/src/os/            *)
(* window-ops.ts, window-store.ts, the placement part of persistence.ts    *)
(* and the tile trees of packages/ui/src/lib/tile-tree.ts.  As in the      *)
(* code, an operation is a function from a session to a session, and the   *)
(* handlers of OsShell.tsx compose several of them.                        *)
(*                                                                         *)
(* A tile tree is the sequence of its panes from left to right, the empty  *)
(* sequence standing for a null tree: split directions and sizes decide no *)
(* placement.  A pane is named by its position.  Titles, contexts, app     *)
(* states and float bounds are left out; where a window floats is its      *)
(* position in the stack.                                                  *)
(***************************************************************************)
EXTENDS Naturals, Sequences, SequencesExt

CONSTANTS
    Windows,    \* window ids
    Terminals,  \* those whose app is "terminals"; the others may be Agent Hubs
    Desktops,   \* desktop ids
    First,      \* the desktop of the default session
    None,       \* null, undefined
    Template,   \* panes of the project desktop: a sequence of sequences of windows
    Careless    \* which of "dock", "front", "hub": calls for a minimized window

ASSUME ConstantsOK ==
    /\ Terminals \subseteq Windows
    /\ First \in Desktops
    /\ None \notin Windows
    /\ Template \in Seq(Seq(Windows))
    /\ Careless \subseteq {"dock", "front", "hub"}

VARIABLES
    session,  \* OsSessionV1: [active, order, desks, wins]
    corrupt   \* localStorage holds a session that does not validate; autosave is suspended

vars == <<session, corrupt>>

-----------------------------------------------------------------------------
(* Tile trees *)

Pane(items, active) == [items |-> items, active |-> active]

NewPane(w) == Pane(<<w>>, w)

\* normalizeActiveItem
NormalizeActive(items, active) ==
    IF Contains(items, active) THEN active
    ELSE IF items = <<>> THEN None ELSE Head(items)

\* Position of the first pane that holds w, 0 if none does.
PaneContaining(panes, w) == SelectInSeq(panes, LAMBDA p : Contains(p.items, w))

InsertItem(panes, i, w, at) ==
    LET others == Remove(panes[i].items, w)
        place  == IF at > Len(others) THEN Len(others) + 1 ELSE at
    IN  [panes EXCEPT ![i] = Pane(InsertAt(others, place, w), w)]

AppendItem(panes, i, w) == InsertItem(panes, i, w, Len(panes[i].items) + 1)

RemoveItem(panes, i, w) ==
    LET items == Remove(panes[i].items, w)
    IN  [panes EXCEPT ![i] = Pane(items, NormalizeActive(items, panes[i].active))]

SplitPane(panes, i, edge, w) ==
    InsertAt(panes, IF edge \in {"left", "top"} THEN i ELSE i + 1, NewPane(w))

\* dockItemIntoTileTree.  target is [kind, pane] with the index or the edge of
\* its kind; source is a position or 0.
DockItem(panes, w, target, source) ==
    LET from     == IF source # 0 THEN source ELSE PaneContaining(panes, w)
        to       == target.pane
        alone    == from # 0 /\ Len(panes[from].items) = 1
        collapse == alone /\ from # to /\ Len(panes) > 1
        left     == IF from = 0 THEN panes
                    ELSE IF collapse THEN RemoveAt(panes, from)
                    ELSE RemoveItem(panes, from, w)
        at       == IF collapse /\ from < to THEN to - 1 ELSE to
    IN  CASE target.kind = "pane-edge" /\ from = to /\ alone -> panes
          [] target.kind = "pane-edge" /\ ~(from = to /\ alone) ->
                 SplitPane(left, at, target.edge, w)
          [] target.kind = "pane-center" /\ from = to -> [panes EXCEPT ![to].active = w]
          [] target.kind = "pane-center" /\ from # to -> AppendItem(left, at, w)
          [] target.kind = "tab-index" -> InsertItem(left, at, w, target.index)

RemoveFromTreeWithPane(panes, w) ==
    LET i == PaneContaining(panes, w)
    IN  IF i = 0 THEN panes ELSE RemoveAt(panes, i)

\* removeWindowFromDesktopTree
RemoveFromTree(panes, w) ==
    LET i == PaneContaining(panes, w)
    IN  CASE i = 0 -> panes
          [] i # 0 /\ Len(panes[i].items) > 1 -> RemoveItem(panes, i, w)
          [] i # 0 /\ Len(panes[i].items) <= 1 -> RemoveAt(panes, i)

\* A window that becomes tiled joins the first pane of the tree.
Tiled(panes, w) ==
    IF panes = <<>> THEN <<NewPane(w)>> ELSE AppendItem(panes, 1, w)

-----------------------------------------------------------------------------
(* Sessions *)

Desk(panes, floats, focus) == [panes |-> panes, floats |-> floats, focus |-> focus]

EmptyDesk == Desk(<<>>, <<>>, None)

\* A missing record reads as not minimized (allWindows[id]?.minimized).
IsMinimized(wins, w) == wins[w] # None /\ wins[w].minimized

OnTop(floats, w) == Append(Remove(floats, w), w)

\* createDefaultOsSession
DefaultSession ==
    [active |-> First, order |-> <<First>>,
     desks  |-> [d \in Desktops |-> EmptyDesk],
     wins   |-> [w \in Windows |-> None]]

\* removeWindowFromDesktopTree and the filter of the floats.
Unplaced(desk, w, focus) ==
    Desk(RemoveFromTree(desk.panes, w), Remove(desk.floats, w), focus)

UnplacedFloat(desk, w, focus) ==
    Desk(desk.panes, Remove(desk.floats, w), focus)

\* The placement of a window by its mode, with the focus.
Placed(desk, w, mode) ==
    IF mode = "float" THEN Desk(desk.panes, OnTop(desk.floats, w), w)
    ELSE Desk(Tiled(desk.panes, w), desk.floats, w)

PickNextFocusHasty(desk, w, wins) ==
    IF desk.focus # w THEN desk.focus
    ELSE IF desk.floats # <<>> THEN Last(desk.floats)
    ELSE IF desk.panes # <<>> THEN desk.panes[1].active ELSE None

PickNextFocus(desk, w, wins) ==
    LET live(x) == x # w /\ ~IsMinimized(wins, x)
        top     == SelectLastInSeq(desk.floats, live)
        pane    == SelectInSeq(desk.panes, LAMBDA p : \E x \in Range(p.items) : live(x))
        items   == desk.panes[pane].items
    IN  CASE desk.focus # w -> desk.focus
          [] desk.focus = w /\ top # 0 -> desk.floats[top]
          [] desk.focus = w /\ top = 0 /\ pane # 0 -> items[SelectInSeq(items, live)]
          [] desk.focus = w /\ top = 0 /\ pane = 0 -> None

Update(s, d, desk) == [s EXCEPT !.desks[d] = desk]

-----------------------------------------------------------------------------
(* Operations: sessions to sessions *)

OpenWindowIn(s, w, mode, d) ==
    Update([s EXCEPT !.wins[w] = [desktop |-> d, mode |-> mode, maximized |-> FALSE,
                                  minimized |-> FALSE, restore |-> None]],
           d, Placed(s.desks[d], w, mode))

CloseWindowIn(s, w) ==
    LET d     == s.wins[w].desktop
        after == [s EXCEPT !.wins[w] = None]
    IN  Update(after, d, Unplaced(s.desks[d], w, PickNextFocus(s.desks[d], w, after.wins)))

FocusWindowIn(s, w) ==
    LET d    == s.wins[w].desktop
        desk == s.desks[d]
        i    == PaneContaining(desk.panes, w)
    IN  Update(s, d, Desk(IF i = 0 THEN desk.panes ELSE [desk.panes EXCEPT ![i].active = w],
                          IF Contains(desk.floats, w) THEN OnTop(desk.floats, w) ELSE desk.floats,
                          w))

SwitchDesktopIn(s, d) == IF Contains(s.order, d) THEN [s EXCEPT !.active = d] ELSE s

MoveWindowToDesktopIn(s, w, d) ==
    LET win   == s.wins[w]
        old   == s.desks[win.desktop]
        gone  == Update(s, win.desktop,
                        Unplaced(old, w, IF old.focus = w THEN None ELSE old.focus))
        moved == [gone EXCEPT !.wins[w].desktop = d,
                              !.wins[w].restore = IF @ = None THEN None
                                                  ELSE [@ EXCEPT !.desktop = d]]
    IN  IF win.desktop = d THEN s
        ELSE IF win.minimized THEN moved
        ELSE Update(moved, d,
                    IF win.mode = "float"
                    THEN Desk(s.desks[d].panes, Append(s.desks[d].floats, w), w)
                    ELSE Placed(s.desks[d], w, "tile"))

SetWindowModeIn(s, w, mode) ==
    LET d    == s.wins[w].desktop
        desk == s.desks[d]
    IN  IF s.wins[w].mode = mode THEN s
        ELSE Update([s EXCEPT !.wins[w].mode = mode, !.wins[w].maximized = FALSE], d,
                    IF mode = "float"
                    THEN Placed(Desk(RemoveFromTree(desk.panes, w), desk.floats, desk.focus), w, mode)
                    ELSE Placed(Desk(desk.panes, Remove(desk.floats, w), desk.focus), w, mode))

RestoreWindowIn(s, w) ==
    LET win  == s.wins[w]
        mode == IF win.restore = None THEN win.mode ELSE win.restore.mode
        d    == IF win.restore = None THEN win.desktop ELSE win.restore.desktop
        back == [s EXCEPT !.wins[w].minimized = FALSE, !.wins[w].restore = None,
                          !.wins[w].mode = mode, !.wins[w].desktop = d]
    IN  CASE win.minimized -> Update(back, d,
                 IF mode = "tile" /\ PaneContaining(s.desks[d].panes, w) # 0
                 THEN [s.desks[d] EXCEPT !.focus = w] ELSE Placed(s.desks[d], w, mode))
          [] ~win.minimized /\ win.maximized -> [s EXCEPT !.wins[w].maximized = FALSE]
          [] ~win.minimized /\ ~win.maximized -> s

MaximizeWindowIn(s, w) ==
    LET shown == IF s.wins[w].minimized THEN RestoreWindowIn(s, w) ELSE s
    IN  [shown EXCEPT !.wins[w].maximized = TRUE]

ToggleMaximizeWindowIn(s, w) ==
    IF s.wins[w].maximized THEN RestoreWindowIn(s, w) ELSE MaximizeWindowIn(s, w)

MinimizeWindowIn(s, w) ==
    LET win   == s.wins[w]
        desk  == s.desks[win.desktop]
        after == [s EXCEPT !.wins[w].minimized = TRUE,
                           !.wins[w].restore = [mode |-> win.mode, desktop |-> win.desktop]]
    IN  IF win.minimized THEN s
        ELSE Update(after, win.desktop, Unplaced(desk, w, PickNextFocus(desk, w, after.wins)))

RevealWindowIn(s, w) ==
    LET shown == IF s.wins[w].minimized THEN RestoreWindowIn(s, w) ELSE s
    IN  FocusWindowIn(SwitchDesktopIn(shown, shown.wins[w].desktop), w)

RemoveFromAllPlacements(s, w) ==
    [s EXCEPT !.desks = [d \in Desktops |->
        LET desk == s.desks[d]
        IN  IF Contains(desk.floats, w) \/ PaneContaining(desk.panes, w) # 0
            THEN Unplaced(desk, w, PickNextFocus(desk, w, s.wins)) ELSE desk]]

PresentWindowAsFloatIn(s, w, d) ==
    LET win   == s.wins[w]
        gone  == RemoveFromAllPlacements(s, w)
        shown == [gone EXCEPT !.wins[w] = [desktop |-> d, mode |-> "float", maximized |-> FALSE,
                                           minimized |-> FALSE, restore |-> None]]
    IN  IF win.mode = "float" /\ win.desktop = d /\ ~win.minimized /\ ~win.maximized
        THEN FocusWindowIn(SwitchDesktopIn(s, d), w)
        ELSE FocusWindowIn(SwitchDesktopIn(Update(shown, d, Placed(gone.desks[d], w, "float")), d), w)

\* target.pane is 0 for a pane that is not in the tree any more.
DockWindowIn(s, d, w, target, source) ==
    LET leaves(e) == \/ Contains(s.desks[e].floats, w)
                     \/ e # d /\ PaneContaining(s.desks[e].panes, w) # 0
        gone  == [e \in Desktops |->
                    LET desk  == s.desks[e]
                        focus == PickNextFocus(desk, w, s.wins)
                    IN  IF ~leaves(e) THEN desk
                        ELSE IF e # d THEN Unplaced(desk, w, focus)
                        ELSE UnplacedFloat(desk, w, focus)]
        tiled == [s EXCEPT !.desks = gone, !.wins[w].desktop = d,
                           !.wins[w].mode = "tile", !.wins[w].minimized = FALSE]
        panes == gone[d].panes
    IN  IF panes # <<>> /\ target.pane = 0 THEN s
        ELSE Update(tiled, d,
                    Desk(IF panes = <<>> THEN <<NewPane(w)>> ELSE DockItem(panes, w, target, source),
                         gone[d].floats, w))

SplitWindowIn(s, w, t, direction) ==
    LET d == s.wins[t].desktop
        i == PaneContaining(s.desks[d].panes, t)
    IN  IF i = 0 THEN s
        ELSE DockWindowIn(s, d, w, IF direction = "center"
                                   THEN [kind |-> "pane-center", pane |-> i]
                                   ELSE [kind |-> "pane-edge", pane |-> i, edge |-> direction], 0)

\* The windows are moved one by one, in the order of the record.
MoveAll(s, order, d) ==
    FoldLeft(LAMBDA acc, w : MoveWindowToDesktopIn(acc, w, d), s, order)

\* The desktop leaves the list; the model also clears the slot of its id.
RemoveDesktopIn(s, d, to, order) ==
    LET moved == MoveAll(s, order, to)
    IN  [moved EXCEPT !.order = Remove(@, d), !.desks[d] = EmptyDesk,
                      !.active = IF @ = d THEN to ELSE @]

\* placeExistingTerminal, for action "open-beside" and "move-beside".
PlaceExistingTerminalIn(s, hub, w) ==
    LET d      == s.wins[hub].desktop
        gone   == IF s.wins[w] = None THEN s ELSE RemoveFromAllPlacements(s, w)
        mode   == IF s.wins[w] = None THEN s.wins[hub].mode ELSE s.wins[w].mode
        put    == [gone EXCEPT !.wins[w] = [desktop |-> d, mode |-> mode, maximized |-> FALSE,
                                            minimized |-> FALSE, restore |-> None]]
        panes  == gone.desks[d].panes
        hubAt  == PaneContaining(panes, hub)
        beside == {i \in DOMAIN panes \ {hubAt} :
                     \E x \in Range(panes[i].items) : x \in Terminals /\ x # w}
        \* tree.id: the only pane, or the root split, which is no pane
        target == CASE hubAt # 0 /\ beside # {} -> [kind |-> "pane-center", pane |-> Min(beside)]
                    [] hubAt # 0 /\ beside = {} ->
                           [kind |-> "pane-edge", pane |-> hubAt, edge |-> "right"]
                    [] hubAt = 0 -> [kind |-> "pane-center",
                                     pane |-> IF Len(panes) = 1 THEN 1 ELSE 0]
        float  == [put EXCEPT !.wins[w].mode = "float",
                              !.desks = [e \in Desktops |->
                                  [gone.desks[e] EXCEPT !.floats =
                                      IF e = d THEN OnTop(@, w) ELSE Remove(@, w)]]]
    IN  FocusWindowIn(IF s.wins[hub].mode = "tile" /\ panes # <<>>
                      THEN DockWindowIn(put, d, w, target, 0) ELSE float, w)

-----------------------------------------------------------------------------
(* validateOsSession, the placement rules *)

Count(s, w) == Cardinality({<<d, i>> \in Range(s.order) \X (1..Cardinality(Windows)) :
                              /\ i \in DOMAIN s.desks[d].panes
                              /\ Contains(s.desks[d].panes[i].items, w)})

FloatsValid(s, d) ==
    LET floats == s.desks[d].floats
    IN  /\ IsInjective(floats)
        /\ \A w \in Range(floats) :
             /\ s.wins[w] # None
             /\ s.wins[w].desktop = d /\ s.wins[w].mode = "float" /\ ~s.wins[w].minimized

PanesValid(s, d) ==
    \A p \in Range(s.desks[d].panes) :
        /\ IsInjective(p.items) /\ Contains(p.items, p.active)
        /\ \A w \in Range(p.items) :
             /\ s.wins[w] # None
             /\ s.wins[w].desktop = d /\ s.wins[w].mode = "tile" /\ ~s.wins[w].minimized

FocusValid(s, d) ==
    LET w == s.desks[d].focus
    IN  w = None \/ /\ s.wins[w] # None
                    /\ s.wins[w].desktop = d /\ ~s.wins[w].minimized
                    /\ \/ Contains(s.desks[d].floats, w)
                       \/ PaneContaining(s.desks[d].panes, w) # 0

WindowValid(s, w) ==
    LET win    == s.wins[w]
        floats == Cardinality({d \in Range(s.order) : Contains(s.desks[d].floats, w)})
    IN  /\ Contains(s.order, win.desktop)
        /\ win.restore # None => Contains(s.order, win.restore.desktop)
        /\ <<Count(s, w), floats>> = IF win.minimized THEN <<0, 0>>
                                     ELSE IF win.mode = "tile" THEN <<1, 0>> ELSE <<0, 1>>

ValidateOsSession(s) ==
    /\ Contains(s.order, s.active)
    /\ \A d \in Range(s.order) : FloatsValid(s, d) /\ PanesValid(s, d) /\ FocusValid(s, d)
    /\ \A w \in {x \in Windows : s.wins[x] # None} : WindowValid(s, w)

-----------------------------------------------------------------------------
(* What the user interface calls *)

Open(w) == session.wins[w] # None

\* The window has a frame on the desktop that is shown.
OnScreen(w) ==
    /\ Open(w) /\ ~session.wins[w].minimized
    /\ session.wins[w].desktop = session.active

Becomes(s) == session' = s /\ UNCHANGED corrupt

OpenWindow(w, mode) == ~Open(w) /\ Becomes(OpenWindowIn(session, w, mode, session.active))

CloseWindow(w) == Open(w) /\ Becomes(CloseWindowIn(session, w))

\* A click in the frame, or the shortcut that cycles through the windows.
FocusWindow(w) == OnScreen(w) /\ Becomes(FocusWindowIn(session, w))

\* Deep links and file:open restore and focus without switching desktops.
FocusExisting(w) ==
    /\ Open(w)
    /\ Becomes(FocusWindowIn(IF session.wins[w].minimized THEN RestoreWindowIn(session, w)
                             ELSE session, w))

\* The window list and most intents: switch, restore, focus.
ShowExisting(s, w) ==
    LET there == SwitchDesktopIn(s, s.wins[w].desktop)
    IN  FocusWindowIn(IF s.wins[w].minimized THEN RestoreWindowIn(there, w) ELSE there, w)

SelectWindow(w) == Open(w) /\ Becomes(ShowExisting(session, w))

\* The git:status intent also leaves the maximized state and may float the window.
GitStatus(w, mode) ==
    LET there == SwitchDesktopIn(session, session.wins[w].desktop)
        shown == IF session.wins[w].minimized THEN RestoreWindowIn(there, w) ELSE there
        small == IF session.wins[w].maximized THEN ToggleMaximizeWindowIn(shown, w) ELSE shown
        loose == IF mode = "float" /\ session.wins[w].mode = "tile"
                 THEN SetWindowModeIn(small, w, "float") ELSE small
    IN  Open(w) /\ Becomes(FocusWindowIn(loose, w))

RevealWindow(w) == Open(w) /\ Becomes(RevealWindowIn(session, w))

PresentWindowAsFloat(w) ==
    Open(w) /\ Becomes(PresentWindowAsFloatIn(session, w, session.active))

SwitchDesktop(d) ==
    d \in Range(session.order) \ {session.active} /\ Becomes(SwitchDesktopIn(session, d))

MoveWindowToDesktop(w, d) ==
    /\ OnScreen(w) /\ d \in Range(session.order) \ {session.active}
    /\ Becomes(MoveWindowToDesktopIn(session, w, d))

\* setWindowMode and toggleWindowMode: the buttons, the palette, a double click.
ToggleWindowMode(w) ==
    /\ OnScreen(w)
    /\ Becomes(SetWindowModeIn(session, w, IF session.wins[w].mode = "tile" THEN "float" ELSE "tile"))

ToggleMaximizeWindow(w) == OnScreen(w) /\ Becomes(ToggleMaximizeWindowIn(session, w))

MinimizeWindow(w) == OnScreen(w) /\ Becomes(MinimizeWindowIn(session, w))

AddDesktop(d) ==
    /\ d \notin Range(session.order)
    /\ Becomes([session EXCEPT !.order = Append(@, d)])

\* "Create Project Desktop" of the command palette.
AddProjectDesktop(d) ==
    LET opened == UNION {Range(Template[i]) : i \in DOMAIN Template}
        panes  == [i \in DOMAIN Template |-> Pane(Template[i], Head(Template[i]))]
    IN  /\ d \notin Range(session.order)
        /\ \A w \in opened : ~Open(w)
        /\ Becomes([active |-> d, order |-> Append(session.order, d),
                    desks  |-> [session.desks EXCEPT ![d] = Desk(panes, <<>>, Template[1][1])],
                    wins   |-> [w \in Windows |->
                        IF w \in opened
                        THEN [desktop |-> d, mode |-> "tile", maximized |-> FALSE,
                              minimized |-> FALSE, restore |-> None]
                        ELSE session.wins[w]]])

\* The switcher names the first other desktop as the survivor.
RemoveDesktop(d) ==
    LET others == Remove(session.order, d)
        moved  == {w \in Windows : Open(w) /\ session.wins[w].desktop = d}
    IN  /\ Contains(session.order, d) /\ others # <<>>
        /\ \E order \in SetToSeqs(moved) :
             Becomes(RemoveDesktopIn(session, d, Head(others), order))

SelectPaneTab(w) ==
    LET i == PaneContaining(session.desks[session.active].panes, w)
    IN  /\ OnScreen(w) /\ i # 0
        /\ Becomes([session EXCEPT !.desks[session.active].panes[i].active = w,
                                   !.desks[session.active].focus = w])

\* terminal:place-existing from an Agent Hub window.
PlaceExistingTerminal(hub, w, action) ==
    /\ IF "hub" \in Careless THEN Open(hub) ELSE OnScreen(hub)
    /\ CASE action = "focus-existing" -> Open(w) /\ Becomes(ShowExisting(session, w))
         [] action = "open-beside" /\ Open(w) /\ session.wins[w].desktop = session.wins[hub].desktop ->
                Becomes(FocusWindowIn(IF session.wins[w].minimized THEN RestoreWindowIn(session, w)
                                      ELSE session, w))
         [] action = "open-beside" /\ ~(Open(w) /\ session.wins[w].desktop = session.wins[hub].desktop) ->
                Becomes(PlaceExistingTerminalIn(session, hub, w))
         [] action = "move-beside" -> Open(w) /\ Becomes(PlaceExistingTerminalIn(session, hub, w))

-----------------------------------------------------------------------------
(* Operations of the store that the user interface does not call yet *)

Targets(panes) ==
    {[kind |-> "pane-center", pane |-> i] : i \in {0} \union DOMAIN panes}
    \union {[kind |-> "pane-edge", pane |-> i, edge |-> e] : i \in DOMAIN panes, e \in {"left", "right"}}
    \union {[kind |-> "tab-index", pane |-> i, index |-> 1] : i \in DOMAIN panes}

\* A window that can be dragged, or carelessly any.
MayDock(w) == Open(w) /\ ("dock" \in Careless \/ ~session.wins[w].minimized)

\* The source pane is not given or is the pane of the window.
DockWindow(d, w, target, source) ==
    /\ MayDock(w) /\ Contains(session.order, d)
    /\ source \in {0, PaneContaining(session.desks[d].panes, w)}
    /\ Becomes(DockWindowIn(session, d, w, target, source))

SplitWindow(w, t, direction) ==
    MayDock(w) /\ Open(t) /\ Becomes(SplitWindowIn(session, w, t, direction))

BringWindowToFront(w) ==
    /\ IF "front" \in Careless THEN Open(w) ELSE OnScreen(w)
    /\ session.wins[w].mode = "float"
    /\ LET desk == session.desks[session.wins[w].desktop]
       IN  Becomes(Update(session, session.wins[w].desktop,
                          Desk(desk.panes, OnTop(desk.floats, w), w)))

SendWindowToBack(w) ==
    /\ OnScreen(w) /\ session.wins[w].mode = "float"
    /\ LET desk == session.desks[session.active]
       IN  Becomes(Update(session, session.active,
                          Desk(desk.panes, <<w>> \o Remove(desk.floats, w), desk.focus)))

MoveTabWithinPane(i, from, to) ==
    LET panes == session.desks[session.active].panes
    IN  /\ i \in DOMAIN panes /\ from \in DOMAIN panes[i].items /\ to \in DOMAIN panes[i].items
        /\ Becomes([session EXCEPT !.desks[session.active].panes[i].items =
                        InsertAt(RemoveAt(@, from), to, @[from])])

-----------------------------------------------------------------------------
(* beforeunload saves the session, the next page loads it *)

Reload ==
    LET keeps == ~corrupt /\ ValidateOsSession(session)
    IN  /\ session' = IF keeps THEN session ELSE DefaultSession
        /\ corrupt' = ~keeps

Init == session = DefaultSession /\ corrupt = FALSE

Actions ==
    {"focus-existing", "open-beside", "move-beside"}

Next ==
    \/ \E w \in Windows, mode \in {"tile", "float"} : OpenWindow(w, mode) \/ GitStatus(w, mode)
    \/ \E w \in Windows :
         \/ CloseWindow(w) \/ FocusWindow(w) \/ FocusExisting(w) \/ SelectWindow(w)
         \/ RevealWindow(w) \/ PresentWindowAsFloat(w) \/ ToggleWindowMode(w)
         \/ ToggleMaximizeWindow(w) \/ MinimizeWindow(w) \/ SelectPaneTab(w)
         \/ BringWindowToFront(w) \/ SendWindowToBack(w)
    \/ \E d \in Desktops :
         \/ SwitchDesktop(d) \/ AddDesktop(d) \/ AddProjectDesktop(d) \/ RemoveDesktop(d)
         \/ \E w \in Windows :
              \/ MoveWindowToDesktop(w, d)
              \/ LET panes == session.desks[d].panes
                 IN  \E target \in Targets(panes), source \in {0} \union DOMAIN panes :
                       DockWindow(d, w, target, source)
    \/ \E hub \in Windows \ Terminals, w \in Terminals, action \in Actions :
         PlaceExistingTerminal(hub, w, action)
    \/ \E w, t \in Windows, direction \in {"right", "center"} : SplitWindow(w, t, direction)
    \/ \E i, from, to \in 1..Cardinality(Windows) : MoveTabWithinPane(i, from, to)
    \/ Reload

Spec == Init /\ [][Next]_vars

-----------------------------------------------------------------------------
(* Properties *)

WindowType ==
    [desktop : Desktops, mode : {"tile", "float"}, maximized : BOOLEAN, minimized : BOOLEAN,
     restore : {None} \union [mode : {"tile", "float"}, desktop : Desktops]]

\* The shape of OsSessionV1.
TypeOK ==
    /\ DOMAIN session = {"active", "order", "desks", "wins"}
    /\ session.active \in Desktops /\ session.order \in Seq(Desktops)
    /\ session.wins \in [Windows -> {None} \union WindowType]
    /\ \A d \in Desktops :
         /\ session.desks[d].floats \in Seq(Windows)
         /\ session.desks[d].focus \in Windows \union {None}
         /\ \A p \in Range(session.desks[d].panes) :
              p.items \in Seq(Windows) /\ p.active \in Windows
    /\ corrupt \in BOOLEAN

\* Whatever the sequence of operations of window-ops.ts, the session passes
\* validateOsSession: every shown window is in exactly one pane or once in the
\* floats of its own desktop, a minimized one nowhere, and the focus is on a
\* window that is there (docs/code-standards.md, Placement Invariants).
StaysLoadable == ValidateOsSession(session)

\* A minimized window comes back where it was: its restorePlacement names its
\* own mode and desktop, also after its desktop was removed (restoreWindow,
\* moveWindowToDesktop).
RestoreAgrees ==
    \A w \in Windows : Open(w) /\ session.wins[w].minimized =>
        session.wins[w].restore = [mode |-> session.wins[w].mode, desktop |-> session.wins[w].desktop]

\* A window leaves the session only when it is closed: no layout operation and
\* no reload drops one (removeDesktop, loadOsSession).
NothingLost ==
    [][\A w \in Windows : Open(w) => Open(w)' \/ CloseWindow(w)]_vars

\* The window is in front on the desktop that is shown: it has the focus and is
\* the active tab of its pane or the topmost float.
InFront(s, w) ==
    LET desk == s.desks[s.active]
        i    == PaneContaining(desk.panes, w)
    IN  /\ s.wins[w].desktop = s.active /\ desk.focus = w
        /\ IF i # 0 THEN desk.panes[i].active = w ELSE desk.floats # <<>> /\ Last(desk.floats) = w

\* Whenever a window is asked for, it comes in front, from any desktop, tab,
\* stacking order or minimized state (revealWindow, presentWindowAsFloat, the
\* window list, terminal:place-existing from the Agent Hub on the screen).
ShowsWindow ==
    \A w \in Windows : Open(w) =>
        /\ InFront(RevealWindowIn(session, w), w)
        /\ InFront(ShowExisting(session, w), w)
        /\ InFront(PresentWindowAsFloatIn(session, w, session.active), w)
        /\ \A hub \in Windows \ Terminals :
             OnScreen(hub) /\ w \in Terminals => InFront(PlaceExistingTerminalIn(session, hub, w), w)

=============================================================================
