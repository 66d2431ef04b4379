----------------------------- MODULE MCWindowOps ------------------------------
EXTENDS WindowOps

CONSTANTS h, t, u

\* The project desktop in small: a pane of its own and a pane of two tabs.
MCTemplate == <<<<t>>, <<h, u>>>>

\* Whatever sequence of operations led to it, the desktop can be loaded again,
\* with every window in exactly one place; the place a minimized window returns
\* to exists; and a window that was asked for can be seen.
WellPlaced == TypeOK /\ StaysLoadable /\ RestoreAgrees /\ ShowsWindow
=============================================================================
