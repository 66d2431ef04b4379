---------------------------- MODULE MCFleetHandoff ----------------------------
\* The handoff fence with two incarnations of an id and a generation that wraps after 3.
EXTENDS FleetHandoff
=============================================================================
