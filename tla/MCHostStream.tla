---------------------------- MODULE MCHostStream ----------------------------
(* Instances of HostStream for TLC; the bounds are set in the cfg files.    *)
EXTENDS HostStream

\* Neither a starting attempt nor the wait for a retry lasts for ever: the
\* deadlines and the timers end both.
StreamProgress == StartingEnds /\ WaitingEnds
=============================================================================
