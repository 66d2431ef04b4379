-------------------------- MODULE MCReleaseManager --------------------------
(***************************************************************************)
(* Two releases of one role, or of different roles: one of them drops the  *)
(* API, the other adds it.                                                 *)
(***************************************************************************)
EXTENDS ReleaseManager

MCReleases == {"v1", "v2"}
MCRoles == {[r \in MCReleases |-> AppUnits],
            [r \in MCReleases |-> IF r = "v1" THEN AppUnits ELSE {"web"}]}
=============================================================================
