----------------------------- MODULE MCRelease -----------------------------
(***************************************************************************)
(* A small instance of Release: two releases and two dates under one       *)
(* version's name, a source, the release commit or a fix, and one commit   *)
(* more; one edit, of a file, the index, the tag or the setup.             *)
(***************************************************************************)
EXTENDS Release, TLC

CONSTANTS r1, r2, d1, d2

MCReleases == {r1, r2}

MCDates == {d1, d2}

MCSymmetry == Permutations(MCReleases) \cup Permutations(MCDates)
=============================================================================
