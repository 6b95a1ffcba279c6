------------------------------ MODULE MCRelease ------------------------------
(* Small instances of Release: ids are consecutive numbers.                  *)
EXTENDS Release, TLC

CONSTANTS MaxRelease, MaxJob, MaxBuild, MaxTime

MCReleaseId   == 1..MaxRelease
MCJobId       == 1..MaxJob
MCBuildNumber == 1..MaxBuild
MCTime        == 1..MaxTime

\* Nothing tells two articles, or two publishable settings, apart.
Symmetry == Permutations(Article) \cup Permutations(PublishableSite)
=============================================================================
