---------------------------- MODULE MCPublishing ----------------------------
(* Small instances of Publishing: ids are consecutive numbers, those of      *)
(* releases from FirstRelease on.                                            *)
EXTENDS Publishing

CONSTANTS FirstRelease, MaxRelease, MaxJob, MaxBuild

MCReleaseId   == FirstRelease..MaxRelease
MCJobId       == 1..MaxJob
MCBuildNumber == 1..MaxBuild
MCTime        == 1..3
=============================================================================
