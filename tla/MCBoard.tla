------------------------------- MODULE MCBoard -------------------------------
(* BoardPipeline on small instances: the bounds of each run, and symmetry.   *)
EXTENDS BoardRefinement, TLC

CONSTANTS h1, brd, bv, w1, w2, p1, p2

\* The parsers accept content h1 under the extension .brd only.
BrdParses == {<<h1, brd>>}

Bounds(upload, patch, delete, reparse, view, fault, crash) ==
    [k \in Kind |->
        CASE k = "upload" -> upload [] k = "patch" -> patch
          [] k = "delete" -> delete [] k = "reparse" -> reparse
          [] k = "view" -> view [] k = "fault" -> fault
          [] k = "crash" -> crash]

\* Two uploads, a PATCH, a deletion, a view and a death.
AllBounds == Bounds(2, 1, 1, 0, 1, 0, 1)
\* Two views at once, counted by two workers, among errors and deaths.
ViewBounds == Bounds(1, 0, 1, 0, 2, 1, 1)
\* Neither PATCH nor deaths, and as many errors of S3 and Redis as one message has
\* retries.
CleanBounds == Bounds(1, 0, 1, 1, 0, 3, 0)
\* Two uploads of one content and one deletion.
UploadDeleteBounds == Bounds(2, 0, 1, 0, 0, 0, 0)
ProcessSymmetry == Permutations({w1, w2}) \cup Permutations({p1, p2})
=============================================================================
