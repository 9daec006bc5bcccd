-------------------------------- MODULE MCSeed --------------------------------
(* SeedBoard next to the requests and tasks of MCBoard. *)
EXTENDS SeedBoard, MCBoard

CONSTANT h2     \* a content no parser accepts

\* One upload and one command, and everything else at once.
SeedBounds == Bounds(1, 1, 1, 0, 0, 1, 1)
=============================================================================
