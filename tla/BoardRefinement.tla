--------------------------- MODULE BoardRefinement ---------------------------
(***************************************************************************)
(* BoardPipeline implements BoardLifecycle, as long as no PATCH overlaps   *)
(* with the pipeline and no process dies.                                  *)
(***************************************************************************)
EXTENDS BoardPipeline

\* The parse status an admin sees; a key that was never handed out is absent,
\* one whose row is gone is deleted.
StatusOf(b) ==
    IF Exists(b) THEN rows[b].status
    ELSE IF b < nextPk THEN "deleted" ELSE "absent"

Lifecycle == INSTANCE BoardLifecycle
                 WITH status <- [b \in Board |-> StatusOf(b)],
                      owed <- {b \in Board : Owed(b)}

\* Uploads, reparses, retries and deletions, however they interleave, take a
\* board through its life as BoardLifecycle states it.
ImplementsLifecycle == Lifecycle!LifecycleSpec
=============================================================================
