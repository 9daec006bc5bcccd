------------------------------ MODULE SeedBoard ------------------------------
(***************************************************************************)
(* manage.py seed_board (apps/boards/management/commands/seed_board.py):   *)
(* a board is parsed, stored, saved and cached from the command line, next *)
(* to everything that goes on in BoardPipeline.  One command runs at a     *)
(* time.                                                                   *)
(***************************************************************************)
EXTENDS BoardPipeline

CONSTANT MaxSeeds       \* bound: commands
ASSUME MaxSeedsAssumption == MaxSeeds \in Nat

VARIABLES
    seed,       \* what the command is doing: its file, and with --force the row
                \* that existed, as it was when it was loaded
    seeds       \* how much of MaxSeeds is spent

SeedIdle == [pc |-> "idle", pk |-> 0, file |-> None, image |-> None]

SeedInit == Init /\ seed = SeedIdle /\ seeds = 0

SeedGo(pc) == seed' = [seed EXCEPT !.pc = pc]
SeedEnds == seed' = SeedIdle

\* result.success is not looked at.
SeedStartVariant(f, force) ==
    LET existing == {b \in Board : Exists(b) /\ rows[b].file[1] = f[1]} IN
    /\ seed.pc = "idle" /\ seeds < MaxSeeds /\ seeds' = seeds + 1
    /\ \/ /\ existing = {}
          /\ seed' = [pc |-> "put", pk |-> 0, file |-> f, image |-> None]
       \/ /\ force
          /\ \E b \in existing :
                seed' = [pc |-> "put", pk |-> b, file |-> f, image |-> rows[b]]
    /\ UNCHANGED vars

\* A board that exists is left alone without --force; a file that does not parse
\* ends the command.  The parse comes before anything is written.
SeedStart(f, force) ==
    LET existing == {b \in Board : Exists(b) /\ rows[b].file[1] = f[1]} IN
    /\ seed.pc = "idle" /\ seeds < MaxSeeds /\ seeds' = seeds + 1
    /\ f \in Parses
    /\ \/ /\ existing = {}
          /\ seed' = [pc |-> "put", pk |-> 0, file |-> f, image |-> None]
       \/ /\ force
          /\ \E b \in existing :
                seed' = [pc |-> "put", pk |-> b, file |-> f, image |-> rows[b]]
    /\ UNCHANGED vars

SeedPut ==
    /\ seed.pc = "put"
    /\ \/ s3' = s3 \cup {seed.file} /\ SeedGo("save") /\ UNCHANGED used
       \/ Spend("fault") /\ SeedEnds /\ UNCHANGED s3
    /\ UNCHANGED <<rows, nextPk, cache, queues, web, worker, served, seeds>>

\* The check at the start is trusted.
ClashVariant == seed.pk # 0 /\ HashTaken(seed.file[1], seed.pk)

\* content_hash is unique.
Clash == HashTaken(seed.file[1], seed.pk)

\* board.save(): a new row, or every column of the old one, which is inserted again
\* when it is gone.  The s3_key and the file name of an old row stay.  A row of the
\* same content that came meanwhile ends the command.
SeedSave(access) ==
    LET new == seed.pk = 0
        b == IF new THEN nextPk ELSE seed.pk
        row == [(IF new THEN NewRow(seed.file) ELSE seed.image) EXCEPT
                    !.access = access, !.status = "success", !.counted = TRUE]
    IN
    /\ seed.pc = "save"
    /\ IF Clash
       THEN SeedEnds /\ UNCHANGED <<rows, nextPk>>
       ELSE /\ b \in Board
            /\ rows' = [rows EXCEPT ![b] = row]
            /\ nextPk' = IF new THEN nextPk + 1 ELSE nextPk
            /\ SeedGo("cache")
    /\ UNCHANGED <<s3, cache, queues, web, worker, used, served, seeds>>

SeedCache ==
    /\ seed.pc = "cache"
    /\ \/ CacheSet(seed.file) /\ UNCHANGED used
       \/ CacheFails
    /\ SeedEnds
    /\ UNCHANGED <<rows, nextPk, s3, queues, web, worker, served, seeds>>

SeedDies ==
    /\ seed.pc # "idle" /\ Spend("crash")
    /\ SeedEnds
    /\ UNCHANGED <<store, queues, web, worker, served, seeds>>

SeedStep ==
    \/ \E f \in File, force \in BOOLEAN : SeedStart(f, force)
    \/ SeedPut \/ SeedCache \/ SeedDies
    \/ \E access \in Access : SeedSave(access)

SeedNext ==
    \/ SeedStep
    \/ Next /\ UNCHANGED <<seed, seeds>>

SeedSpec == SeedInit /\ [][SeedNext]_<<vars, seed, seeds>>

-----------------------------------------------------------------------------

\* A board shown as parsed has content that some parser has accepted, whether a
\* task, the command or a PATCH of an older row saved it last, and with whatever
\* extension the command was given that content (boards/models.py:159-171,
\* admin_panel/views.py:211, seed_board.py:127,150-166).
SuccessWasParsed ==
    \A b \in Board : Exists(b) /\ rows[b].status = "success" =>
        \E e \in Ext : <<rows[b].file[1], e>> \in Parses
=============================================================================
