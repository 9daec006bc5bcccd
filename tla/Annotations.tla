----------------------------- MODULE Annotations -----------------------------
(***************************************************************************)
(* Annotations of boards (apps/annotations), and the deletion of a board   *)
(* that takes its annotations along (apps/admin_panel).                    *)
(*                                                                         *)
(* A request finds a row in one step and writes it in another.  The one    *)
(* deletion that Django wraps in a transaction, that of a board with its   *)
(* annotations, takes two statements and a commit; the rows it has deleted *)
(* stay visible and locked until then.  A thread may stop anywhere: it     *)
(* dies, or a statement raises, and an open transaction is rolled back.    *)
(* What the deletion of a board does to S3 and Redis is in BoardPipeline.  *)
(***************************************************************************)
EXTENDS Integers, Sequences, FiniteSets

CONSTANTS
    User,           \* technicians with a subscription (see Accounts)
    Board,          \* boards, by primary key
    Web,            \* gunicorn threads
    None,           \* no row
    MaxAsked        \* bound: requests

ASSUME MaxAskedAssumption == MaxAsked \in Nat

\* Of the contents of an annotation: who wrote them last.
Annotation == [board : Board, user : User, text : User]
\* Of a BoardFile: whether it is disabled.
BoardFile == [disabled : BOOLEAN]

ASSUME NoneAssumption == None \notin Annotation /\ None \notin BoardFile

\* What a thread holds: the row to be written, or the annotations that its
\* transaction has deleted.
Request == [pc : {"idle", "post", "patch", "delete", "status", "board", "commit"},
            board : Board \cup {None}, id : Nat,
            row : Annotation \cup BoardFile \cup {None}, swept : SUBSET Nat]

Hold(pc, b, a, row, swept) == [pc |-> pc, board |-> b, id |-> a, row |-> row, swept |-> swept]
Idle == Hold("idle", None, 0, None, {})

VARIABLES
    boards,         \* rows of BoardFile
    notes,          \* rows of Annotation, by their ids
    web,            \* what each thread is doing
    asked,          \* how much of MaxAsked is spent
    \* History, read by the properties only:
    gone,           \* annotations that were deleted
    raced           \* those of them that a PATCH had loaded

history == <<gone, raced>>
vars == <<boards, notes, web, asked, history>>

Init ==
    /\ boards = [b \in Board |-> [disabled |-> FALSE]]
    /\ notes = <<>>
    /\ web = [t \in Web |-> Idle]
    /\ asked = 0
    /\ gone = {} /\ raced = {}

Ask == asked < MaxAsked /\ asked' = asked + 1
At(t, pc) == web[t].pc = pc
Take(t, r) == At(t, "idle") /\ web' = [web EXCEPT ![t] = r]
Done(t) == web' = [web EXCEPT ![t] = Idle]

\* Rows that a transaction has deleted: whoever writes them waits for its end.
Locked(a) == \E t \in Web : At(t, "commit") /\ a \in web[t].swept

On(b) == {a \in DOMAIN notes : notes[a] # None /\ notes[a].board = b}

\* Rows that are gone for good, and those a PATCH will save nevertheless.
Note(S) ==
    /\ gone' = gone \cup S
    /\ raced' = raced \cup {a \in S : \E t \in Web : At(t, "patch") /\ web[t].id = a}

-----------------------------------------------------------------------------
(* POST boards/{id}/annotations/; the list is a query. *)

\* _get_accessible_board
Accessible(b) == boards[b] # None /\ ~boards[b].disabled

\* The owner is not noted.
PostVariant(t, u, b) ==
    /\ Ask
    /\ Accessible(b)
    /\ Take(t, Hold("post", b, 0, [board |-> b, user |-> None, text |-> u], {}))
    /\ UNCHANGED <<boards, notes, history>>

Post(t, u, b) ==
    /\ Ask
    /\ Accessible(b)
    /\ Take(t, Hold("post", b, 0, [board |-> b, user |-> u, text |-> u], {}))
    /\ UNCHANGED <<boards, notes, history>>

\* The annotation gets the first id that is free.
PostInsertVariant(t) ==
    /\ At(t, "post")
    /\ LET free == {a \in DOMAIN notes : notes[a] = None} IN
        notes' = IF boards[web[t].board] = None THEN notes
                 ELSE IF free = {} THEN Append(notes, web[t].row)
                 ELSE [notes EXCEPT ![CHOOSE a \in free : TRUE] = web[t].row]
    /\ Done(t)
    /\ UNCHANGED <<boards, asked, history>>

\* The foreign key: without the board there is no annotation.
PostInsert(t) ==
    /\ At(t, "post")
    /\ notes' = IF boards[web[t].board] = None THEN notes ELSE Append(notes, web[t].row)
    /\ Done(t)
    /\ UNCHANGED <<boards, asked, history>>

-----------------------------------------------------------------------------
(* PATCH and DELETE annotations/{id}/ *)

\* Any annotation is found by its id.
OwnVariant(u, a) == notes[a] # None

\* _get_own_annotation; the board may be disabled.
Own(u, a) == notes[a] # None /\ notes[a].user = u

Patch(t, u, a) ==
    /\ Ask
    /\ Own(u, a)
    /\ Take(t, Hold("patch", None, a, [notes[a] EXCEPT !.text = u], {}))
    /\ UNCHANGED <<boards, notes, history>>

\* The foreign key is not asked for.
PatchSaveVariant(t) ==
    /\ At(t, "patch") /\ ~Locked(web[t].id)
    /\ notes' = [notes EXCEPT ![web[t].id] = web[t].row]
    /\ Done(t)
    /\ UNCHANGED <<boards, asked, history>>

\* save() updates the row that was loaded; when it is gone it inserts it again,
\* provided there still is a board.
PatchSave(t) ==
    LET a == web[t].id IN
    /\ At(t, "patch") /\ ~Locked(a)
    /\ notes' = IF notes[a] = None /\ boards[web[t].row.board] = None THEN notes
                ELSE [notes EXCEPT ![a] = web[t].row]
    /\ Done(t)
    /\ UNCHANGED <<boards, asked, history>>

Delete(t, u, a) ==
    /\ Ask
    /\ Own(u, a)
    /\ Take(t, Hold("delete", None, a, None, {}))
    /\ UNCHANGED <<boards, notes, history>>

DeleteRow(t) ==
    LET a == web[t].id IN
    /\ At(t, "delete") /\ ~Locked(a)
    /\ notes' = [notes EXCEPT ![a] = None]
    /\ Note({a})
    /\ Done(t)
    /\ UNCHANGED <<boards, asked>>

-----------------------------------------------------------------------------
(* Boards: an admin disables and enables them, and deletes them. *)

\* The PATCH loads the board, and writes every column of it.
SetStatus(t, b) ==
    /\ Ask
    /\ boards[b] # None
    /\ Take(t, Hold("status", b, 0, [boards[b] EXCEPT !.disabled = ~@], {}))
    /\ UNCHANGED <<boards, notes, history>>

\* save() inserts the row again if it has been deleted.
SetStatusSave(t) ==
    /\ At(t, "status")
    /\ boards' = [boards EXCEPT ![web[t].board] = web[t].row]
    /\ Done(t)
    /\ UNCHANGED <<notes, asked, history>>

DeleteBoard(t, b) ==
    /\ Ask
    /\ boards[b] # None
    /\ Take(t, Hold("board", b, 0, None, {}))
    /\ UNCHANGED <<boards, notes, history>>

\* The annotations are deleted in a statement of their own, outside a transaction.
SweepVariant(t) ==
    LET b == web[t].board IN
    /\ At(t, "board")
    /\ \A a \in On(b) : ~Locked(a)
    /\ notes' = [a \in DOMAIN notes |-> IF a \in On(b) THEN None ELSE notes[a]]
    /\ Note(On(b))
    /\ web' = [web EXCEPT ![t] = Hold("commit", b, 0, None, {})]
    /\ UNCHANGED <<boards, asked>>

\* board.delete(): the first statement deletes the annotations that exist by now.
Sweep(t) ==
    LET b == web[t].board IN
    /\ At(t, "board")
    /\ \A a \in On(b) : ~Locked(a)
    /\ web' = [web EXCEPT ![t] = Hold("commit", b, 0, None, On(b))]
    /\ UNCHANGED <<boards, notes, asked, history>>

\* The second deletes the board.  An annotation that came in between breaks the
\* foreign key, and the transaction is rolled back.
Commit(t) ==
    LET b == web[t].board IN
    /\ At(t, "commit")
    /\ IF On(b) \subseteq web[t].swept
       THEN /\ boards' = [boards EXCEPT ![b] = None]
            /\ notes' = [a \in DOMAIN notes |-> IF a \in web[t].swept THEN None ELSE notes[a]]
            /\ Note(web[t].swept)
       ELSE UNCHANGED <<boards, notes, history>>
    /\ Done(t)
    /\ UNCHANGED asked

-----------------------------------------------------------------------------

\* The thread dies, or the database refuses its next statement.
Stop(t) ==
    /\ ~At(t, "idle")
    /\ Done(t)
    /\ UNCHANGED <<boards, notes, asked, history>>

WebStep(t) ==
    \/ PostInsert(t) \/ PatchSave(t) \/ DeleteRow(t)
    \/ SetStatusSave(t) \/ Sweep(t) \/ Commit(t) \/ Stop(t)

Begin(t) ==
    \/ \E u \in User, b \in Board : Post(t, u, b)
    \/ \E u \in User, a \in DOMAIN notes : Patch(t, u, a) \/ Delete(t, u, a)
    \/ \E b \in Board : SetStatus(t, b) \/ DeleteBoard(t, b)

Next == \E t \in Web : WebStep(t) \/ Begin(t)

Spec == Init /\ [][Next]_vars

-----------------------------------------------------------------------------
(* Properties *)

TypeOK ==
    /\ boards \in [Board -> BoardFile \cup {None}]
    /\ notes \in Seq(Annotation \cup {None})
    /\ web \in [Web -> Request]
    /\ asked \in 0 .. MaxAsked
    /\ gone \subseteq DOMAIN notes /\ raced \subseteq gone

\* However requests overlap with the deletion of a board, no annotation is left
\* without its board (on_delete=CASCADE, annotations/models.py:27): neither one
\* whose board was there when it was asked for, nor one that PATCH inserts again.
NoOrphans == \A a \in DOMAIN notes : notes[a] # None => boards[notes[a].board] # None

\* A deleted annotation does not come back, alone or with its board, unless a
\* PATCH had loaded it before (annotations/views.py:79-84).
GoneForGood == \A a \in gone \ raced : notes[a] = None

\* "Annotations are private per-user" (annotations/models.py:17): nobody but its
\* owner has written what an annotation says, and it stays its owner's.
PrivatePerUser ==
    [][\A a \in DOMAIN notes' : notes'[a] # None =>
        /\ notes'[a].text = notes'[a].user
        /\ a \in DOMAIN notes /\ notes[a] # None => notes'[a].user = notes[a].user]_vars

\* Deleting a board takes all of its annotations or none: no thread that stops
\* between the two statements, and no constraint that foils the second, costs
\* anybody an annotation of a board that stays (admin_panel/views.py:228).
CascadeIsAll ==
    [][\A a \in DOMAIN notes : notes[a] # None /\ notes'[a] = None =>
        \/ boards'[notes[a].board] = None
        \/ \E t \in Web : At(t, "delete") /\ web[t].id = a /\ ~At(t, "delete")']_vars
=============================================================================
