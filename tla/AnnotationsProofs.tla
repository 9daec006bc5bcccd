-------------------------- MODULE AnnotationsProofs --------------------------
(* Proofs about Annotations, for any technicians, boards, threads and bound.  *)
EXTENDS Annotations, TLAPS

-----------------------------------------------------------------------------
(* The inductive invariant *)

\* What a request holds: an annotation of its own user, ids that were given out,
\* a board.
Holds(r) ==
    /\ r.pc \in {"post", "patch"} => r.row \in Annotation /\ r.row.text = r.row.user
    /\ r.pc = "post" => r.row.board = r.board
    /\ r.pc \in {"patch", "delete"} => r.id \in DOMAIN notes
    /\ r.pc \in {"post", "status", "board", "commit"} => r.board \in Board
    /\ r.pc = "status" => r.row \in BoardFile
    /\ r.swept \subseteq DOMAIN notes

Holding == \A t \in Web : Holds(web[t])

Patching(t) == web[t].pc = "patch"
Same(m, n) == m.board = n.board /\ m.user = n.user

\* A PATCH saves what still is the board and the owner of the annotation, or was
\* when it was deleted.
AgreesWithRow ==
    \A t \in Web : Patching(t) /\ notes[web[t].id] # None =>
        Same(web[t].row, notes[web[t].id])
AgreesWithOthers ==
    \A t, s \in Web : Patching(t) /\ Patching(s) /\ web[t].id = web[s].id =>
        Same(web[t].row, web[s].row)

\* An annotation that is deleted under a PATCH is noted.
Noticed == \A t \in Web : Patching(t) /\ web[t].id \in gone => web[t].id \in raced

Authored == \A a \in DOMAIN notes : notes[a] # None => notes[a].text = notes[a].user

\* What a transaction has deleted are annotations of its board, still there, and
\* nobody else's to delete.
Deleting(t) == web[t].pc = "commit"
Swept ==
    /\ \A t \in Web : Deleting(t) => web[t].swept \subseteq On(web[t].board)
    /\ \A t, s \in Web : Deleting(t) /\ Deleting(s) /\ t # s =>
            web[t].swept \cap web[s].swept = {}

Base == TypeOK /\ Holding
Inv == Base /\ AgreesWithRow /\ AgreesWithOthers /\ Noticed /\ Authored /\ Swept
       /\ NoOrphans /\ GoneForGood

-----------------------------------------------------------------------------
(* Types *)

LEMMA NoneIsNoRow == None \notin Annotation /\ None \notin BoardFile
BY NoneAssumption

LEMMA IdleHolds == Idle \in Request /\ Idle.pc = "idle" /\ Idle.swept = {}
BY DEF Idle, Hold, Request

LEMMA HoldType ==
    ASSUME NEW pc \in {"idle", "post", "patch", "delete", "status", "board", "commit"},
           NEW b \in Board \cup {None}, NEW a \in Nat,
           NEW row \in Annotation \cup BoardFile \cup {None}, NEW S \in SUBSET Nat
    PROVE  /\ Hold(pc, b, a, row, S) \in Request
           /\ Hold(pc, b, a, row, S).pc = pc
           /\ Hold(pc, b, a, row, S).board = b
           /\ Hold(pc, b, a, row, S).id = a
           /\ Hold(pc, b, a, row, S).row = row
           /\ Hold(pc, b, a, row, S).swept = S
BY DEF Hold, Request

\* Steps that leave the annotations alone give one thread a request to hold.
Quiet(t, r) ==
    /\ r \in Request
    /\ web' = [web EXCEPT ![t] = r]
    /\ UNCHANGED <<notes, gone, raced>>

LEMMA QuietHolds ==
    ASSUME Base, NEW t \in Web, NEW r, Quiet(t, r), Holds(r),
           boards' \in [Board -> BoardFile \cup {None}], asked' \in 0 .. MaxAsked
    PROVE  Base'
<1>1. TypeOK'
  BY DEF Base, TypeOK, Quiet
<1>2. \A s \in Web : web'[s] = web[s] \/ web'[s] = r
  BY DEF Quiet, Base, TypeOK
<1>3. \A q : Holds(q) => Holds(q)'
  BY DEF Quiet, Holds
<1>4. Holding'
  BY <1>2 DEF Base, Holding, Holds, Quiet
<1>. QED
  BY <1>1, <1>4 DEF Base

LEMMA AskType == TypeOK /\ Ask => asked' \in 0 .. MaxAsked
BY MaxAskedAssumption DEF TypeOK, Ask

\* Requests that begin, and the deletion of a board up to its commit.
LEMMA PostQuiet ==
    ASSUME Base, NEW t \in Web, NEW u \in User, NEW b \in Board, Post(t, u, b)
    PROVE  \E r : Quiet(t, r) /\ Holds(r) /\ r.pc = "post"
<1>1. [board |-> b, user |-> u, text |-> u] \in Annotation
  BY DEF Annotation
<1>. DEFINE r == Hold("post", b, 0, [board |-> b, user |-> u, text |-> u], {})
<1>2. r \in Request /\ r.pc = "post" /\ r.board = b /\ r.swept = {}
      /\ r.row = [board |-> b, user |-> u, text |-> u]
  BY <1>1, HoldType
<1>3. Holds(r)
  BY <1>1, <1>2 DEF Holds
<1>4. Quiet(t, r)
  BY <1>2 DEF Quiet, Post, Take, history
<1>. QED
  BY <1>2, <1>3, <1>4

LEMMA PatchRow ==
    ASSUME TypeOK, NEW u \in User, NEW a \in DOMAIN notes, Own(u, a)
    PROVE  /\ [notes[a] EXCEPT !.text = u] \in Annotation
           /\ [notes[a] EXCEPT !.text = u].text = u
           /\ Same([notes[a] EXCEPT !.text = u], notes[a])
           /\ notes[a].user = u
<1>1. notes[a] \in Annotation
  BY DEF TypeOK, Own
<1>. QED
  BY <1>1 DEF Annotation, Same, Own

LEMMA PatchQuiet ==
    ASSUME Base, NEW t \in Web, NEW u \in User, NEW a \in DOMAIN notes, Patch(t, u, a)
    PROVE  \E r : /\ Quiet(t, r) /\ Holds(r) /\ r.pc = "patch" /\ r.id = a
                  /\ notes[a] # None /\ Same(r.row, notes[a])
<1>. DEFINE row == [notes[a] EXCEPT !.text = u]
            r == Hold("patch", None, a, row, {})
<1>1. Own(u, a) /\ TypeOK /\ a \in Nat
  BY DEF Patch, Base, TypeOK
<1>2. row \in Annotation /\ row.text = u /\ Same(row, notes[a]) /\ notes[a].user = u
  BY <1>1, PatchRow
<1>. HIDE DEF row
<1>3. /\ r \in Request /\ r.pc = "patch" /\ r.id = a
      /\ r.swept = {} /\ r.row = row
  BY <1>1, <1>2, HoldType
<1>4. Quiet(t, r)
  BY <1>3 DEF Quiet, Patch, Take, history, row
<1>. HIDE DEF r
<1>5. Holds(r)
  BY <1>2, <1>3 DEF Holds, Same
<1>. QED
  BY <1>1, <1>2, <1>3, <1>4, <1>5 DEF Own

LEMMA DeleteQuiet ==
    ASSUME Base, NEW t \in Web, NEW u \in User, NEW a \in DOMAIN notes, Delete(t, u, a)
    PROVE  \E r : Quiet(t, r) /\ Holds(r) /\ r.pc = "delete"
<1>. DEFINE r == Hold("delete", None, a, None, {})
<1>1. a \in Nat
  BY DEF Base, TypeOK
<1>2. r \in Request /\ r.pc = "delete" /\ r.id = a /\ r.swept = {}
  BY <1>1, HoldType
<1>3. Quiet(t, r)
  BY <1>2 DEF Quiet, Delete, Take, history
<1>. HIDE DEF r
<1>4. Holds(r)
  BY <1>2 DEF Holds
<1>. QED
  BY <1>2, <1>3, <1>4

LEMMA DeleteBoardQuiet ==
    ASSUME Base, NEW t \in Web, NEW b \in Board, DeleteBoard(t, b)
    PROVE  \E r : Quiet(t, r) /\ Holds(r) /\ r.pc = "board"
<1>. DEFINE r == Hold("board", b, 0, None, {})
<1>2. r \in Request /\ r.pc = "board" /\ r.board = b /\ r.swept = {}
  BY HoldType
<1>3. Quiet(t, r)
  BY <1>2 DEF Quiet, DeleteBoard, Take, history
<1>. HIDE DEF r
<1>4. Holds(r)
  BY <1>2 DEF Holds
<1>. QED
  BY <1>2, <1>3, <1>4

LEMMA SetStatusQuiet ==
    ASSUME Base, NEW t \in Web, NEW b \in Board, SetStatus(t, b)
    PROVE  \E r : Quiet(t, r) /\ Holds(r) /\ r.pc = "status"
<1>1. boards[b] \in BoardFile
  BY DEF Base, TypeOK, SetStatus
<1>. DEFINE row == [boards[b] EXCEPT !.disabled = ~@]
            r == Hold("status", b, 0, row, {})
<1>2. row \in BoardFile
  BY <1>1 DEF BoardFile
<1>3. web' = [web EXCEPT ![t] = r] /\ UNCHANGED <<notes, gone, raced>>
  BY DEF SetStatus, Take, history
<1>. HIDE DEF row
<1>4. r \in Request /\ r.pc = "status" /\ r.board = b /\ r.swept = {} /\ r.row = row
  BY <1>2, HoldType
<1>. HIDE DEF r
<1>5. Quiet(t, r)
  BY <1>3, <1>4 DEF Quiet
<1>6. Holds(r)
  BY <1>2, <1>4 DEF Holds
<1>. QED
  BY <1>4, <1>5, <1>6

LEMMA SweepQuiet ==
    ASSUME Base, NEW t \in Web, Sweep(t)
    PROVE  \E r : /\ Quiet(t, r) /\ Holds(r) /\ r.pc = "commit" /\ r.swept = On(r.board)
                  /\ \A a \in r.swept : ~Locked(a)
<1>0. web[t].board \in Board
  BY DEF Base, Holding, Holds, Sweep, At
<1>1. PICK b \in Board : b = web[t].board
  BY <1>0
<1>a. On(b) \in SUBSET Nat /\ On(b) \subseteq DOMAIN notes
  BY DEF On, Base, TypeOK
<1>2. PICK S \in SUBSET Nat : S = On(b) /\ S \subseteq DOMAIN notes
  BY <1>a
<1>. DEFINE r == Hold("commit", b, 0, None, S)
<1>3. r \in Request /\ r.pc = "commit" /\ r.board = b /\ r.swept = S
  BY HoldType
<1>4. Quiet(t, r)
  BY <1>1, <1>2, <1>3 DEF Quiet, Sweep, history
<1>. HIDE DEF r
<1>5. Holds(r)
  BY <1>1, <1>2, <1>3 DEF Holds
<1>6. \A a \in S : ~Locked(a)
  BY <1>1, <1>2 DEF Sweep
<1>. QED
  BY <1>1, <1>2, <1>3, <1>4, <1>5, <1>6

-----------------------------------------------------------------------------
(* Quiet steps keep the invariant. *)

\* A PATCH that begins holds the row as it is, and a transaction deletes rows that are
\* there and that nobody else has deleted.
Fresh(r) ==
    /\ r.pc = "patch" => notes[r.id] # None /\ Same(r.row, notes[r.id])
    /\ r.pc = "commit" => r.swept = On(r.board) /\ \A a \in r.swept : ~Locked(a)

LEMMA QuietKeeps ==
    ASSUME Inv, Base', NEW t \in Web, NEW r, Quiet(t, r), Holds(r), Fresh(r)
    PROVE  (AgreesWithRow /\ AgreesWithOthers /\ Noticed /\ Authored /\ Swept /\ GoneForGood)'
<1>1. web'[t] = r /\ \A s \in Web \ {t} : web'[s] = web[s]
  BY DEF Quiet, Inv, Base, TypeOK
<1>2. AgreesWithRow'
  BY <1>1 DEF Inv, AgreesWithRow, Patching, Same, Fresh, Quiet
<1>3. AgreesWithOthers'
  <2>. SUFFICES ASSUME NEW p \in Web, NEW q \in Web, Patching(p)', Patching(q)',
                       web'[p].id = web'[q].id
                PROVE  Same(web'[p].row, web'[q].row)
    BY DEF AgreesWithOthers, Same
  <2>1. CASE p # t /\ q # t
    BY <1>1, <2>1 DEF Inv, AgreesWithOthers, Patching, Same
  <2>2. CASE p = t /\ q # t
    BY <1>1, <2>2 DEF Inv, AgreesWithRow, Patching, Same, Fresh
  <2>3. CASE p # t /\ q = t
    BY <1>1, <2>3 DEF Inv, AgreesWithRow, Patching, Same, Fresh
  <2>4. CASE p = t /\ q = t
    BY <2>4 DEF Same
  <2>. QED
    BY <2>1, <2>2, <2>3, <2>4
<1>4. Noticed'
  <2>1. Patching(t)' => r.id \in DOMAIN notes /\ notes[r.id] # None
    BY <1>1 DEF Patching, Fresh, Holds
  <2>2. Patching(t)' => r.id \notin gone \ raced
    BY <2>1 DEF Inv, GoneForGood
  <2>. QED
    BY <1>1, <2>2 DEF Inv, Noticed, Patching, Quiet
<1>5. Authored' /\ GoneForGood'
  BY DEF Inv, Authored, GoneForGood, Quiet
<1>6. Swept'
  <2>1. \A b : On(b)' = On(b)
    BY DEF On, Quiet
  <2>2. \A s \in Web \ {t} : Deleting(s)' => Deleting(s) /\ web'[s].swept = web[s].swept
                                            /\ web'[s].board = web[s].board
    BY <1>1 DEF Deleting
  <2>3. Deleting(t)' => web'[t].swept = On(web'[t].board)
                        /\ \A s \in Web : Deleting(s) => web'[t].swept \cap web[s].swept = {}
    BY <1>1 DEF Deleting, Fresh, Locked, At
  <2>4. \A s \in Web : Deleting(s)' => web'[s].swept \subseteq On(web'[s].board)
    BY <2>2, <2>3 DEF Inv, Swept
  <2>5. \A p, q \in Web : Deleting(p)' /\ Deleting(q)' /\ p # q =>
            web'[p].swept \cap web'[q].swept = {}
    BY <2>2, <2>3 DEF Inv, Swept
  <2>. QED
    BY <2>1, <2>4, <2>5 DEF Swept, On
<1>. QED
  BY <1>2, <1>3, <1>4, <1>5, <1>6

\* What NoOrphans needs: no board goes.
LEMMA QuietBoards ==
    ASSUME Inv, Base', NEW t \in Web, NEW r, Quiet(t, r),
           \A b \in Board : boards[b] # None => boards'[b] # None
    PROVE  NoOrphans'
<1>. SUFFICES ASSUME NEW a \in DOMAIN notes, notes[a] # None
              PROVE  boards'[notes[a].board] # None
  BY DEF NoOrphans, Quiet
<1>1. notes[a].board \in Board
  BY DEF Inv, Base, TypeOK, Annotation
<1>. QED
  BY <1>1 DEF Inv, NoOrphans

-----------------------------------------------------------------------------
(* Steps that write annotations end the request of their thread. *)

Ends(t) == web' = [web EXCEPT ![t] = Idle] /\ UNCHANGED asked

\* The thread that ends holds nothing; the ids of the others stay in range.
LEMMA EndsHolds ==
    ASSUME Base, NEW t \in Web, Ends(t), DOMAIN notes \subseteq DOMAIN notes'
    PROVE  /\ web' \in [Web -> Request] /\ Holding'
           /\ asked' \in 0 .. MaxAsked
           /\ web'[t].pc = "idle"
           /\ \A s \in Web \ {t} : web'[s] = web[s]
<1>1. web' \in [Web -> Request] /\ asked' \in 0 .. MaxAsked
  BY IdleHolds DEF Base, TypeOK, Ends
<1>2. web'[t] = Idle /\ \A s \in Web \ {t} : web'[s] = web[s]
  BY DEF Base, TypeOK, Ends
<1>3. \A s \in Web \ {t} : Holds(web[s])'
  BY <1>2 DEF Base, Holding, Holds
<1>4. Holds(web[t])'
  BY <1>2, IdleHolds DEF Holds
<1>5. Holding'
  BY <1>3, <1>4 DEF Holding
<1>. QED
  BY <1>1, <1>2, <1>5, IdleHolds

\* Of the invariant, what is about threads: rows may change as long as PATCHes agree
\* with them, and those that go are noted.
LEMMA EndsKeeps ==
    ASSUME Inv, Base', NEW t \in Web, Ends(t), DOMAIN notes \subseteq DOMAIN notes',
           \A s \in Web \ {t} : Deleting(s) => \A a \in web[s].swept : notes'[a] = notes[a],
           \A s \in Web \ {t} : Patching(s) /\ notes'[web[s].id] # None =>
                Same(web[s].row, notes'[web[s].id]),
           \A s \in Web \ {t} : Patching(s) /\ web[s].id \in gone' => web[s].id \in raced'
    PROVE  (AgreesWithRow /\ AgreesWithOthers /\ Noticed /\ Swept)'
<1>1. web'[t].pc = "idle" /\ \A s \in Web \ {t} : web'[s] = web[s]
  BY EndsHolds DEF Inv
<1>2. \A s \in Web : Patching(s)' => s # t /\ web'[s] = web[s] /\ Patching(s)
  BY <1>1 DEF Patching
<1>3. AgreesWithRow'
  BY <1>2 DEF AgreesWithRow, Same
<1>4. AgreesWithOthers'
  BY <1>2 DEF Inv, AgreesWithOthers, Same
<1>5. Noticed'
  BY <1>2 DEF Noticed
<1>6. Swept'
  <2>1. \A s \in Web : Deleting(s)' => s # t /\ web'[s] = web[s] /\ Deleting(s)
    BY <1>1 DEF Deleting
  <2>2. ASSUME NEW s \in Web, Deleting(s)' PROVE (web[s].swept \subseteq On(web[s].board))'
    <3>1. s # t /\ web'[s] = web[s] /\ Deleting(s)
      BY <2>1, <2>2
    <3>2. \A a \in web[s].swept : a \in DOMAIN notes /\ notes'[a] = notes[a] /\ notes[a] # None
                                  /\ notes[a].board = web[s].board
      BY <3>1 DEF Inv, Swept, On
    <3>. QED
      BY <3>1, <3>2 DEF On
  <2>3. \A p, q \in Web : Deleting(p)' /\ Deleting(q)' /\ p # q =>
            web'[p].swept \cap web'[q].swept = {}
    BY <2>1 DEF Inv, Swept
  <2>. QED
    BY <2>2, <2>3 DEF Swept
<1>. QED
  BY <1>3, <1>4, <1>5, <1>6

LEMMA PostInsertInv == ASSUME Inv, NEW t \in Web, PostInsert(t) PROVE Inv'
<1>. DEFINE row == web[t].row
<1>1. row \in Annotation /\ row.text = row.user /\ row.board = web[t].board
      /\ web[t].board \in Board
  BY DEF Inv, Base, Holding, Holds, PostInsert, At
<1>2. Ends(t) /\ UNCHANGED <<boards, history>>
  BY DEF PostInsert, Done, Ends
<1>3. notes \in Seq(Annotation \cup {None})
  BY DEF Inv, Base, TypeOK
<1>. HIDE DEF row
<1>4. \/ notes' = notes
      \/ notes' = Append(notes, row) /\ boards[web[t].board] # None
  BY DEF PostInsert, row
<1>5. /\ notes' \in Seq(Annotation \cup {None})
      /\ DOMAIN notes \subseteq DOMAIN notes'
      /\ \A a \in DOMAIN notes : notes'[a] = notes[a]
      /\ \A a \in DOMAIN notes' \ DOMAIN notes :
            notes'[a] = row /\ boards[web[t].board] # None
  <2>1. CASE notes' = notes
    BY <1>3, <2>1
  <2>2. CASE notes' = Append(notes, row) /\ boards[web[t].board] # None
    BY <1>1, <1>3, <2>2
  <2>. QED
    BY <1>4, <2>1, <2>2
<1>6. Base'
  BY <1>2, <1>5, EndsHolds DEF Inv, Base, TypeOK, history
<1>7. (AgreesWithRow /\ AgreesWithOthers /\ Noticed /\ Swept)'
  <2>1. \A s \in Web : Patching(s) => web[s].id \in DOMAIN notes
    BY DEF Inv, Base, Holding, Holds, Patching
  <2>2. \A s \in Web \ {t} : Patching(s) /\ notes'[web[s].id] # None =>
                Same(web[s].row, notes'[web[s].id])
    BY <1>5, <2>1 DEF Inv, AgreesWithRow
  <2>3. \A s \in Web \ {t} : Patching(s) /\ web[s].id \in gone' => web[s].id \in raced'
    BY <1>2 DEF Inv, Noticed, history
  <2>4. \A s \in Web \ {t} : Deleting(s) => \A a \in web[s].swept : notes'[a] = notes[a]
    BY <1>5 DEF Inv, Swept, On
  <2>. QED
    BY <1>2, <1>5, <1>6, <2>2, <2>3, <2>4, EndsKeeps
<1>8. Authored'
  BY <1>1, <1>5 DEF Inv, Authored
<1>9. NoOrphans'
  BY <1>1, <1>2, <1>5 DEF Inv, NoOrphans
<1>10. GoneForGood'
  BY <1>2, <1>5 DEF Inv, Base, TypeOK, GoneForGood, history
<1>. QED
  BY <1>6, <1>7, <1>8, <1>9, <1>10 DEF Inv

LEMMA PatchSaveInv == ASSUME Inv, NEW t \in Web, PatchSave(t) PROVE Inv'
<1>. DEFINE row == web[t].row
            id == web[t].id
<1>1. row \in Annotation /\ row.text = row.user /\ id \in DOMAIN notes /\ Patching(t)
  BY DEF Inv, Base, Holding, Holds, PatchSave, At, Patching
<1>2. Ends(t) /\ UNCHANGED <<boards, history>>
  BY DEF PatchSave, Done, Ends
<1>3. notes \in Seq(Annotation \cup {None})
  BY DEF Inv, Base, TypeOK
<1>4. notes[id] # None => Same(row, notes[id])
  BY <1>1 DEF Inv, AgreesWithRow
<1>5. \A s \in Web : Patching(s) /\ web[s].id = id => Same(web[s].row, row)
  BY <1>1 DEF Inv, AgreesWithOthers
<1>6. id \in gone => id \in raced
  BY <1>1 DEF Inv, Noticed
<1>a. \/ notes' = notes
      \/ /\ notes' = [notes EXCEPT ![id] = row]
         /\ notes[id] # None \/ boards[row.board] # None
  BY DEF PatchSave
<1>b. ~Locked(id)
  BY DEF PatchSave
<1>. HIDE DEF row, id
<1>7. notes[id] # None => boards[notes[id].board] # None
  BY <1>1 DEF Inv, NoOrphans
<1>8. /\ notes' \in Seq(Annotation \cup {None})
      /\ DOMAIN notes' = DOMAIN notes
      /\ \A a \in DOMAIN notes : a # id => notes'[a] = notes[a]
      /\ notes'[id] = notes[id] \/ (notes'[id] = row /\ boards[row.board] # None)
  <2>1. CASE notes' = notes
    BY <1>3, <2>1
  <2>2. CASE /\ notes' = [notes EXCEPT ![id] = row]
             /\ notes[id] # None \/ boards[row.board] # None
    BY <1>1, <1>3, <1>4, <1>7, <2>2 DEF Same
  <2>. QED
    BY <1>a, <2>1, <2>2
<1>9. Base'
  BY <1>2, <1>8, EndsHolds DEF Inv, Base, TypeOK, history
<1>10. (AgreesWithRow /\ AgreesWithOthers /\ Noticed /\ Swept)'
  <2>1. \A s \in Web : Patching(s) => web[s].id \in DOMAIN notes
    BY DEF Inv, Base, Holding, Holds, Patching
  <2>2. ASSUME NEW s \in Web \ {t}, Patching(s), notes'[web[s].id] # None
        PROVE  Same(web[s].row, notes'[web[s].id])
    <3>1. CASE notes'[web[s].id] = notes[web[s].id]
      BY <2>2, <3>1 DEF Inv, AgreesWithRow
    <3>2. CASE web[s].id = id /\ notes'[id] = row
      BY <1>5, <2>2, <3>2
    <3>. QED
      BY <1>8, <2>1, <2>2, <3>1, <3>2
  <2>3. \A s \in Web \ {t} : Patching(s) /\ web[s].id \in gone' => web[s].id \in raced'
    BY <1>2 DEF Inv, Noticed, history
  <2>4. \A s \in Web \ {t} : Deleting(s) => \A a \in web[s].swept : notes'[a] = notes[a]
    BY <1>8, <1>b DEF Inv, Swept, On, Deleting, Locked, At
  <2>. QED
    BY <1>2, <1>8, <1>9, <2>2, <2>3, <2>4, EndsKeeps
<1>11. Authored'
  BY <1>1, <1>8 DEF Inv, Authored
<1>12. NoOrphans'
  BY <1>1, <1>2, <1>8 DEF Inv, NoOrphans
<1>13. GoneForGood'
  BY <1>2, <1>6, <1>8 DEF Inv, Base, TypeOK, GoneForGood, history
<1>. QED
  BY <1>9, <1>10, <1>11, <1>12, <1>13 DEF Inv

\* Deleting rows: those of S are gone, and noted.
Removes(S) ==
    /\ DOMAIN notes' = DOMAIN notes
    /\ \A a \in DOMAIN notes : notes'[a] = IF a \in S THEN None ELSE notes[a]
    /\ notes' \in Seq(Annotation \cup {None})
    /\ gone' = gone \cup S
    /\ \A a \in S : (\E s \in Web : Patching(s) /\ web[s].id = a) => a \in raced'
    /\ raced \subseteq raced' /\ raced' \subseteq raced \cup S

LEMMA RemovesKeeps ==
    ASSUME Inv, NEW t \in Web, Ends(t), NEW S \in SUBSET DOMAIN notes, Removes(S),
           boards' \in [Board -> BoardFile \cup {None}],
           \A s \in Web \ {t} : Deleting(s) => web[s].swept \cap S = {}
    PROVE  /\ Base'
           /\ (AgreesWithRow /\ AgreesWithOthers /\ Noticed /\ Authored /\ Swept /\ GoneForGood)'
<1>1. Base'
  BY EndsHolds DEF Inv, Base, TypeOK, Removes
<1>2. \A s \in Web : Patching(s) => web[s].id \in DOMAIN notes
  BY DEF Inv, Base, Holding, Holds, Patching
<1>3. \A s \in Web \ {t} : Patching(s) /\ notes'[web[s].id] # None =>
            Same(web[s].row, notes'[web[s].id])
  BY <1>2 DEF Inv, AgreesWithRow, Removes
<1>4. \A s \in Web \ {t} : Patching(s) /\ web[s].id \in gone' => web[s].id \in raced'
  BY DEF Inv, Noticed, Removes
<1>8. \A s \in Web \ {t} : Deleting(s) => \A a \in web[s].swept : notes'[a] = notes[a]
  BY DEF Inv, Swept, On, Removes
<1>5. (AgreesWithRow /\ AgreesWithOthers /\ Noticed /\ Swept)'
  BY <1>1, <1>3, <1>4, <1>8, EndsKeeps DEF Removes
<1>6. Authored'
  BY DEF Inv, Authored, Removes
<1>7. GoneForGood'
  BY DEF Inv, Base, TypeOK, GoneForGood, Removes
<1>. QED
  BY <1>1, <1>5, <1>6, <1>7

LEMMA NoteRaced ==
    ASSUME NEW S, Note(S)
    PROVE  /\ gone' = gone \cup S
           /\ \A a \in S : (\E s \in Web : Patching(s) /\ web[s].id = a) => a \in raced'
           /\ raced \subseteq raced' /\ raced' \subseteq raced \cup S
BY DEF Note, Patching, At

LEMMA DeleteRowInv == ASSUME Inv, NEW t \in Web, DeleteRow(t) PROVE Inv'
<1>. DEFINE id == web[t].id
<1>1. id \in DOMAIN notes
  BY DEF Inv, Base, Holding, Holds, DeleteRow, At
<1>2. Ends(t) /\ UNCHANGED boards /\ Note({id}) /\ ~Locked(id)
      /\ notes' = [notes EXCEPT ![id] = None]
  BY DEF DeleteRow, Done, Ends
<1>3. notes \in Seq(Annotation \cup {None})
  BY DEF Inv, Base, TypeOK
<1>. HIDE DEF id
<1>4. Removes({id})
  BY <1>1, <1>2, <1>3, NoteRaced DEF Removes
<1>7. \A s \in Web \ {t} : Deleting(s) => web[s].swept \cap {id} = {}
  BY <1>2 DEF Deleting, Locked, At
<1>5. /\ Base'
      /\ (AgreesWithRow /\ AgreesWithOthers /\ Noticed /\ Authored /\ Swept /\ GoneForGood)'
  BY <1>1, <1>2, <1>4, <1>7, RemovesKeeps DEF Inv, Base, TypeOK
<1>6. NoOrphans'
  BY <1>2, <1>4 DEF Inv, NoOrphans, Removes
<1>. QED
  BY <1>5, <1>6 DEF Inv

LEMMA CommitInv == ASSUME Inv, NEW t \in Web, Commit(t) PROVE Inv'
<1>1. web[t].board \in Board /\ web[t].swept \subseteq DOMAIN notes
  BY DEF Inv, Base, Holding, Holds, Commit, At
<1>2. PICK b \in Board : b = web[t].board
  BY <1>1
<1>3. PICK S \in SUBSET DOMAIN notes : S = web[t].swept
  BY <1>1
<1>4. Ends(t) /\ Deleting(t)
  BY DEF Commit, Done, Ends, At, Deleting
<1>5. \A s \in Web \ {t} : Deleting(s) => web[s].swept \cap S = {}
  BY <1>3, <1>4 DEF Inv, Swept
<1>t. boards \in [Board -> BoardFile \cup {None}] /\ notes \in Seq(Annotation \cup {None})
  BY DEF Inv, Base, TypeOK
<1>6. CASE On(b) \subseteq S
  <2>1. /\ boards' = [boards EXCEPT ![b] = None]
        /\ notes' = [a \in DOMAIN notes |-> IF a \in S THEN None ELSE notes[a]]
        /\ Note(S)
    BY <1>2, <1>3, <1>6 DEF Commit
  <2>2. Removes(S)
    BY <1>t, <2>1, NoteRaced DEF Removes
  <2>3. boards' \in [Board -> BoardFile \cup {None}]
    BY <1>t, <2>1
  <2>4. /\ Base'
        /\ (AgreesWithRow /\ AgreesWithOthers /\ Noticed /\ Authored /\ Swept /\ GoneForGood)'
    BY <1>4, <1>5, <2>2, <2>3, RemovesKeeps
  <2>5. NoOrphans'
    <3>. SUFFICES ASSUME NEW a \in DOMAIN notes, notes'[a] # None
                  PROVE  boards'[notes'[a].board] # None
      BY <2>2 DEF NoOrphans, Removes
    <3>1. a \notin S /\ notes'[a] = notes[a] /\ notes[a] # None
      BY <2>2 DEF Removes
    <3>2. notes[a].board # b
      BY <1>6, <3>1 DEF On
    <3>3. notes[a].board \in Board
      BY <1>t, <3>1 DEF Annotation
    <3>. QED
      BY <1>t, <2>1, <3>1, <3>2, <3>3 DEF Inv, NoOrphans
  <2>. QED
    BY <2>4, <2>5 DEF Inv
<1>7. CASE ~(On(b) \subseteq S)
  <2>1. UNCHANGED <<boards, notes, gone, raced>>
    BY <1>2, <1>3, <1>7 DEF Commit, history
  <2>2. Removes({})
    BY <1>t, <2>1 DEF Removes
  <2>3. /\ Base'
        /\ (AgreesWithRow /\ AgreesWithOthers /\ Noticed /\ Authored /\ Swept /\ GoneForGood)'
    BY <1>4, <1>t, <2>1, <2>2, RemovesKeeps
  <2>4. NoOrphans'
    BY <2>1 DEF Inv, NoOrphans
  <2>. QED
    BY <2>3, <2>4 DEF Inv
<1>. QED
  BY <1>6, <1>7

-----------------------------------------------------------------------------
(* Every step keeps the invariant. *)

\* Quiet steps together: what each of them was shown to hold, and what it does to
\* the boards.
LEMMA QuietInv ==
    ASSUME Inv, NEW t \in Web, NEW r, Quiet(t, r), Holds(r), Fresh(r),
           boards' \in [Board -> BoardFile \cup {None}], asked' \in 0 .. MaxAsked,
           \A b \in Board : boards[b] # None => boards'[b] # None
    PROVE  Inv'
<1>1. Base'
  BY QuietHolds DEF Inv
<1>. QED
  BY <1>1, QuietKeeps, QuietBoards DEF Inv

LEMMA BeginInv ==
    ASSUME Inv, NEW t \in Web, Begin(t)
    PROVE  Inv'
<1>1. PICK r : Quiet(t, r) /\ Holds(r) /\ Fresh(r)
  <2>1. ASSUME NEW u \in User, NEW b \in Board, Post(t, u, b)
        PROVE  \E r : Quiet(t, r) /\ Holds(r) /\ Fresh(r)
    BY <2>1, PostQuiet DEF Inv, Fresh
  <2>2. ASSUME NEW u \in User, NEW a \in DOMAIN notes, Patch(t, u, a)
        PROVE  \E r : Quiet(t, r) /\ Holds(r) /\ Fresh(r)
    BY <2>2, PatchQuiet DEF Inv, Fresh
  <2>3. ASSUME NEW u \in User, NEW a \in DOMAIN notes, Delete(t, u, a)
        PROVE  \E r : Quiet(t, r) /\ Holds(r) /\ Fresh(r)
    BY <2>3, DeleteQuiet DEF Inv, Fresh
  <2>4. ASSUME NEW b \in Board, DeleteBoard(t, b)
        PROVE  \E r : Quiet(t, r) /\ Holds(r) /\ Fresh(r)
    BY <2>4, DeleteBoardQuiet DEF Inv, Fresh
  <2>5. ASSUME NEW b \in Board, SetStatus(t, b)
        PROVE  \E r : Quiet(t, r) /\ Holds(r) /\ Fresh(r)
    BY <2>5, SetStatusQuiet DEF Inv, Fresh
  <2>. QED
    BY <2>1, <2>2, <2>3, <2>4, <2>5 DEF Begin
<1>2. UNCHANGED boards /\ Ask
  BY DEF Begin, Post, Patch, Delete, SetStatus, DeleteBoard
<1>3. asked' \in 0 .. MaxAsked /\ boards' \in [Board -> BoardFile \cup {None}]
  BY <1>2, AskType DEF Inv, Base, TypeOK
<1>. QED
  BY <1>1, <1>2, <1>3, QuietInv

LEMMA SweepInv == ASSUME Inv, NEW t \in Web, Sweep(t) PROVE Inv'
<1>1. PICK r : /\ Quiet(t, r) /\ Holds(r) /\ r.pc = "commit" /\ r.swept = On(r.board)
               /\ \A a \in r.swept : ~Locked(a)
  BY SweepQuiet DEF Inv
<1>2. UNCHANGED <<boards, asked>> /\ asked \in 0 .. MaxAsked
      /\ boards \in [Board -> BoardFile \cup {None}]
  BY DEF Inv, Base, TypeOK, Sweep
<1>. QED
  BY <1>1, <1>2, QuietInv DEF Fresh

\* A thread that has written a board, or stops, holds nothing.
LEMMA IdleQuiet ==
    ASSUME NEW t \in Web, Done(t), UNCHANGED <<notes, history>>
    PROVE  Quiet(t, Idle) /\ Holds(Idle) /\ Fresh(Idle)
BY IdleHolds DEF Quiet, Done, history, Holds, Fresh

LEMMA SetStatusSaveInv == ASSUME Inv, NEW t \in Web, SetStatusSave(t) PROVE Inv'
<1>1. web[t].board \in Board /\ web[t].row \in BoardFile
  BY DEF SetStatusSave, At, Inv, Base, Holding, Holds
<1>2. boards' = [boards EXCEPT ![web[t].board] = web[t].row] /\ asked' = asked
  BY DEF SetStatusSave
<1>3. boards \in [Board -> BoardFile \cup {None}] /\ asked \in 0 .. MaxAsked
  BY DEF Inv, Base, TypeOK
<1>4. /\ boards' \in [Board -> BoardFile \cup {None}]
      /\ \A b \in Board : boards[b] # None => boards'[b] # None
  BY <1>1, <1>2, <1>3, NoneIsNoRow
<1>5. Quiet(t, Idle) /\ Holds(Idle) /\ Fresh(Idle)
  BY IdleQuiet DEF SetStatusSave
<1>. QED
  BY <1>2, <1>3, <1>4, <1>5, QuietInv

LEMMA StopInv == ASSUME Inv, NEW t \in Web, Stop(t) PROVE Inv'
<1>1. Quiet(t, Idle) /\ Holds(Idle) /\ Fresh(Idle) /\ UNCHANGED <<boards, asked>>
  BY IdleQuiet DEF Stop
<1>2. boards \in [Board -> BoardFile \cup {None}] /\ asked \in 0 .. MaxAsked
  BY DEF Inv, Base, TypeOK
<1>. QED
  BY <1>1, <1>2, QuietInv

LEMMA StutterInv == ASSUME Inv, UNCHANGED vars PROVE Inv'
<1>1. UNCHANGED <<boards, notes, web, asked, gone, raced>>
  BY DEF vars, history
<1>2. Base' /\ NoOrphans'
  BY <1>1 DEF Inv, Base, TypeOK, Holding, Holds, NoOrphans
<1>3. (AgreesWithRow /\ AgreesWithOthers /\ Noticed /\ Authored /\ Swept /\ GoneForGood)'
  BY <1>1 DEF Inv, AgreesWithRow, AgreesWithOthers, Noticed, Authored, GoneForGood,
              Patching, Same, Swept, Deleting, On
<1>. QED
  BY <1>2, <1>3 DEF Inv

\* Without annotations and requests there is nothing to violate.
THEOREM InitInv == Init => Inv
<1>. SUFFICES ASSUME Init PROVE Inv
  OBVIOUS
<1>1. TypeOK
  BY IdleHolds, MaxAskedAssumption DEF Init, TypeOK, BoardFile
<1>2. \A t \in Web : web[t].pc = "idle" /\ web[t].swept = {}
  BY IdleHolds DEF Init
<1>3. Holding
  BY <1>2 DEF Holding, Holds
<1>. QED
  BY <1>1, <1>2, <1>3 DEF Init, Inv, Base, AgreesWithRow, AgreesWithOthers, Noticed,
        Authored, Swept, NoOrphans, GoneForGood, Patching, Deleting

\* Each action of a request, of an admin and the stutter keep it.
THEOREM NextInv == Inv /\ [Next]_vars => Inv'
<1>. SUFFICES ASSUME Inv, [Next]_vars PROVE Inv'
  OBVIOUS
<1>1. ASSUME NEW t \in Web, WebStep(t) PROVE Inv'
  BY <1>1, PostInsertInv, PatchSaveInv, DeleteRowInv, SetStatusSaveInv, SweepInv, CommitInv,
     StopInv DEF WebStep
<1>. QED
  BY <1>1, BeginInv, StutterInv DEF Next

\* The inductive invariant holds throughout.
THEOREM AnnotationsInvariant == Spec => []Inv
BY InitInv, NextInv, PTL DEF Spec

\* Rows, requests and histories keep their types.
THEOREM AnnotationTypes == Spec => []TypeOK
<1>1. Inv => TypeOK
  BY DEF Inv, Base
<1>. QED
  BY <1>1, AnnotationsInvariant, PTL

\* No annotation without its board, whatever overlaps with a board's deletion.
THEOREM AnnotationsHaveBoards == Spec => []NoOrphans
<1>1. Inv => NoOrphans
  BY DEF Inv
<1>. QED
  BY <1>1, AnnotationsInvariant, PTL

\* A deleted annotation returns only by a PATCH that had loaded it.
THEOREM DeletedStayDeleted == Spec => []GoneForGood
<1>1. Inv => GoneForGood
  BY DEF Inv
<1>. QED
  BY <1>1, AnnotationsInvariant, PTL

\* What a step that writes no annotations is.
LEMMA NotesStep ==
    ASSUME [Next]_vars
    PROVE  \/ UNCHANGED notes
           \/ \E t \in Web : PostInsert(t) \/ PatchSave(t) \/ DeleteRow(t) \/ Commit(t)
<1>1. ASSUME NEW t \in Web, Begin(t) PROVE UNCHANGED notes
  BY <1>1 DEF Begin, Post, Patch, Delete, SetStatus, DeleteBoard
<1>2. ASSUME NEW t \in Web, SetStatusSave(t) \/ Sweep(t) \/ Stop(t) PROVE UNCHANGED notes
  BY <1>2 DEF SetStatusSave, Sweep, Stop
<1>. QED
  BY <1>1, <1>2 DEF Next, WebStep, vars

\* Rows go one by one, by their owner's wish, or with their board.
LEMMA GoesWhole ==
    ASSUME Inv, [Next]_vars, NEW a \in DOMAIN notes, notes[a] # None, notes'[a] = None
    PROVE  \/ boards'[notes[a].board] = None
           \/ \E t \in Web : At(t, "delete") /\ web[t].id = a /\ ~At(t, "delete")'
<1>t. notes \in Seq(Annotation \cup {None}) /\ \A t \in Web : web[t] \in Request
      /\ boards \in [Board -> BoardFile \cup {None}] /\ web \in [Web -> Request]
  BY DEF Inv, Base, TypeOK
<1>1. ASSUME NEW t \in Web, PostInsert(t) PROVE FALSE
  BY <1>1, <1>t DEF PostInsert
<1>2. ASSUME NEW t \in Web, PatchSave(t) PROVE FALSE
  <2>1. web[t].row \in Annotation
    BY <1>2 DEF Inv, Base, Holding, Holds, PatchSave, At
  <2>. QED
    BY <1>2, <1>t, <2>1, NoneIsNoRow DEF PatchSave
<1>3. ASSUME NEW t \in Web, DeleteRow(t)
      PROVE  At(t, "delete") /\ web[t].id = a /\ ~At(t, "delete")'
  <2>1. web[t].id = a /\ At(t, "delete")
    BY <1>3, <1>t DEF DeleteRow
  <2>2. web'[t] = Idle
    BY <1>3, <1>t DEF DeleteRow, Done
  <2>. QED
    BY <2>1, <2>2, IdleHolds DEF At
<1>4. ASSUME NEW t \in Web, Commit(t) PROVE boards'[notes[a].board] = None
  <2>1. a \in web[t].swept /\ boards' = [boards EXCEPT ![web[t].board] = None]
    BY <1>4, <1>t DEF Commit
  <2>2. notes[a].board = web[t].board /\ web[t].board \in Board
    BY <1>4, <2>1 DEF Inv, Base, Holding, Holds, Swept, Deleting, On, Commit, At
  <2>. QED
    BY <1>t, <2>1, <2>2
<1>. QED
  BY <1>1, <1>2, <1>3, <1>4, NotesStep

\* Whatever stops or foils the deletion of a board, it costs annotations only together
\* with the board.
THEOREM CascadeIsWhole == Spec => CascadeIsAll
<1>1. Inv /\ [Next]_vars =>
        [\A a \in DOMAIN notes : notes[a] # None /\ notes'[a] = None =>
            \/ boards'[notes[a].board] = None
            \/ \E t \in Web : At(t, "delete") /\ web[t].id = a /\ ~At(t, "delete")']_vars
  BY GoesWhole
<1>. QED
  BY <1>1, AnnotationsInvariant, PTL DEF Spec, CascadeIsAll

\* Only PATCH changes a row that stays, and it saves a row of the same owner.
LEMMA OwnersStay ==
    ASSUME Inv, [Next]_vars, NEW a \in DOMAIN notes, notes[a] # None, notes'[a] # None
    PROVE  notes'[a].user = notes[a].user
<1>1. ASSUME NEW t \in Web, PostInsert(t) PROVE notes'[a] = notes[a]
  BY <1>1 DEF PostInsert, Inv, Base, TypeOK
<1>2. ASSUME NEW t \in Web, PatchSave(t) PROVE notes'[a].user = notes[a].user
  <2>1. notes[web[t].id] # None => Same(web[t].row, notes[web[t].id])
    BY <1>2 DEF Inv, AgreesWithRow, PatchSave, At, Patching
  <2>. QED
    BY <1>2, <2>1 DEF PatchSave, Same, Inv, Base, TypeOK
<1>3. ASSUME NEW t \in Web, DeleteRow(t) \/ Commit(t) PROVE notes'[a] = notes[a]
  BY <1>3 DEF DeleteRow, Commit, Inv, Base, TypeOK
<1>4. CASE UNCHANGED notes
  BY <1>4
<1>. QED
  BY <1>1, <1>2, <1>3, <1>4, NotesStep

\* What an annotation says was written by its owner, who stays its owner.
THEOREM Private == Spec => PrivatePerUser
<1>1. Inv /\ Inv' /\ [Next]_vars =>
        [\A a \in DOMAIN notes' : notes'[a] # None =>
            /\ notes'[a].text = notes'[a].user
            /\ a \in DOMAIN notes /\ notes[a] # None => notes'[a].user = notes[a].user]_vars
  BY OwnersStay DEF Inv, Authored
<1>. QED
  BY <1>1, AnnotationsInvariant, PTL DEF Spec, PrivatePerUser
=============================================================================
