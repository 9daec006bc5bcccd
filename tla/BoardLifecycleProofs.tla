------------------------- MODULE BoardLifecycleProofs -------------------------
(***************************************************************************)
(* Without PATCH and without processes that die, BoardPipeline implements  *)
(* BoardLifecycle; hence no board is stranded.  Under the same assumption  *)
(* no view is lost or counted twice.  Without PATCH, whatever dies,        *)
(* deletions are final.                                                    *)
(***************************************************************************)
EXTENDS BoardProofs

NoPatches == Limit["patch"] = 0
Undisturbed == NoPatches /\ Limit["crash"] = 0

\* No thread is in a PATCH, and no parse is queued for a key before it is
\* handed out.
CleanInv ==
    /\ TypeInv
    /\ \A p \in Web : web[p].pc # "patch"
    /\ \A b \in Board : b >= nextPk => \A n \in 0 .. ParseRetries : parseQ[b][n] = 0

-----------------------------------------------------------------------------
(* What a step of the lifecycle looks like in the pipeline. *)

LStep == [Lifecycle!LifecycleNext]_(Lifecycle!lifecycleVars)

SameStatus(b) == StatusOf(b)' = StatusOf(b)
SameOwed(b) == Owed(b)' <=> Owed(b)

\* Nothing but board b changes; b becomes st, or keeps its status.
Only(b) == \A c \in Board \ {b} : SameStatus(c) /\ SameOwed(c)

LEMMA LStutter == ASSUME \A b \in Board : SameStatus(b) /\ SameOwed(b) PROVE LStep
  <1>1. [b \in Board |-> StatusOf(b)]' = [b \in Board |-> StatusOf(b)]
    BY DEF SameStatus
  <1>2. {b \in Board : Owed(b)}' = {b \in Board : Owed(b)}
    BY DEF SameOwed
  <1> QED BY <1>1, <1>2 DEF LStep, Lifecycle!lifecycleVars

LEMMA LBecome ==
  ASSUME NEW b \in Board, Only(b)
  PROVE  Lifecycle!Become(b, StatusOf(b)')
  BY DEF Only, SameStatus, Lifecycle!Become

LEMMA LOwed ==
  ASSUME NEW b \in Board, Only(b)
  PROVE  /\ Owed(b)' => {c \in Board : Owed(c)}' = {c \in Board : Owed(c)} \cup {b}
         /\ ~Owed(b)' => {c \in Board : Owed(c)}' = {c \in Board : Owed(c)} \ {b}
         /\ SameOwed(b) => {c \in Board : Owed(c)}' = {c \in Board : Owed(c)}
  BY DEF Only, SameOwed

LEMMA LCreate ==
  ASSUME NEW b \in Board, Only(b),
         StatusOf(b) = "absent" \/ StatusOf(b) \in Status,
         StatusOf(b)' = "pending", Owed(b)'
  PROVE  LStep
  <1>1. Lifecycle!Become(b, "pending")
    BY LBecome
  <1>2. {c \in Board : Owed(c)}' = {c \in Board : Owed(c)} \cup {b}
    BY LOwed
  <1> QED BY <1>1, <1>2
      DEF LStep, Lifecycle!LifecycleNext, Lifecycle!Create, Lifecycle!Requeue,
          Lifecycle!Live, Lifecycle!Unsettled, Lifecycle!Settled, Status

LEMMA LBegin ==
  ASSUME NEW b \in Board, Only(b), StatusOf(b) \in Status, Owed(b),
         StatusOf(b)' = "parsing", Owed(b)'
  PROVE  LStep
  <1>1. Lifecycle!Become(b, "parsing")
    BY LBecome
  <1>2. {c \in Board : Owed(c)}' = {c \in Board : Owed(c)}
    BY LOwed DEF SameOwed
  <1> QED BY <1>1, <1>2
      DEF LStep, Lifecycle!LifecycleNext, Lifecycle!Begin,
          Lifecycle!Live, Lifecycle!Unsettled, Lifecycle!Settled, Status

LEMMA LFinish ==
  ASSUME NEW b \in Board, Only(b), StatusOf(b) \in Status, Owed(b),
         StatusOf(b)' \in {"success", "failed"}
  PROVE  LStep
  <1>1. Lifecycle!Become(b, StatusOf(b)')
    BY LBecome
  <1>2. {c \in Board : Owed(c)}' \in
            {{c \in Board : Owed(c)}, {c \in Board : Owed(c)} \ {b}}
    BY LOwed DEF SameOwed
  <1> QED BY <1>1, <1>2
      DEF LStep, Lifecycle!LifecycleNext, Lifecycle!Finish,
          Lifecycle!Live, Lifecycle!Unsettled, Lifecycle!Settled, Status

LEMMA LRemove ==
  ASSUME NEW b \in Board, Only(b), StatusOf(b) \in Status, SameOwed(b),
         StatusOf(b)' = "deleted"
  PROVE  LStep
  <1>1. Lifecycle!Become(b, "deleted")
    BY LBecome
  <1>2. {c \in Board : Owed(c)}' = {c \in Board : Owed(c)}
    BY LOwed
  <1> QED BY <1>1, <1>2
      DEF LStep, Lifecycle!LifecycleNext, Lifecycle!Remove,
          Lifecycle!Live, Lifecycle!Unsettled, Lifecycle!Settled, Status

LEMMA LLapse ==
  ASSUME NEW b \in Board, Only(b), StatusOf(b) = "deleted", SameStatus(b), Owed(b)
  PROVE  LStep
  <1>1. CASE Owed(b)'
    BY <1>1, LStutter DEF Only, SameOwed
  <1>2. CASE ~Owed(b)'
    <2>1. {c \in Board : Owed(c)}' = {c \in Board : Owed(c)} \ {b}
      BY <1>2, LOwed
    <2>2. [c \in Board |-> StatusOf(c)]' = [c \in Board |-> StatusOf(c)]
      BY DEF Only, SameStatus
    <2> QED BY <2>1, <2>2
        DEF LStep, Lifecycle!LifecycleNext, Lifecycle!Lapse
  <1> QED BY <1>1, <1>2

-----------------------------------------------------------------------------
(* Steps the lifecycle does not see, and steps that touch one board. *)

Publishing(b, p) == web[p].pc = "publish" /\ web[p].pk = b
SameWeb(b) == \A p \in Web : Publishing(b, p)' <=> Publishing(b, p)
SameJobs(b) == \A w \in Worker : JobOpen(b, worker[w])' <=> JobOpen(b, worker[w])

LEMMA OwedKept ==
  ASSUME NEW b \in Board, parseQ'[b] = parseQ[b], SameWeb(b), SameJobs(b)
  PROVE  SameOwed(b)
  BY DEF SameOwed, Owed, SameWeb, SameJobs, Publishing, WebAt

LEMMA StatusKept ==
  ASSUME NEW b \in Board, rows'[b] = rows[b], nextPk' = nextPk
  PROVE  SameStatus(b)
  BY DEF SameStatus, StatusOf, Exists

LEMMA AllQuiet == ASSUME UNCHANGED <<rows, nextPk, parseQ, web, worker>> PROVE LStep
  <1>1. ASSUME NEW b \in Board PROVE SameStatus(b) /\ SameOwed(b)
    BY OwedKept, StatusKept DEF SameWeb, SameJobs, Publishing, JobOpen
  <1> QED BY <1>1, LStutter

LEMMA WebQuiet ==
  ASSUME NEW p \in Web, web[p].pc # "publish", web'[p].pc # "publish",
         \A q \in Web \ {p} : web'[q] = web[q],
         UNCHANGED <<rows, nextPk, parseQ, worker>>
  PROVE  LStep
  <1>1. ASSUME NEW b \in Board PROVE SameStatus(b) /\ SameOwed(b)
    <2>1. SameWeb(b)
      BY DEF SameWeb, Publishing
    <2>2. SameJobs(b)
      BY DEF SameJobs, JobOpen
    <2> QED BY <2>1, <2>2, OwedKept, StatusKept
  <1> QED BY <1>1, LStutter

LEMMA WorkerQuiet ==
  ASSUME NEW w \in Worker,
         \A b \in Board : JobOpen(b, worker'[w]) <=> JobOpen(b, worker[w]),
         \A v \in Worker \ {w} : worker'[v] = worker[v],
         UNCHANGED <<rows, nextPk, parseQ, web>>
  PROVE  LStep
  <1>1. ASSUME NEW b \in Board PROVE SameStatus(b) /\ SameOwed(b)
    <2>1. SameWeb(b)
      BY DEF SameWeb, Publishing
    <2>2. SameJobs(b)
      BY DEF SameJobs, JobOpen
    <2> QED BY <2>1, <2>2, OwedKept, StatusKept
  <1> QED BY <1>1, LStutter

\* Worker w moves with board b, and nothing else changes but row b and its queue.
LEMMA WorkerOnly ==
  ASSUME TypeInv, NEW w \in Worker, NEW b \in Board,
         worker[w].pc = "idle" \/ worker[w].pk = b,
         worker'[w].pc = "idle" \/ worker'[w].pk = b,
         \A v \in Worker \ {w} : worker'[v] = worker[v],
         \A c \in Board \ {b} : rows'[c] = rows[c] /\ parseQ'[c] = parseQ[c],
         UNCHANGED <<nextPk, web>>
  PROVE  Only(b)
  <1>1. ASSUME NEW c \in Board \ {b} PROVE SameStatus(c) /\ SameOwed(c)
    <2>1. SameWeb(c)
      BY DEF SameWeb, Publishing
    <2>2. SameJobs(c)
      BY DEF SameJobs, JobOpen
    <2> QED BY <2>1, <2>2, OwedKept, StatusKept
  <1> QED BY <1>1 DEF Only

\* The same of a web thread.
LEMMA WebOnly ==
  ASSUME TypeInv, NEW p \in Web, NEW b \in Board,
         web[p].pc = "publish" => web[p].pk = b,
         web'[p].pc = "publish" => web'[p].pk = b,
         \A q \in Web \ {p} : web'[q] = web[q],
         \A c \in Board \ {b} : rows'[c] = rows[c] /\ parseQ'[c] = parseQ[c],
         UNCHANGED <<nextPk, worker>>
  PROVE  Only(b)
  <1>1. ASSUME NEW c \in Board \ {b} PROVE SameStatus(c) /\ SameOwed(c)
    <2>1. SameWeb(c)
      BY DEF SameWeb, Publishing
    <2>2. SameJobs(c)
      BY DEF SameJobs, JobOpen
    <2> QED BY <2>1, <2>2, OwedKept, StatusKept
  <1> QED BY <1>1 DEF Only

LEMMA StatusLive ==
  ASSUME TypeInv, NEW b \in Board, Exists(b)
  PROVE  StatusOf(b) = rows[b].status /\ StatusOf(b) \in Status
  BY ExistsBorn DEF StatusOf, Exists, Row

LEMMA StatusGone ==
  ASSUME NEW b \in Board, ~Exists(b), b < nextPk
  PROVE  StatusOf(b) = "deleted"
  BY DEF StatusOf, Exists

-----------------------------------------------------------------------------
(* Each action is a step of the lifecycle, or a stutter. *)

LEMMA NewRequestL ==
  ASSUME CleanInv, Undisturbed, NEW p \in Web, NewRequest(p) PROVE LStep
  <1> USE DEF CleanInv
  <1>1. CASE \E f \in File : Upload(p, f)
    BY <1>1, HoldEffect, WebQuiet, AllQuiet DEF Upload, WebAt, store, queues
  <1>2. ASSUME NEW b \in Board, NEW access \in Access, Patch(p, b, access) PROVE FALSE
    BY <1>2 DEF Patch, Spend, NoPatches, Undisturbed, TypeInv, TypeOK, Kind
  <1>3. ASSUME NEW b \in Board, Delete(p, b) PROVE LStep
    BY <1>3, HoldEffect, WebQuiet DEF Delete, WebAt, store, queues
  <1>4. ASSUME NEW b \in Board, Reparse(p, b) PROVE LStep
    BY <1>4, HoldEffect, WebQuiet DEF Reparse, WebAt, store
  <1>5. ASSUME NEW b \in Board, NEW admin \in BOOLEAN, View(p, b, admin) PROVE LStep
    BY <1>5, HoldEffect, WebQuiet, AllQuiet DEF View, WebAt, store, queues
  <1> QED BY <1>1, <1>2, <1>3, <1>4, <1>5 DEF NewRequest

LEMMA UploadCreateL ==
  ASSUME CleanInv, NEW p \in Web, UploadCreate(p) PROVE LStep
  <1> USE DEF CleanInv
  <1>1. web[p].pc = "create" /\ web[p].file \in File
    BY WebHeld DEF UploadCreate, WebAt, HasFile
  <1>2. CASE Answer(p) /\ UNCHANGED <<rows, nextPk>>
    BY <1>1, <1>2, AnswerEffect, WebQuiet DEF UploadCreate, queues
  <1>3. CASE /\ nextPk \in Board
             /\ rows' = [rows EXCEPT ![nextPk] = NewRow(web[p].file)]
             /\ nextPk' = nextPk + 1
             /\ Hold(p, "publish", nextPk, None)
    <2>0. PICK b \in Board : b = nextPk
      BY <1>3
    <2>1. /\ web'[p].pc = "publish" /\ web'[p].pk = b
          /\ \A q \in Web \ {p} : web'[q] = web[q]
      BY <1>3, <2>0, HoldEffect
    <2>2. rows'[b] = NewRow(web[p].file) /\ \A c \in Board \ {b} : rows'[c] = rows[c]
      BY <1>3, <2>0 DEF TypeInv, TypeOK
    <2>3. rows[b] = None /\ StatusOf(b) = "absent"
      BY <2>0, BoundAssumption DEF TypeInv, TypeOK, Unborn, StatusOf, Exists, Board
    <2>4. StatusOf(b)' = "pending"
      BY <1>1, <2>2, NewRowEffect, <1>3 DEF StatusOf, Exists
    <2>5. Owed(b)'
      BY <2>1 DEF Owed, WebAt
    <2>6. ASSUME NEW c \in Board \ {b} PROVE SameStatus(c) /\ SameOwed(c)
      <3>1. c < nextPk <=> c < nextPk'
        BY <1>3, <2>0, BoundAssumption DEF Board
      <3>2. SameStatus(c)
        BY <2>2, <3>1 DEF SameStatus, StatusOf, Exists
      <3>3. SameWeb(c) /\ SameJobs(c)
        BY <1>1, <2>1 DEF SameWeb, SameJobs, Publishing, JobOpen, UploadCreate
      <3> QED BY <3>2, <3>3, OwedKept DEF UploadCreate, queues
    <2>7. Only(b)
      BY <2>6 DEF Only
    <2> QED BY <2>3, <2>4, <2>5, <2>7, LCreate
  <1> QED BY <1>2, <1>3 DEF UploadCreate

LEMMA PublishL ==
  ASSUME CleanInv, NEW p \in Web, Publish(p) PROVE LStep
  <1> USE DEF CleanInv
  <1>0. PICK b \in Board : b = web[p].pk
    BY WebHeld DEF Publish, WebAt, HasPk
  <1>1. web[p].pc = "publish" /\ b \in Board /\ web[p].pk = b
    BY <1>0 DEF Publish, WebAt
  <1>2. 0 \in 0 .. ParseRetries /\ parseQ[b] \in [0 .. ParseRetries -> Nat]
    BY <1>1 DEF ParseRetries, TypeInv, TypeOK
  <1>3. parseQ'[b] = [parseQ[b] EXCEPT ![0] = @ + 1]
    BY <1>1 DEF Publish, PublishParse, TypeInv, TypeOK
  <1>4. parseQ'[b][0] = parseQ[b][0] + 1 /\ parseQ[b][0] \in Nat
    BY <1>2, <1>3
  <1>5. parseQ'[b][0] > 0
    BY <1>4
  <1>6. Owed(b) /\ Owed(b)'
    BY <1>1, <1>2, <1>5 DEF Owed, WebAt
  <1>7. \A c \in Board \ {b} : parseQ'[c] = parseQ[c]
    BY <1>1 DEF Publish, PublishParse, TypeInv, TypeOK
  <1>8. Only(b)
    BY <1>1, <1>7, AnswerEffect, WebOnly DEF Publish, store
  <1>9. SameStatus(b)
    BY <1>1, StatusKept DEF Publish, store
  <1> QED BY <1>1, <1>6, <1>8, <1>9, LStutter DEF Only, SameOwed

LEMMA DeleteRowL ==
  ASSUME CleanInv, NEW p \in Web, DeleteRow(p) PROVE LStep
  <1> USE DEF CleanInv
  <1>0. PICK b \in Board : b = web[p].pk
    BY WebHeld DEF DeleteRow, WebAt, HasPk
  <1>1. web[p].pc = "del_row" /\ web[p].pk = b /\ b < nextPk
    BY <1>0, WebHeld DEF DeleteRow, WebAt, HasPk
  <1>2. rows'[b] = None /\ \A c \in Board \ {b} : rows'[c] = rows[c]
    BY <1>1 DEF DeleteRow, TypeInv, TypeOK
  <1>3. StatusOf(b)' = "deleted"
    BY <1>1, <1>2 DEF DeleteRow, StatusOf, Exists
  <1>4. web'[p].pc = "idle" /\ \A q \in Web \ {p} : web'[q] = web[q]
    BY AnswerEffect DEF DeleteRow
  <1>5. Only(b)
    BY <1>1, <1>2, <1>4, WebOnly DEF DeleteRow, queues
  <1>6. SameOwed(b)
    <2>1. SameWeb(b) /\ SameJobs(b)
      BY <1>1, <1>4 DEF SameWeb, SameJobs, Publishing, JobOpen, DeleteRow
    <2> QED BY <1>1, <2>1, OwedKept DEF DeleteRow, queues
  <1>7. CASE Exists(b)
    BY <1>1, <1>3, <1>5, <1>6, <1>7, StatusLive, LRemove
  <1>8. CASE ~Exists(b)
    BY <1>1, <1>3, <1>5, <1>6, <1>8, StatusGone, LStutter DEF Only, SameStatus
  <1> QED BY <1>7, <1>8

LEMMA ReparseSaveL ==
  ASSUME CleanInv, NEW p \in Web, ReparseSave(p) PROVE LStep
  <1> USE DEF CleanInv
  <1>0. PICK b \in Board : b = web[p].pk
    BY WebHeld DEF ReparseSave, WebAt, HasPk
  <1>1. web[p].pc = "reparse" /\ web[p].pk = b /\ b < nextPk
    BY <1>0, WebHeld DEF ReparseSave, WebAt, HasPk
  <1>2. CASE Answer(p) /\ UNCHANGED rows
    BY <1>1, <1>2, AnswerEffect, WebQuiet DEF ReparseSave, queues
  <1>3. CASE Exists(b) /\ SaveStatus(b, "pending") /\ WebGo(p, "publish")
    <2>1. /\ web'[p].pc = "publish" /\ web'[p].pk = b
          /\ \A q \in Web \ {p} : web'[q] = web[q]
      BY <1>1, <1>3, WebGoEffect DEF WebPc
    <2>2. /\ Exists(b)' /\ rows'[b].status = "pending"
          /\ \A c \in Board \ {b} : rows'[c] = rows[c]
      BY <1>1, <1>3, SaveStatusEffect DEF Status
    <2>3. Owed(b)'
      BY <2>1 DEF Owed, WebAt
    <2>4. StatusOf(b)' = "pending"
      BY <2>2 DEF StatusOf, Exists
    <2>5. Only(b)
      BY <1>1, <2>1, <2>2, WebOnly DEF ReparseSave, queues
    <2> QED BY <1>1, <1>3, <2>3, <2>4, <2>5, StatusLive, LCreate
  <1> QED BY <1>1, <1>2, <1>3 DEF ReparseSave

LEMMA WebStepL == ASSUME CleanInv, NEW p \in Web, WebStep(p) PROVE LStep
  <1> USE DEF CleanInv
  <1>1. CASE UploadPut(p)
    BY <1>1, WebGoEffect, AnswerEffect, WebQuiet DEF UploadPut, WebAt, WebPc, queues
  <1>2. CASE PatchSave(p)
    BY <1>2 DEF PatchSave, WebAt
  <1>3. CASE DeleteCache(p)
    BY <1>3, WebGoEffect, AnswerEffect, WebQuiet DEF DeleteCache, WebAt, WebPc, queues
  <1>4. CASE DeleteS3(p)
    BY <1>4, WebGoEffect, WebQuiet DEF DeleteS3, WebAt, WebPc, queues
  <1>5. CASE ViewGet(p)
    <2>1. CASE WebGo(p, IF cache[web[p].file[1]] # None THEN "hit" ELSE "read")
      <3>1. (IF cache[web[p].file[1]] # None THEN "hit" ELSE "read") \in WebPc \ {"publish"}
        BY DEF WebPc
      <3> QED BY <1>5, <2>1, <3>1, WebGoEffect, WebQuiet DEF ViewGet, WebAt, queues
    <2> QED BY <1>5, <2>1, AnswerEffect, WebQuiet DEF ViewGet, WebAt, queues
  <1>6. CASE ViewHit(p)
    BY <1>6, AnswerEffect, WebQuiet DEF ViewHit, WebAt, store
  <1>7. CASE ViewRead(p)
    BY <1>7, WebGoEffect, AnswerEffect, WebQuiet DEF ViewRead, WebAt, WebPc, store, queues
  <1>8. CASE ViewSet(p)
    BY <1>8, AnswerEffect, WebQuiet DEF ViewSet, WebAt
  <1> QED BY <1>1, <1>2, <1>3, <1>4, <1>5, <1>6, <1>7, <1>8, UploadCreateL, PublishL,
             DeleteRowL, ReparseSaveL
      DEF WebStep

LEMMA StartParseL ==
  ASSUME CleanInv, NEW w \in Worker, NEW b \in Board, NEW n \in 0 .. ParseRetries,
         StartParse(w, b, n)
  PROVE  LStep
  <1> USE DEF CleanInv
  <1>1. Owed(b)
    BY DEF StartParse, Owed
  <1>2. \A c \in Board \ {b} : parseQ'[c] = parseQ[c]
    BY DEF StartParse, TypeInv, TypeOK
  <1>3. CASE Exists(b)
    <2>1. /\ worker'[w].pc = "read" /\ worker'[w].pk = b
          /\ \A v \in Worker \ {w} : worker'[v] = worker[v]
      BY <1>3, TakeEffect DEF StartParse
    <2>2. /\ Exists(b)' /\ rows'[b].status = "parsing"
          /\ \A c \in Board \ {b} : rows'[c] = rows[c]
      BY <1>3, SaveStatusEffect DEF StartParse, Status
    <2>3. Owed(b)'
      BY <2>1 DEF Owed, JobOpen
    <2>4. StatusOf(b)' = "parsing"
      BY <2>2 DEF StatusOf, Exists
    <2>5. Only(b)
      BY <1>2, <2>1, <2>2, WorkerOnly DEF StartParse, WorkerAt
    <2> QED BY <1>1, <1>3, <2>3, <2>4, <2>5, StatusLive, LBegin
  <1>4. CASE ~Exists(b)
    <2>1. parseQ[b][n] # 0
      BY DEF StartParse, TypeInv, TypeOK
    <2>2. ~(b >= nextPk) /\ b \in Nat /\ nextPk \in Nat
      BY <2>1, BoundAssumption DEF TypeInv, TypeOK, Board
    <2>3. StatusOf(b) = "deleted"
      BY <1>4, <2>2, StatusGone
    <2>4. SameStatus(b)
      BY <1>4, StatusKept DEF StartParse
    <2>5. Only(b)
      BY <1>2, <1>4, WorkerOnly DEF StartParse, WorkerAt
    <2> QED BY <1>1, <2>3, <2>4, <2>5, LLapse
  <1> QED BY <1>3, <1>4

\* A worker gives the outcome of the parse, or finds its board gone.
LEMMA OutcomeL ==
  ASSUME CleanInv, NEW w \in Worker, NEW b \in Board, b = worker[w].pk,
         worker[w].pc \in {"reject", "succeed", "fail"},
         worker'[w].pc = "idle" \/ worker'[w].pk = b,
         \A v \in Worker \ {w} : worker'[v] = worker[v],
         UNCHANGED <<nextPk, parseQ, web>>,
         \/ Exists(b) /\ SaveStatus(b, "failed")
         \/ Exists(b) /\ SaveSuccess(b)
         \/ ~Exists(b) /\ UNCHANGED rows
  PROVE  LStep
  <1> USE DEF CleanInv
  <1>1. Owed(b) /\ b < nextPk
    BY WorkerHeld DEF Owed, JobOpen
  <1>2. CASE Exists(b)
    <2>1. /\ Exists(b)' /\ rows'[b].status \in {"success", "failed"}
          /\ \A c \in Board \ {b} : rows'[c] = rows[c]
      BY <1>2, SaveStatusEffect, SaveSuccessEffect DEF Status
    <2>2. StatusOf(b)' \in {"success", "failed"}
      BY <2>1 DEF StatusOf, Exists
    <2>3. Only(b)
      BY <2>1, WorkerOnly
    <2> QED BY <1>1, <1>2, <2>2, <2>3, StatusLive, LFinish
  <1>3. CASE ~Exists(b)
    <2>1. Only(b)
      BY <1>3, WorkerOnly
    <2> QED BY <1>1, <1>3, <2>1, StatusGone, StatusKept, LLapse
  <1> QED BY <1>2, <1>3

LEMMA ParseOutcomeL ==
  ASSUME CleanInv, NEW w \in Worker, ParseReject(w) \/ ParseSucceed(w) \/ ParseFail(w)
  PROVE  LStep
  <1> USE DEF CleanInv
  <1>1. PICK b \in Board : b = worker[w].pk
    BY WorkerHeld DEF ParseReject, ParseSucceed, ParseFail, WorkerAt
  <1>2. CASE ParseReject(w)
    BY <1>1, <1>2, TaskDoneEffect, OutcomeL DEF ParseReject, WorkerAt, queues
  <1>3. CASE ParseSucceed(w)
    BY <1>1, <1>3, TaskDoneEffect, OutcomeL DEF ParseSucceed, WorkerAt, queues
  <1>4. CASE ParseFail(w)
    BY <1>1, <1>4, TaskDoneEffect, WorkerGoEffect, OutcomeL
       DEF ParseFail, WorkerAt, WorkerPc, queues
  <1> QED BY <1>2, <1>3, <1>4

LEMMA ParseRetryL == ASSUME CleanInv, NEW w \in Worker, ParseRetry(w) PROVE LStep
  <1> USE DEF CleanInv
  <1>1. PICK b \in Board : b = worker[w].pk
    BY WorkerHeld DEF ParseRetry, WorkerAt
  <1>2. worker[w].pc = "retry" /\ worker[w].n \in 0 .. ParseRetries
    BY WorkerHeld DEF ParseRetry, WorkerAt
  <1>3. worker'[w].pc = "idle" /\ \A v \in Worker \ {w} : worker'[v] = worker[v]
    BY TaskDoneEffect DEF ParseRetry
  <1>4. CASE worker[w].n < ParseRetries
    <2>1. PICK m \in 0 .. ParseRetries : m = worker[w].n + 1
      BY <1>2, <1>4 DEF ParseRetries
    <2>2. parseQ[b] \in [0 .. ParseRetries -> Nat]
      BY DEF TypeInv, TypeOK
    <2>3. /\ parseQ'[b] = [parseQ[b] EXCEPT ![m] = @ + 1]
          /\ \A c \in Board \ {b} : parseQ'[c] = parseQ[c]
      BY <1>1, <1>4, <2>1 DEF ParseRetry, PublishParse, TypeInv, TypeOK
    <2>4. parseQ'[b][m] = parseQ[b][m] + 1 /\ parseQ[b][m] \in Nat
      BY <2>2, <2>3
    <2>5. parseQ'[b][m] > 0
      BY <2>4
    <2>6. Owed(b) /\ Owed(b)'
      BY <1>1, <1>2, <1>4, <2>5 DEF Owed, JobOpen
    <2>7. Only(b) /\ SameStatus(b)
      BY <1>1, <1>3, <2>3, WorkerOnly, StatusKept DEF ParseRetry, store
    <2> QED BY <2>6, <2>7, LStutter DEF Only, SameOwed
  <1>5. CASE ~(worker[w].n < ParseRetries)
    BY <1>2, <1>3, <1>5, WorkerQuiet DEF ParseRetry, JobOpen, store
  <1> QED BY <1>4, <1>5

LEMMA WorkerStepL == ASSUME CleanInv, NEW w \in Worker, WorkerStep(w) PROVE LStep
  <1> USE DEF CleanInv
  <1>1. CASE ParseRead(w)
    <2>1. \A pc \in {"fail", "reject", "cache"} : pc \in WorkerPc
      BY DEF WorkerPc
    <2>2. PICK pc \in {"fail", "reject", "cache"} : WorkerGo(w, pc)
      BY <1>1 DEF ParseRead
    <2>3. \A b \in Board : JobOpen(b, worker'[w]) <=> JobOpen(b, worker[w])
      BY <1>1, <2>1, <2>2, WorkerGoEffect DEF JobOpen, ParseRead, WorkerAt
    <2> QED BY <1>1, <2>1, <2>2, <2>3, WorkerGoEffect, WorkerQuiet DEF ParseRead, store, queues
  <1>2. CASE ParseCache(w)
    <2>1. \A pc \in {"fail", "succeed"} : pc \in WorkerPc
      BY DEF WorkerPc
    <2>2. PICK pc \in {"fail", "succeed"} : WorkerGo(w, pc)
      BY <1>2 DEF ParseCache
    <2>3. \A b \in Board : JobOpen(b, worker'[w]) <=> JobOpen(b, worker[w])
      BY <1>2, <2>1, <2>2, WorkerGoEffect DEF JobOpen, ParseCache, WorkerAt
    <2> QED BY <1>2, <2>1, <2>2, <2>3, WorkerGoEffect, WorkerQuiet DEF ParseCache, queues
  <1>3. ASSUME NEW b \in Board, NEW n \in 0 .. RefreshRetries, StartRefresh(w, b, n)
        PROVE  LStep
    BY <1>3, TakeEffect, WorkerQuiet, AllQuiet DEF StartRefresh, JobOpen, WorkerAt, store
  <1>4. CASE RefreshRead(w)
    BY <1>4, WorkerGoEffect, TaskDoneEffect, WorkerQuiet
       DEF RefreshRead, RefreshRetry, JobOpen, WorkerAt, WorkerPc, store
  <1>5. CASE RefreshSet(w)
    BY <1>5, TaskDoneEffect, WorkerQuiet DEF RefreshSet, RefreshRetry, JobOpen, WorkerAt
  <1>6. ASSUME NEW b \in Board, RecordView(w, b) PROVE LStep
    <2>1. ASSUME NEW c \in Board PROVE SameStatus(c) /\ SameOwed(c)
      <3>1. SameStatus(c)
        BY ZenonT(60), <1>6, RecordViewEffect DEF RecordView, SameStatus, StatusOf, Exists
      <3>2. SameWeb(c) /\ SameJobs(c)
        BY <1>6 DEF RecordView, SameWeb, SameJobs, Publishing, JobOpen
      <3> QED BY <1>6, <3>1, <3>2, OwedKept DEF RecordView
    <2> QED BY <2>1, LStutter
  <1>7. ASSUME NEW h \in Hash, Invalidate(w, h) PROVE LStep
    BY <1>7, AllQuiet DEF Invalidate
  <1> QED BY <1>1, <1>2, <1>3, <1>4, <1>5, <1>6, <1>7, StartParseL, ParseOutcomeL, ParseRetryL
      DEF WorkerStep

LEMMA StepL == ASSUME CleanInv, Undisturbed, [Next]_vars PROVE LStep
  <1>1. CASE Environment
    BY <1>1, AllQuiet
       DEF Environment, Age, Evict, WorkerDies, Lose, WebDies, Spend, NoPatches, Undisturbed,
           queues, CleanInv, TypeInv, TypeOK, Kind
  <1>2. CASE UNCHANGED vars
    BY <1>2, AllQuiet DEF vars
  <1> QED BY <1>1, <1>2, NewRequestL, WebStepL, WorkerStepL DEF Next

-----------------------------------------------------------------------------
(* CleanInv is invariant. *)

QueueUnborn ==
    \A b \in Board : b >= nextPk => \A n \in 0 .. ParseRetries : parseQ[b][n] = 0

LEMMA QueueUnbornNext == ASSUME CleanInv, Undisturbed, [Next]_vars PROVE QueueUnborn'
  <1> USE DEF CleanInv
  <1>1. nextPk \in Nat /\ Board \subseteq Nat
    BY BoundAssumption DEF TypeInv, TypeOK, Board
  <1>2. ASSUME UNCHANGED <<parseQ, nextPk>> PROVE QueueUnborn'
    BY <1>2 DEF QueueUnborn
  <1>3. ASSUME NEW b \in Board, b < nextPk, nextPk' = nextPk,
               \A c \in Board \ {b} : parseQ'[c] = parseQ[c]
        PROVE  QueueUnborn'
    <2>1. \A c \in Board : c >= nextPk => c # b
      BY <1>1, <1>3
    <2> QED BY <1>3, <2>1 DEF QueueUnborn
  <1>4. ASSUME NEW p \in Web, UploadCreate(p) PROVE QueueUnborn'
    <2>1. nextPk' = nextPk \/ nextPk' = nextPk + 1
      BY <1>4 DEF UploadCreate
    <2>2. \A c \in Board : c >= nextPk' => c >= nextPk
      BY <1>1, <2>1
    <2> QED BY <1>4, <2>2 DEF UploadCreate, queues, QueueUnborn
  <1>5. ASSUME NEW p \in Web, Publish(p) PROVE QueueUnborn'
    <2>1. web[p].pk \in Board /\ web[p].pk < nextPk
      BY <1>5, WebHeld DEF Publish, WebAt, HasPk
    <2> QED BY <1>3, <1>5, <2>1 DEF Publish, PublishParse, store, TypeInv, TypeOK
  <1>6. ASSUME NEW w \in Worker, ParseRetry(w) PROVE QueueUnborn'
    <2>1. worker[w].pk \in Board /\ worker[w].pk < nextPk
      BY <1>6, WorkerHeld DEF ParseRetry, WorkerAt
    <2> QED BY <1>2, <1>3, <1>6, <2>1 DEF ParseRetry, PublishParse, store, TypeInv, TypeOK
  <1>7. ASSUME NEW w \in Worker, NEW b \in Board, NEW n \in 0 .. ParseRetries,
               StartParse(w, b, n)
        PROVE  QueueUnborn'
    <2>1. parseQ[b][n] # 0
      BY <1>7 DEF StartParse, TypeInv, TypeOK
    <2>2. b < nextPk
      BY <1>1, <2>1
    <2> QED BY <1>3, <1>7, <2>2 DEF StartParse, TypeInv, TypeOK
  <1>8. ASSUME NEW p \in Web, NewRequest(p) PROVE QueueUnborn'
    BY <1>2, <1>8 DEF NewRequest, Upload, Patch, Delete, Reparse, View, store, queues
  <1>9. ASSUME NEW p \in Web, WebStep(p) PROVE QueueUnborn'
    BY <1>2, <1>4, <1>5, <1>9
       DEF WebStep, UploadPut, PatchSave, DeleteCache, DeleteS3, DeleteRow, ReparseSave,
           ViewGet, ViewHit, ViewRead, ViewSet, store, queues
  <1>10. ASSUME NEW w \in Worker, WorkerStep(w) PROVE QueueUnborn'
    BY <1>2, <1>6, <1>7, <1>10
       DEF WorkerStep, StartRefresh, RecordView, Invalidate, ParseRead, ParseReject,
           ParseCache, ParseSucceed, ParseFail, RefreshRead, RefreshSet, store, queues
  <1>11. ASSUME Environment PROVE QueueUnborn'
    BY <1>2, <1>11
       DEF Environment, Age, Evict, WorkerDies, Lose, WebDies, Spend, NoPatches,
           Undisturbed, store, queues, TypeInv, TypeOK, Kind
  <1> QED BY <1>2, <1>8, <1>9, <1>10, <1>11 DEF Next, vars

NoPatching == \A p \in Web : web[p].pc # "patch"

LEMMA NoPatchingNext ==
  ASSUME TypeInv, NoPatching, NoPatches, [Next]_vars PROVE NoPatching'
  <1>1. ASSUME UNCHANGED web PROVE NoPatching'
    BY <1>1 DEF NoPatching
  <1>2. ASSUME NEW p \in Web, Answer(p) PROVE NoPatching'
    BY <1>2, AnswerEffect DEF NoPatching
  <1>3. ASSUME NEW p \in Web, NEW pc \in WebPc \ {"patch"}, WebGo(p, pc) PROVE NoPatching'
    BY <1>3, WebGoEffect DEF NoPatching
  <1>4. ASSUME NEW p \in Web, NEW pc \in WebPc \ {"patch"}, NEW b, NEW f, Hold(p, pc, b, f)
        PROVE  NoPatching'
    BY <1>4, HoldEffect DEF NoPatching
  <1>5. ASSUME NEW p \in Web, NEW b \in Board, NEW access \in Access, Patch(p, b, access)
        PROVE  FALSE
    BY <1>5 DEF Patch, Spend, NoPatches, TypeInv, TypeOK, Kind
  <1>6. ASSUME NEW p \in Web, NewRequest(p) PROVE NoPatching'
    BY <1>1, <1>4, <1>5, <1>6 DEF NewRequest, Upload, Delete, Reparse, View, WebPc
  <1>7. ASSUME NEW p \in Web, WebStep(p) PROVE NoPatching'
    BY <1>2, <1>3, <1>4, <1>7
       DEF WebStep, UploadPut, UploadCreate, Publish, PatchSave, DeleteCache, DeleteS3,
           DeleteRow, ReparseSave, ViewGet, ViewHit, ViewRead, ViewSet, WebPc
  <1>8. ASSUME NEW w \in Worker, WorkerStep(w) PROVE NoPatching'
    BY <1>1, <1>8
       DEF WorkerStep, StartParse, StartRefresh, RecordView, Invalidate, ParseRead,
           ParseReject, ParseCache, ParseSucceed, ParseFail, ParseRetry, RefreshRead,
           RefreshSet
  <1>9. ASSUME Environment PROVE NoPatching'
    BY <1>1, <1>2, <1>9 DEF Environment, Age, Evict, WorkerDies, Lose, WebDies
  <1> QED BY <1>1, <1>6, <1>7, <1>8, <1>9 DEF Next, vars

LEMMA CleanInit == Init => CleanInv
  BY InitTypeInv DEF Init, CleanInv, IdleRequest

LEMMA CleanInvariance == ASSUME Undisturbed PROVE Spec => []CleanInv
  <1>1. CleanInv /\ [Next]_vars => CleanInv'
    BY NextType, QueueUnbornNext, NoPatchingNext
       DEF CleanInv, QueueUnborn, NoPatching, NoPatches, Undisturbed
  <1> QED BY <1>1, CleanInit, PTL DEF Spec

-----------------------------------------------------------------------------
(* The theorems. *)

LEMMA InitL == Init => Lifecycle!LifecycleInit
  <1> SUFFICES ASSUME Init PROVE Lifecycle!LifecycleInit
    OBVIOUS
  <1>1. ASSUME NEW b \in Board PROVE StatusOf(b) = "absent" /\ ~Owed(b)
    <2>1. ~(b < nextPk) /\ rows[b] = None
      BY BoundAssumption DEF Init, Board
    <2>2. ~Owed(b)
      BY DEF Init, Owed, JobOpen, IdleJob, IdleRequest, WebAt
    <2> QED BY <2>1, <2>2 DEF StatusOf, Exists
  <1> QED BY <1>1 DEF Lifecycle!LifecycleInit

\* Uploads, reparses, retries, errors and deletions, in any interleaving and any
\* number, take every board through its life as BoardLifecycle states it.
THEOREM Implements == ASSUME Undisturbed PROVE Spec => ImplementsLifecycle
  <1>1. CleanInv /\ [Next]_vars => [Lifecycle!LifecycleNext]_(Lifecycle!lifecycleVars)
    BY StepL DEF LStep
  <1> QED BY <1>1, InitL, CleanInvariance, PTL
      DEF Spec, ImplementsLifecycle, Lifecycle!LifecycleSpec

\* A board that is pending or being parsed is owed an outcome.
THEOREM NothingStranded == ASSUME Undisturbed PROVE Spec => []NoStranded
  <1>1. Init => NoStranded
    BY DEF Init, NoStranded, Exists
  <1>2. CleanInv /\ NoStranded /\ [Next]_vars => NoStranded'
    <2> SUFFICES ASSUME CleanInv, NoStranded, [Next]_vars, NEW b \in Board, Exists(b)',
                        rows'[b].status \in {"pending", "parsing"}
                 PROVE  Owed(b)'
      BY DEF NoStranded, Exists
    <2> DEFINE st == [c \in Board |-> StatusOf(c)]
               ow == {c \in Board : Owed(c)}
    <2>1. LStep
      BY StepL
    <2>2. st'[b] \in {"pending", "parsing"}
      BY DEF StatusOf, Exists
    <2>3. st[b] \in {"pending", "parsing"} => b \in ow
      BY DEF NoStranded, StatusOf, Exists
    <2>4. b \in ow'
      BY <2>1, <2>2, <2>3
         DEF LStep, Lifecycle!LifecycleNext, Lifecycle!lifecycleVars, Lifecycle!Become,
             Lifecycle!Create, Lifecycle!Requeue, Lifecycle!Begin, Lifecycle!Finish,
             Lifecycle!Remove, Lifecycle!Lapse, Lifecycle!Settled
    <2> QED BY <2>4
  <1> QED BY <1>1, <1>2, CleanInvariance, PTL DEF Spec

LEMMA NoPatchingInvariance == ASSUME NoPatches PROVE Spec => [](TypeInv /\ NoPatching)
  <1>1. Init => NoPatching
    BY DEF Init, NoPatching, IdleRequest
  <1>2. TypeInv /\ NoPatching /\ [Next]_vars => TypeInv' /\ NoPatching'
    <2> SUFFICES ASSUME TypeInv, NoPatching, [Next]_vars PROVE TypeInv' /\ NoPatching'
      OBVIOUS
    <2>1. TypeInv'
      BY NextType
    <2>2. NoPatching'
      BY NoPatchingNext
    <2> QED BY <2>1, <2>2
  <1> QED BY <1>1, <1>2, InitTypeInv, PTL DEF Spec

\* A board that has been deleted stays deleted, whatever was about to save it
\* and whatever dies: apart from PATCH, no save inserts a row that is gone, and
\* no upload takes its key.
THEOREM DeletionIsFinal == ASSUME NoPatches PROVE Spec => DeleteIsFinal
  <1>1. ASSUME TypeInv, NoPatching, [Next]_vars
        PROVE  [\A b \in Board : b < nextPk /\ rows[b] = None => rows'[b] = None]_vars
    <2> SUFFICES ASSUME NEW b \in Board, b < nextPk, rows[b] = None
                 PROVE  rows'[b] = None
      OBVIOUS
    <2>1. rows \in [Board -> Row \cup {None}] /\ nextPk \in Nat
      BY <1>1, BoundAssumption DEF TypeInv, TypeOK
    <2>2. ASSUME rows' = rows PROVE rows'[b] = None
      BY <2>2
    <2>3. ASSUME NEW c \in Board, Exists(c), NEW r, rows' = [rows EXCEPT ![c] = r]
          PROVE  rows'[b] = None
      BY <2>1, <2>3 DEF Exists
    <2>4. ASSUME NEW p \in Web, UploadCreate(p) PROVE rows'[b] = None
      BY <2>1, <2>4 DEF UploadCreate
    <2>5. ASSUME NEW p \in Web, DeleteRow(p) PROVE rows'[b] = None
      BY <2>1, <2>5 DEF DeleteRow
    <2>6. ASSUME NEW p \in Web, ReparseSave(p) PROVE rows'[b] = None
      BY <1>1, <2>2, <2>3, <2>6, WebHeld DEF ReparseSave, SaveStatus, WebAt, HasPk
    <2>7. ASSUME NEW p \in Web, PatchSave(p) PROVE FALSE
      BY <1>1, <2>7 DEF PatchSave, WebAt, NoPatching
    <2>8. ASSUME NEW p \in Web, NewRequest(p) PROVE rows'[b] = None
      BY <2>2, <2>8 DEF NewRequest, Upload, Patch, Delete, Reparse, View, store
    <2>9. ASSUME NEW p \in Web, WebStep(p) PROVE rows'[b] = None
      BY <2>2, <2>4, <2>5, <2>6, <2>7, <2>9
         DEF WebStep, UploadPut, Publish, DeleteCache, DeleteS3, ViewGet, ViewHit,
             ViewRead, ViewSet, store
    <2>10. ASSUME NEW w \in Worker, ~WorkerAt(w, "idle"), WorkerStep(w)
           PROVE  rows'[b] = None
      <3>1. worker[w].pk \in Board
        BY <1>1, <2>10, WorkerHeld DEF WorkerAt
      <3> QED BY <2>2, <2>3, <2>10, <3>1
          DEF WorkerStep, StartParse, StartRefresh, RecordView, Invalidate, ParseRead,
              ParseReject, ParseCache, ParseSucceed, ParseFail, ParseRetry, RefreshRead,
              RefreshSet, SaveStatus, SaveSuccess, store
    <2>11. ASSUME NEW w \in Worker, WorkerAt(w, "idle"), WorkerStep(w)
           PROVE  rows'[b] = None
      BY <2>2, <2>3, <2>11
         DEF WorkerStep, StartParse, StartRefresh, RecordView, Invalidate, ParseRead,
             ParseReject, ParseCache, ParseSucceed, ParseFail, ParseRetry, RefreshRead,
             RefreshSet, SaveStatus, WorkerAt, store
    <2>12. ASSUME Environment PROVE rows'[b] = None
      BY <2>2, <2>12 DEF Environment, Age, Evict, WorkerDies, Lose, WebDies, store
    <2> QED BY <1>1, <2>2, <2>8, <2>9, <2>10, <2>11, <2>12 DEF Next, vars
  <1> QED BY <1>1, NoPatchingInvariance, PTL DEF Spec, DeleteIsFinal

-----------------------------------------------------------------------------
(* The view counter. *)

SameViews(b) == Exists(b)' => Exists(b) /\ rows'[b].views = rows[b].views

UsedGrows == \A k \in Kind : used'[k] >= used[k]

\* The amounts ViewsAccounted adds up are numbers.
LEMMA CountsAreNats ==
  ASSUME TypeInv
  PROVE  /\ \A b \in Board : Exists(b) => rows[b].views \in Nat
         /\ \A b \in Board : recordQ[b] \in Nat /\ served[b] \in Nat
         /\ used["fault"] \in Nat /\ used["crash"] \in Nat
  <1>1. ASSUME NEW b \in Board, Exists(b) PROVE rows[b].views \in Nat
    BY <1>1 DEF TypeInv, TypeOK, Exists, Row
  <1>2. \A b \in Board : recordQ[b] \in Nat /\ served[b] \in Nat
    BY DEF TypeInv, TypeOK
  <1>3. used["fault"] \in Nat /\ used["crash"] \in Nat
    BY DEF TypeInv, TypeOK, Kind
  <1> QED BY <1>1, <1>2, <1>3 DEF Exists

\* What is spent is never given back.
LEMMA SpendGrows ==
  ASSUME TypeInv, NEW k \in Kind, Spend(k)
  PROVE  UsedGrows /\ used'[k] = used[k] + 1
  <1>1. used'[k] = used[k] + 1 /\ used[k] \in Nat
    BY DEF Spend, TypeInv, TypeOK
  <1>2. \A j \in Kind : used[j] \in Nat /\ (j # k => used'[j] = used[j])
    BY DEF Spend, TypeInv, TypeOK
  <1> QED BY <1>1, <1>2 DEF UsedGrows

LEMMA NextGrows == ASSUME TypeInv, [Next]_vars PROVE UsedGrows
  <1>1. ASSUME UNCHANGED used PROVE UsedGrows
    <2>1. \A k \in Kind : used[k] \in Nat
      BY DEF TypeInv, TypeOK
    <2> QED BY <1>1, <2>1 DEF UsedGrows
  <1>2. \A k \in Kind : Spend(k) => UsedGrows
    BY SpendGrows
  <1>3. ASSUME NEW p \in Web, NewRequest(p) PROVE UsedGrows
    BY <1>2, <1>3 DEF NewRequest, Upload, Patch, Delete, Reparse, View, Kind
  <1>4. ASSUME NEW p \in Web, WebStep(p) PROVE UsedGrows
    BY <1>1, <1>2, <1>4
       DEF WebStep, UploadPut, UploadCreate, Publish, PatchSave, DeleteCache, DeleteS3,
           DeleteRow, ReparseSave, ViewGet, ViewHit, ViewRead, ViewSet, CacheFails,
           ReadFails, ReadWorks, Kind
  <1>5. ASSUME NEW w \in Worker, WorkerStep(w) PROVE UsedGrows
    BY <1>1, <1>2, <1>5
       DEF WorkerStep, StartParse, StartRefresh, RecordView, Invalidate, ParseRead,
           ParseReject, ParseCache, ParseSucceed, ParseFail, ParseRetry, RefreshRead,
           RefreshSet, CacheFails, ReadFails, ReadWorks, Kind
  <1>6. ASSUME Environment PROVE UsedGrows
    BY <1>1, <1>2, <1>6 DEF Environment, Age, Evict, WorkerDies, Lose, WebDies, Kind
  <1> QED BY <1>1, <1>3, <1>4, <1>5, <1>6 DEF Next, vars

LEMMA CountKept ==
  ASSUME TypeInv, TypeInv', UsedGrows, ViewsAccounted, UNCHANGED <<recordQ, served>>,
         \A b \in Board : SameViews(b)
  PROVE  ViewsAccounted'
  <1> SUFFICES ASSUME NEW b \in Board, Exists(b)'
               PROVE  /\ served'[b] <= rows'[b].views + recordQ'[b] + used'["crash"]
                      /\ rows'[b].views + recordQ'[b]
                            <= served'[b] + used'["fault"] + used'["crash"]
    BY DEF ViewsAccounted
  <1>1. Exists(b) /\ rows'[b].views = rows[b].views
    BY DEF SameViews
  <1>2. used'["fault"] >= used["fault"] /\ used'["crash"] >= used["crash"]
    BY DEF UsedGrows, Kind
  <1>3. used'["fault"] \in Nat /\ used'["crash"] \in Nat
    BY DEF TypeInv, TypeOK, Kind
  <1> QED BY <1>1, <1>2, <1>3, CountsAreNats DEF ViewsAccounted

\* One row is saved, and its view_count is not among the fields.
LEMMA CountSaved ==
  ASSUME TypeInv, TypeInv', UsedGrows, ViewsAccounted, UNCHANGED <<recordQ, served>>,
         NEW b \in Board,
         \/ Exists(b) /\ SaveSuccess(b)
         \/ Exists(b) /\ (\E st \in Status : SaveStatus(b, st))
         \/ rows' = [rows EXCEPT ![b] = None]
         \/ UNCHANGED rows
  PROVE  ViewsAccounted'
  <1>1. ASSUME NEW c \in Board PROVE SameViews(c)
    BY SaveSuccessEffect, SaveStatusEffect DEF SameViews, Exists, TypeInv, TypeOK
  <1> QED BY <1>1, CountKept

\* A 200 answer and its message go together.
LEMMA CountServed ==
  ASSUME TypeInv, ViewsAccounted, NEW b \in Board, PublishRecord(b),
         UNCHANGED <<rows, used>>, served' = [served EXCEPT ![b] = @ + 1]
  PROVE  ViewsAccounted'
  <1>1. /\ recordQ'[b] = recordQ[b] + 1 /\ served'[b] = served[b] + 1
        /\ \A c \in Board \ {b} : recordQ'[c] = recordQ[c] /\ served'[c] = served[c]
    BY DEF PublishRecord, TypeInv, TypeOK
  <1> QED BY <1>1, CountsAreNats DEF ViewsAccounted, Exists

\* A view that is recorded and not served is paid for by the error that ended it.
LEMMA CountUnserved ==
  ASSUME TypeInv, ViewsAccounted, NEW b \in Board, PublishRecord(b),
         UNCHANGED <<rows, served>>, Spend("fault") \/ Spend("crash")
  PROVE  ViewsAccounted'
  <1>1. /\ recordQ'[b] = recordQ[b] + 1
        /\ \A c \in Board \ {b} : recordQ'[c] = recordQ[c]
    BY DEF PublishRecord, TypeInv, TypeOK
  <1>2. \/ used'["fault"] = used["fault"] + 1 /\ used'["crash"] = used["crash"]
        \/ used'["crash"] = used["crash"] + 1 /\ used'["fault"] = used["fault"]
    BY DEF Spend, TypeInv, TypeOK, Kind
  <1> QED BY <1>1, <1>2, CountsAreNats DEF ViewsAccounted, Exists

\* So is a message that is lost.
LEMMA CountLost ==
  ASSUME TypeInv, ViewsAccounted, NEW b \in Board, recordQ[b] > 0,
         recordQ' = [recordQ EXCEPT ![b] = @ - 1], UNCHANGED <<rows, served>>,
         Spend("crash")
  PROVE  ViewsAccounted'
  <1>1. /\ recordQ'[b] = recordQ[b] - 1
        /\ \A c \in Board \ {b} : recordQ'[c] = recordQ[c]
    BY DEF TypeInv, TypeOK
  <1>2. used'["crash"] = used["crash"] + 1 /\ used'["fault"] = used["fault"]
    BY DEF Spend, TypeInv, TypeOK, Kind
  <1> QED BY <1>1, <1>2, CountsAreNats DEF ViewsAccounted, Exists

LEMMA CountRecorded ==
  ASSUME TypeInv, ViewsAccounted, NEW w \in Worker, NEW b \in Board, RecordView(w, b)
  PROVE  ViewsAccounted'
  <1>1. recordQ'[b] = recordQ[b] - 1
    BY DEF RecordView, TypeInv, TypeOK
  <1>2. \A c \in Board \ {b} :
          rows'[c] = rows[c] /\ recordQ'[c] = recordQ[c] /\ served'[c] = served[c]
    BY DEF RecordView, TypeInv, TypeOK
  <1>3. Exists(b)' => Exists(b) /\ rows'[b].views = rows[b].views + 1
    BY RecordViewEffect DEF RecordView, Exists
  <1>4. UNCHANGED <<served, used>>
    BY DEF RecordView
  <1> QED BY <1>1, <1>2, <1>3, <1>4, CountsAreNats DEF ViewsAccounted, Exists

LEMMA CountCreated ==
  ASSUME TypeInv, TypeInv', UsedGrows, ViewsAccounted, NEW p \in Web, UploadCreate(p)
  PROVE  ViewsAccounted'
  <1>1. CASE UNCHANGED rows
    BY <1>1, CountKept DEF UploadCreate, queues, SameViews, Exists
  <1>2. CASE nextPk \in Board /\ rows' = [rows EXCEPT ![nextPk] = NewRow(web[p].file)]
    <2>1. PICK b \in Board : b = nextPk
      BY <1>2
    <2>2. recordQ[b] = 0 /\ served[b] = 0
      BY <2>1, BoundAssumption DEF TypeInv, Unborn, Board
    <2>3. rows'[b] = NewRow(web[p].file) /\ \A c \in Board \ {b} : rows'[c] = rows[c]
      BY <1>2, <2>1 DEF TypeInv, TypeOK
    <2>4. rows'[b].views = 0
      BY <2>3 DEF NewRow
    <2>5. UNCHANGED <<recordQ, served, used>>
      BY DEF UploadCreate, queues
    <2> QED BY <2>2, <2>3, <2>4, <2>5, CountsAreNats DEF ViewsAccounted, Exists
  <1> QED BY <1>1, <1>2 DEF UploadCreate

LEMMA CountNext ==
  ASSUME TypeInv, TypeInv', NoPatching, NoPatches, ViewsAccounted, [Next]_vars
  PROVE  ViewsAccounted'
  <1>0. UsedGrows
    BY NextGrows
  <1>1. ASSUME UNCHANGED <<rows, recordQ, served>> PROVE ViewsAccounted'
    BY <1>0, <1>1, CountKept DEF SameViews, Exists
  <1>3. ASSUME NEW p \in Web, NewRequest(p) PROVE ViewsAccounted'
    BY <1>1, <1>3 DEF NewRequest, Upload, Patch, Delete, Reparse, View, store, queues
  <1>4. ASSUME NEW p \in Web, ViewHit(p) \/ ViewSet(p) PROVE ViewsAccounted'
    <2>1. web[p].pk \in Board
      BY <1>4, WebHeld DEF ViewHit, ViewSet, WebAt, HasPk
    <2>2. CASE ViewHit(p)
      BY <2>1, <2>2, CountServed, CountUnserved DEF ViewHit, store
    <2>3. CASE ViewSet(p)
      BY <1>1, <2>1, <2>3, CountServed DEF ViewSet
    <2> QED BY <1>4, <2>2, <2>3
  <1>5. ASSUME NEW p \in Web, DeleteRow(p) \/ ReparseSave(p) PROVE ViewsAccounted'
    <2>1. web[p].pk \in Board
      BY <1>5, WebHeld DEF DeleteRow, ReparseSave, WebAt, HasPk
    <2> QED BY <1>0, <1>5, <2>1, CountSaved DEF DeleteRow, ReparseSave, Status, queues
  <1>6. ASSUME NEW p \in Web, WebStep(p) PROVE ViewsAccounted'
    BY <1>0, <1>1, <1>4, <1>5, <1>6, CountCreated
       DEF WebStep, UploadPut, Publish, PatchSave, WebAt, NoPatching, DeleteCache,
           DeleteS3, ViewGet, ViewRead, store, queues
  <1>7. ASSUME NEW w \in Worker, ParseReject(w) \/ ParseSucceed(w) \/ ParseFail(w)
        PROVE  ViewsAccounted'
    <2>1. worker[w].pk \in Board
      BY <1>7, WorkerHeld DEF ParseReject, ParseSucceed, ParseFail, WorkerAt
    <2> QED BY <1>0, <1>7, <2>1, CountSaved
          DEF ParseReject, ParseSucceed, ParseFail, Status, queues
  <1>8. ASSUME NEW w \in Worker, NEW b \in Board, NEW n \in 0 .. ParseRetries,
               StartParse(w, b, n)
        PROVE  ViewsAccounted'
    BY <1>0, <1>8, CountSaved DEF StartParse, Status
  <1>9. ASSUME NEW w \in Worker, WorkerStep(w) PROVE ViewsAccounted'
    BY <1>1, <1>7, <1>8, <1>9, CountRecorded
       DEF WorkerStep, StartRefresh, Invalidate, ParseRead, ParseCache, ParseRetry,
           RefreshRead, RefreshSet, store, queues
  <1>10. ASSUME Lose PROVE ViewsAccounted'
    BY <1>1, <1>10, CountLost DEF Lose, store
  <1>11. ASSUME Environment PROVE ViewsAccounted'
    BY <1>1, <1>10, <1>11 DEF Environment, Age, Evict, WorkerDies, WebDies, store, queues
  <1> QED BY <1>1, <1>3, <1>6, <1>9, <1>11 DEF Next, vars

\* Where no PATCH saves a stale view_count, every 200 answer of the view endpoint
\* is counted once, and nothing else is, but for the messages that are lost and
\* the views that an error or a death ends after they are recorded, however many
\* requests, tasks and processes interleave.
THEOREM ViewsCounted == ASSUME NoPatches PROVE Spec => []ViewsAccounted
  <1>1. Init => ViewsAccounted
    BY DEF Init, ViewsAccounted, Exists
  <1>2. TypeInv /\ NoPatching /\ TypeInv' /\ ViewsAccounted /\ [Next]_vars
          => ViewsAccounted'
    BY CountNext
  <1> QED BY <1>1, <1>2, NoPatchingInvariance, PTL DEF Spec
=============================================================================
