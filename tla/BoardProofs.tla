----------------------------- MODULE BoardProofs -----------------------------
(***************************************************************************)
(* Theorems of BoardPipeline and SeedBoard for every set of contents,      *)
(* extensions, web threads and workers, and every bound: types (TypeInv),  *)
(* the safety invariants of the pipeline with every action (SafeInv), and  *)
(* what holds with the seed command at work next to it (SeedInv).          *)
(***************************************************************************)
EXTENDS BoardRefinement, SeedBoard, TLAPS

(***************************************************************************)
(* What a thread or a worker holds while it is busy: the row it loaded.    *)
(***************************************************************************)
HasFile == {"put", "create", "patch", "del_cache", "del_s3", "del_row",
            "get", "hit", "read", "set"}
HasPk == {"publish", "patch", "del_cache", "del_s3", "del_row", "reparse",
          "get", "hit", "read", "set"}

WebHolds ==
    \A p \in Web :
        /\ web[p].pc \in HasFile => web[p].file \in File
        /\ web[p].pc \in HasPk => web[p].pk \in Board /\ web[p].pk < nextPk
        /\ web[p].pc = "patch" => web[p].image \in Row

WorkerHolds ==
    \A w \in Worker :
        worker[w].pc # "idle" =>
            worker[w].pk \in Board /\ worker[w].pk < nextPk /\ worker[w].file \in File

\* Nothing refers to a primary key before it is handed out.
Unborn ==
    \A b \in Board : b >= nextPk => rows[b] = None /\ recordQ[b] = 0 /\ served[b] = 0

TypeInv == TypeOK /\ WebHolds /\ WorkerHolds /\ Unborn

LEMMA InitTypeInv == Init => TypeInv
  BY BoundAssumption DEF Init, TypeInv, TypeOK, WebHolds, WorkerHolds, Unborn, Board,
     IdleRequest, IdleJob, Request, Job, WebPc, WorkerPc, HasFile, HasPk,
     ParseRetries, RefreshRetries

-----------------------------------------------------------------------------
(* The helpers keep the types. *)

LEMMA IdleTypes == IdleRequest \in Request /\ IdleJob \in Job
  BY DEF IdleRequest, Request, WebPc, IdleJob, Job, WorkerPc, ParseRetries

LEMMA RowWith ==
  ASSUME NEW r \in Row, NEW st \in Status
  PROVE  /\ [r EXCEPT !.status = st] \in Row
         /\ [r EXCEPT !.status = "success", !.counted = TRUE] \in Row
         /\ [r EXCEPT !.views = @ + 1] \in Row
  <1>1. [r EXCEPT !.status = st] \in Row
    BY DEF Row
  <1>2. [r EXCEPT !.status = "success", !.counted = TRUE] \in Row
    BY DEF Row, Status
  <1>3. r.views \in Nat
    BY DEF Row
  <1>4. [r EXCEPT !.views = @ + 1] \in Row
    BY <1>3 DEF Row
  <1> QED BY <1>1, <1>2, <1>4

LEMMA SaveStatusType ==
  ASSUME TypeOK, NEW b \in Board, Exists(b), NEW st \in Status, SaveStatus(b, st)
  PROVE  rows' \in [Board -> Row \cup {None}]
  BY RowWith DEF TypeOK, Exists, SaveStatus

LEMMA SaveSuccessType ==
  ASSUME TypeOK, NEW b \in Board, Exists(b), SaveSuccess(b)
  PROVE  rows' \in [Board -> Row \cup {None}]
  <1>1. rows[b] \in Row
    BY DEF TypeOK, Exists
  <1>2. [rows[b] EXCEPT !.status = "success", !.counted = TRUE] \in Row
    BY <1>1, RowWith DEF Status
  <1> QED BY <1>2 DEF TypeOK, SaveSuccess

LEMMA PublishParseType ==
  ASSUME TypeOK, NEW b \in Board, NEW n \in 0 .. ParseRetries, PublishParse(b, n)
  PROVE  parseQ' \in [Board -> [0 .. ParseRetries -> Nat]]
  <1>1. parseQ[b] \in [0 .. ParseRetries -> Nat]
    BY DEF TypeOK
  <1>2. \A g \in [0 .. ParseRetries -> Nat] : [g EXCEPT ![n] = g[n] + 1] \in [0 .. ParseRetries -> Nat]
    OBVIOUS
  <1>3. [parseQ[b] EXCEPT ![n] = @ + 1] \in [0 .. ParseRetries -> Nat]
    BY <1>1, <1>2
  <1> QED BY <1>3 DEF TypeOK, PublishParse

LEMMA CacheSetType ==
  ASSUME TypeOK, NEW f \in File, CacheSet(f)
  PROVE  cache' \in [Hash -> Entry \cup {None}]
  BY DEF TypeOK, CacheSet, Entry, File

LEMMA SpendType ==
  ASSUME TypeOK, NEW k \in Kind, Spend(k)
  PROVE  used' \in [Kind -> Nat]
  BY DEF TypeOK, Spend

-----------------------------------------------------------------------------
(* The steps of a thread, and of a worker. *)

WebInv == web \in [Web -> Request] /\ WebHolds
WorkerInv == worker \in [Worker -> Job] /\ WorkerHolds

LEMMA WebGoInv ==
  ASSUME TypeInv, NEW p \in Web, NEW pc \in WebPc, WebGo(p, pc), nextPk' = nextPk,
         pc \in HasFile => web[p].file \in File,
         pc \in HasPk => web[p].pk \in Board /\ web[p].pk < nextPk,
         pc # "patch"
  PROVE  WebInv'
  BY ZenonT(60) DEF TypeInv, TypeOK, WebHolds, WebInv, WebGo, Request

LEMMA AnswerInv ==
  ASSUME TypeInv, NEW p \in Web, Answer(p), nextPk' = nextPk
  PROVE  WebInv'
  BY IdleTypes DEF TypeInv, TypeOK, WebHolds, WebInv, Answer, IdleRequest, HasFile, HasPk

LEMMA HoldInv ==
  ASSUME TypeInv, NEW p \in Web, NEW pc \in WebPc, NEW b \in Board \cup {0}, NEW f \in File \cup {None},
         Hold(p, pc, b, f), nextPk' \in Nat, nextPk <= nextPk',
         pc \in HasFile => f \in File,
         pc \in HasPk => b \in Board /\ b < nextPk',
         pc # "patch"
  PROVE  WebInv'
  <1> DEFINE r == [pc |-> pc, pk |-> b, file |-> f, image |-> None]
  <1>1. r \in Request
    BY DEF Request
  <1>2. nextPk \in Nat /\ Board \subseteq Nat
    BY BoundAssumption DEF TypeInv, TypeOK, Board
  <1>3. web' = [web EXCEPT ![p] = r] /\ r.pc = pc /\ r.pk = b /\ r.file = f
    BY DEF Hold
  <1> HIDE DEF r
  <1>4. web' \in [Web -> Request]
    BY <1>1, <1>3 DEF TypeInv, TypeOK
  <1>5. web'[p] = r
    BY <1>3 DEF TypeInv, TypeOK
  <1>6. \A c \in Board : c < nextPk => c < nextPk'
    BY <1>2
  <1>7. ASSUME NEW q \in Web, q # p PROVE web'[q] = web[q]
    BY <1>3, <1>7 DEF TypeInv, TypeOK
  <1>8. WebHolds'
    <2> SUFFICES ASSUME NEW q \in Web
                 PROVE  /\ web'[q].pc \in HasFile => web'[q].file \in File
                        /\ web'[q].pc \in HasPk => web'[q].pk \in Board /\ web'[q].pk < nextPk'
                        /\ web'[q].pc = "patch" => web'[q].image \in Row
      BY DEF WebHolds
    <2>1. CASE q = p
      BY <1>3, <1>5, <2>1
    <2>2. CASE q # p
      BY <1>6, <1>7, <2>2 DEF TypeInv, WebHolds
    <2> QED BY <2>1, <2>2
  <1> QED BY <1>4, <1>8 DEF WebInv

LEMMA WebSame ==
  ASSUME TypeInv, web' = web, nextPk' = nextPk
  PROVE  WebInv'
  BY DEF TypeInv, TypeOK, WebHolds, WebInv

LEMMA WorkerGoInv ==
  ASSUME TypeInv, NEW w \in Worker, NEW pc \in WorkerPc, WorkerGo(w, pc), nextPk' = nextPk,
         worker[w].pc # "idle"
  PROVE  WorkerInv'
  BY DEF TypeInv, TypeOK, WorkerHolds, WorkerInv, WorkerGo, Job

LEMMA TaskDoneInv ==
  ASSUME TypeInv, NEW w \in Worker, TaskDone(w), nextPk' = nextPk
  PROVE  WorkerInv'
  BY IdleTypes DEF TypeInv, TypeOK, WorkerHolds, WorkerInv, TaskDone, IdleJob

LEMMA TakeInv ==
  ASSUME TypeInv, NEW w \in Worker, NEW pc \in WorkerPc, NEW b \in Board, NEW n \in 0 .. ParseRetries,
         Exists(b), Take(w, pc, b, n), nextPk' = nextPk
  PROVE  WorkerInv'
  <1> DEFINE r == [pc |-> pc, pk |-> b, file |-> rows[b].file, n |-> n]
  <1>1. rows[b].file \in File /\ b < nextPk
    BY BoundAssumption DEF TypeInv, TypeOK, Exists, Row, Unborn, Board
  <1>2. r \in Job
    BY <1>1 DEF Job
  <1>3. worker' = [worker EXCEPT ![w] = r] /\ r.pk = b /\ r.file = rows[b].file
    BY DEF Take
  <1> HIDE DEF r
  <1> QED BY <1>1, <1>2, <1>3 DEF TypeInv, TypeOK, WorkerHolds, WorkerInv

LEMMA WorkerSame ==
  ASSUME TypeInv, worker' = worker, nextPk' \in Nat, nextPk <= nextPk'
  PROVE  WorkerInv'
  <1>1. nextPk \in Nat /\ Board \subseteq Nat
    BY BoundAssumption DEF TypeInv, TypeOK, Board
  <1>2. \A c \in Board : c < nextPk => c < nextPk'
    BY <1>1
  <1> QED BY <1>2 DEF TypeInv, TypeOK, WorkerHolds, WorkerInv

LEMMA ExistsBorn ==
  ASSUME TypeInv, NEW b \in Board, Exists(b)
  PROVE  b < nextPk /\ rows[b] \in Row /\ rows[b].file \in File
  <1>1. b \in Nat /\ nextPk \in Nat
    BY BoundAssumption DEF TypeInv, TypeOK, Board
  <1>2. ~(b >= nextPk) /\ rows[b] \in Row
    BY DEF TypeInv, TypeOK, Unborn, Exists
  <1> QED BY <1>1, <1>2 DEF Row

\* Only a board that was handed out is touched.
LEMMA UnbornKept ==
  ASSUME TypeInv, NEW b \in Board, b < nextPk, nextPk' = nextPk,
         \A c \in Board \ {b} :
            rows'[c] = rows[c] /\ recordQ'[c] = recordQ[c] /\ served'[c] = served[c]
  PROVE  Unborn'
  <1>1. \A c \in Board : c >= nextPk => c # b
    BY BoundAssumption DEF TypeInv, TypeOK, Board
  <1> QED BY <1>1 DEF TypeInv, Unborn

LEMMA UnbornSame ==
  ASSUME TypeInv, UNCHANGED <<rows, recordQ, served, nextPk>>
  PROVE  Unborn'
  BY DEF TypeInv, Unborn

\* A save to a row that exists.
LEMMA SaveInv ==
  ASSUME TypeInv, NEW b \in Board, Exists(b), UNCHANGED <<recordQ, served, nextPk>>,
         \/ \E st \in Status : SaveStatus(b, st)
         \/ SaveSuccess(b)
  PROVE  rows' \in [Board -> Row \cup {None}] /\ Unborn'
  <1>1. b < nextPk
    BY ExistsBorn
  <1>2. \A c \in Board \ {b} : rows'[c] = rows[c]
    BY DEF SaveStatus, SaveSuccess, TypeInv, TypeOK
  <1>3. Unborn'
    BY <1>1, <1>2, UnbornKept
  <1>4. rows' \in [Board -> Row \cup {None}]
    BY SaveStatusType, SaveSuccessType DEF TypeInv
  <1> QED BY <1>3, <1>4

\* What a thread or a worker finds at hand in each of its steps.
LEMMA WebHeld ==
  ASSUME TypeInv, NEW p \in Web
  PROVE  /\ web[p].pc \in HasFile => web[p].file \in File
         /\ web[p].pc \in HasPk => web[p].pk \in Board /\ web[p].pk < nextPk
         /\ web[p].pc = "patch" => web[p].image \in Row
  BY DEF TypeInv, WebHolds

LEMMA WorkerHeld ==
  ASSUME TypeInv, NEW w \in Worker, worker[w].pc # "idle"
  PROVE  worker[w].pk \in Board /\ worker[w].pk < nextPk /\ worker[w].file \in File
         /\ worker[w].n \in 0 .. ParseRetries
  BY DEF TypeInv, TypeOK, WorkerHolds, Job

-----------------------------------------------------------------------------
(* Every action keeps TypeInv: what the web threads do. *)

LEMMA UploadType ==
  ASSUME TypeInv, NEW p \in Web, NEW f \in File, Upload(p, f) PROVE TypeInv'
  <1>1. nextPk' = nextPk /\ nextPk \in Nat
    BY BoundAssumption DEF Upload, store, TypeInv, TypeOK
  <1>2. ASSUME Hold(p, "put", 0, f) PROVE WebInv'
    BY <1>1, <1>2, HoldInv DEF WebPc, HasFile, HasPk
  <1>3. ASSUME web' = web PROVE WebInv'
    BY <1>1, <1>3, WebSame
  <1>4. WebInv'
    BY <1>2, <1>3 DEF Upload
  <1>5. WorkerInv' /\ Unborn'
    BY <1>1, WorkerSame, UnbornSame DEF Upload, store, queues
  <1>6. used' \in [Kind -> Nat]
    BY SpendType DEF Upload, Kind, TypeInv
  <1> QED BY <1>4, <1>5, <1>6 DEF Upload, store, queues, TypeInv, TypeOK, WebInv, WorkerInv

LEMMA UploadPutType ==
  ASSUME TypeInv, NEW p \in Web, UploadPut(p) PROVE TypeInv'
  <1>1. web[p].file \in File /\ nextPk' = nextPk /\ nextPk \in Nat
    BY WebHeld, BoundAssumption DEF UploadPut, WebAt, HasFile, TypeInv, TypeOK
  <1>2. WebInv'
    BY <1>1, WebGoInv, AnswerInv DEF UploadPut, WebPc, HasFile, HasPk
  <1>3. WorkerInv' /\ Unborn'
    BY <1>1, WorkerSame, UnbornSame DEF UploadPut, queues
  <1>4. used' \in [Kind -> Nat] /\ s3' \subseteq File
    BY <1>1, SpendType DEF UploadPut, Kind, TypeInv, TypeOK
  <1> QED BY <1>2, <1>3, <1>4 DEF UploadPut, queues, TypeInv, TypeOK, WebInv, WorkerInv

LEMMA NewRowType == ASSUME NEW f \in File PROVE NewRow(f) \in Row
  BY DEF NewRow, Row, Access, Status

LEMMA UploadCreateType ==
  ASSUME TypeInv, NEW p \in Web, UploadCreate(p) PROVE TypeInv'
  <1>1. web[p].file \in File /\ nextPk \in Nat
    BY WebHeld, BoundAssumption DEF UploadCreate, WebAt, HasFile, TypeInv, TypeOK
  <1>2. CASE Answer(p) /\ UNCHANGED <<rows, nextPk>>
    <2>1. WebInv' /\ WorkerInv' /\ Unborn'
      BY <1>1, <1>2, AnswerInv, WorkerSame, UnbornSame DEF UploadCreate, queues
    <2> QED BY <1>2, <2>1 DEF UploadCreate, queues, TypeInv, TypeOK, WebInv, WorkerInv
  <1>3. CASE /\ nextPk \in Board
             /\ rows' = [rows EXCEPT ![nextPk] = NewRow(web[p].file)]
             /\ nextPk' = nextPk + 1
             /\ Hold(p, "publish", nextPk, None)
    <2>1. nextPk' \in Nat /\ nextPk < nextPk' /\ nextPk <= nextPk' /\ nextPk' \in 1 .. MaxBoard + 1
      BY <1>1, <1>3, BoundAssumption DEF Board
    <2>2. WebInv'
      BY <1>3, <2>1, HoldInv DEF WebPc, HasFile, HasPk
    <2>3. WorkerInv'
      BY <2>1, WorkerSame DEF UploadCreate
    <2>4. rows' \in [Board -> Row \cup {None}]
      BY <1>1, <1>3, NewRowType DEF TypeInv, TypeOK
    <2>5. \A c \in Board : c >= nextPk' => c >= nextPk /\ c # nextPk
      BY <1>1, <1>3, BoundAssumption DEF Board
    <2>6. Unborn'
      BY <1>3, <2>5 DEF UploadCreate, queues, TypeInv, TypeOK, Unborn
    <2> QED BY <2>1, <2>2, <2>3, <2>4, <2>6
        DEF UploadCreate, queues, TypeInv, TypeOK, WebInv, WorkerInv
  <1> QED BY <1>2, <1>3 DEF UploadCreate

LEMMA PublishType ==
  ASSUME TypeInv, NEW p \in Web, Publish(p) PROVE TypeInv'
  <1>1. web[p].pk \in Board /\ nextPk' = nextPk /\ nextPk \in Nat
    BY WebHeld, BoundAssumption DEF Publish, WebAt, HasPk, store, TypeInv, TypeOK
  <1>2. WebInv' /\ WorkerInv' /\ Unborn'
    BY <1>1, AnswerInv, WorkerSame, UnbornSame DEF Publish, store
  <1>3. parseQ' \in [Board -> [0 .. ParseRetries -> Nat]]
    BY <1>1, PublishParseType DEF Publish, ParseRetries, TypeInv
  <1> QED BY <1>2, <1>3 DEF Publish, store, TypeInv, TypeOK, WebInv, WorkerInv

LEMMA PatchType ==
  ASSUME TypeInv, NEW p \in Web, NEW b \in Board, NEW access \in Access,
         Patch(p, b, access)
  PROVE  TypeInv'
  <1> DEFINE image == [rows[b] EXCEPT !.access = access]
             r == [pc |-> "patch", pk |-> b, file |-> rows[b].file, image |-> image]
  <1>1. Exists(b) /\ rows[b] \in Row /\ rows[b].file \in File /\ b < nextPk
    BY ExistsBorn DEF Patch
  <1>2. image \in Row
    BY <1>1 DEF Row
  <1>3. r \in Request
    BY <1>1, <1>2 DEF Request, WebPc
  <1>4. /\ web' = [web EXCEPT ![p] = r] /\ nextPk' = nextPk /\ nextPk \in Nat
        /\ r.pk = b /\ r.file = rows[b].file /\ r.image = image
    BY BoundAssumption DEF Patch, store, TypeInv, TypeOK
  <1>5. WebInv'
    <2> HIDE DEF r, image
    <2> QED BY <1>1, <1>2, <1>3, <1>4 DEF TypeInv, TypeOK, WebHolds, WebInv
  <1>6. WorkerInv' /\ Unborn'
    BY <1>4, WorkerSame, UnbornSame DEF Patch, store, queues
  <1>7. used' \in [Kind -> Nat]
    BY SpendType DEF Patch, Kind, TypeInv
  <1> QED BY <1>5, <1>6, <1>7 DEF Patch, store, queues, TypeInv, TypeOK, WebInv, WorkerInv

LEMMA PatchSaveType ==
  ASSUME TypeInv, NEW p \in Web, PatchSave(p) PROVE TypeInv'
  <1>1. /\ web[p].pk \in Board /\ web[p].pk < nextPk /\ web[p].image \in Row
        /\ nextPk' = nextPk /\ nextPk \in Nat
    BY WebHeld, BoundAssumption DEF PatchSave, WebAt, HasPk, TypeInv, TypeOK
  <1>2. WebInv' /\ WorkerInv'
    BY <1>1, AnswerInv, WorkerSame DEF PatchSave
  <1>3. rows' \in [Board -> Row \cup {None}]
    BY <1>1 DEF PatchSave, TypeInv, TypeOK
  <1>4. \A c \in Board \ {web[p].pk} : rows'[c] = rows[c]
    BY DEF PatchSave, TypeInv, TypeOK
  <1>5. Unborn'
    BY <1>1, <1>4, UnbornKept DEF PatchSave, queues
  <1> QED BY <1>2, <1>3, <1>5 DEF PatchSave, queues, TypeInv, TypeOK, WebInv, WorkerInv

LEMMA DeleteType ==
  ASSUME TypeInv, NEW p \in Web, NEW b \in Board, Delete(p, b) PROVE TypeInv'
  <1>1. /\ rows[b].file \in File /\ b < nextPk
        /\ nextPk' = nextPk /\ nextPk \in Nat
    BY ExistsBorn, BoundAssumption DEF Delete, store, TypeInv, TypeOK
  <1>2. WebInv'
    BY <1>1, HoldInv DEF Delete, WebPc, HasFile, HasPk
  <1>3. WorkerInv' /\ Unborn'
    BY <1>1, WorkerSame, UnbornSame DEF Delete, store, queues
  <1>4. used' \in [Kind -> Nat]
    BY SpendType DEF Delete, Kind, TypeInv
  <1> QED BY <1>2, <1>3, <1>4 DEF Delete, store, queues, TypeInv, TypeOK, WebInv, WorkerInv

LEMMA DeleteCacheType ==
  ASSUME TypeInv, NEW p \in Web, DeleteCache(p) PROVE TypeInv'
  <1>1. /\ web[p].file \in File /\ web[p].pk \in Board /\ web[p].pk < nextPk
        /\ nextPk' = nextPk /\ nextPk \in Nat
    BY WebHeld, BoundAssumption DEF DeleteCache, WebAt, HasFile, HasPk, TypeInv, TypeOK
  <1>2. WebInv'
    BY <1>1, WebGoInv, AnswerInv DEF DeleteCache, WebPc, HasFile, HasPk
  <1>3. WorkerInv' /\ Unborn'
    BY <1>1, WorkerSame, UnbornSame DEF DeleteCache, queues
  <1>4. used' \in [Kind -> Nat] /\ cache' \in [Hash -> Entry \cup {None}]
    BY SpendType DEF DeleteCache, CacheFails, Kind, TypeInv, TypeOK
  <1> QED BY <1>2, <1>3, <1>4 DEF DeleteCache, queues, TypeInv, TypeOK, WebInv, WorkerInv

LEMMA DeleteS3Type ==
  ASSUME TypeInv, NEW p \in Web, DeleteS3(p) PROVE TypeInv'
  <1>1. /\ web[p].file \in File /\ web[p].pk \in Board /\ web[p].pk < nextPk
        /\ nextPk' = nextPk /\ nextPk \in Nat
    BY WebHeld, BoundAssumption DEF DeleteS3, WebAt, HasFile, HasPk, TypeInv, TypeOK
  <1>2. WebInv'
    BY <1>1, WebGoInv DEF DeleteS3, WebPc, HasFile, HasPk
  <1>3. WorkerInv' /\ Unborn'
    BY <1>1, WorkerSame, UnbornSame DEF DeleteS3, queues
  <1>4. used' \in [Kind -> Nat] /\ s3' \subseteq File
    BY SpendType DEF DeleteS3, Kind, TypeInv, TypeOK
  <1> QED BY <1>2, <1>3, <1>4 DEF DeleteS3, queues, TypeInv, TypeOK, WebInv, WorkerInv

LEMMA DeleteRowType ==
  ASSUME TypeInv, NEW p \in Web, DeleteRow(p) PROVE TypeInv'
  <1>1. /\ web[p].pk \in Board /\ web[p].pk < nextPk
        /\ nextPk' = nextPk /\ nextPk \in Nat
    BY WebHeld, BoundAssumption DEF DeleteRow, WebAt, HasPk, TypeInv, TypeOK
  <1>2. WebInv' /\ WorkerInv'
    BY <1>1, AnswerInv, WorkerSame DEF DeleteRow
  <1>3. rows' \in [Board -> Row \cup {None}]
    BY <1>1 DEF DeleteRow, TypeInv, TypeOK
  <1>4. \A c \in Board \ {web[p].pk} : rows'[c] = rows[c]
    BY DEF DeleteRow, TypeInv, TypeOK
  <1>5. Unborn'
    BY <1>1, <1>4, UnbornKept DEF DeleteRow, queues
  <1> QED BY <1>2, <1>3, <1>5 DEF DeleteRow, queues, TypeInv, TypeOK, WebInv, WorkerInv

LEMMA ReparseType ==
  ASSUME TypeInv, NEW p \in Web, NEW b \in Board, Reparse(p, b) PROVE TypeInv'
  <1>1. /\ rows[b].file \in File /\ b < nextPk
        /\ nextPk' = nextPk /\ nextPk \in Nat
    BY ExistsBorn, BoundAssumption DEF Reparse, store, TypeInv, TypeOK
  <1>2. WebInv'
    BY <1>1, HoldInv DEF Reparse, WebPc, HasFile, HasPk
  <1>3. WorkerInv' /\ Unborn'
    BY <1>1, WorkerSame, UnbornSame DEF Reparse, store
  <1>4. used' \in [Kind -> Nat]
    BY SpendType DEF Reparse, Kind, TypeInv
  <1>5. rows[b].file[1] \in Hash
    BY <1>1 DEF File
  <1>6. invalidQ' \in [Hash -> Nat]
    BY <1>5 DEF Reparse, TypeInv, TypeOK
  <1> QED BY <1>2, <1>3, <1>4, <1>6 DEF Reparse, store, TypeInv, TypeOK, WebInv, WorkerInv

LEMMA ReparseSaveType ==
  ASSUME TypeInv, NEW p \in Web, ReparseSave(p) PROVE TypeInv'
  <1>1. /\ web[p].pk \in Board /\ web[p].pk < nextPk
        /\ nextPk' = nextPk /\ nextPk \in Nat
    BY WebHeld, BoundAssumption DEF ReparseSave, WebAt, HasPk, TypeInv, TypeOK
  <1>2. WebInv' /\ WorkerInv'
    BY <1>1, AnswerInv, WebGoInv, WorkerSame DEF ReparseSave, WebPc, HasFile, HasPk
  <1>3. rows' \in [Board -> Row \cup {None}] /\ Unborn'
    BY <1>1, SaveInv, UnbornSame DEF ReparseSave, queues, Status, TypeInv, TypeOK
  <1> QED BY <1>2, <1>3 DEF ReparseSave, queues, TypeInv, TypeOK, WebInv, WorkerInv

LEMMA ViewType ==
  ASSUME TypeInv, NEW p \in Web, NEW b \in Board, NEW admin \in BOOLEAN,
         View(p, b, admin)
  PROVE  TypeInv'
  <1>1. /\ rows[b].file \in File /\ b < nextPk
        /\ nextPk' = nextPk /\ nextPk \in Nat
    BY ExistsBorn, BoundAssumption DEF View, store, TypeInv, TypeOK
  <1>2. ASSUME Hold(p, "get", b, rows[b].file) PROVE WebInv'
    BY <1>1, <1>2, HoldInv DEF WebPc, HasFile, HasPk
  <1>3. ASSUME web' = web PROVE WebInv'
    BY <1>1, <1>3, WebSame
  <1>4. WebInv'
    BY <1>2, <1>3 DEF View
  <1>5. WorkerInv' /\ Unborn'
    BY <1>1, WorkerSame, UnbornSame DEF View, store, queues
  <1>6. used' \in [Kind -> Nat]
    BY SpendType DEF View, Kind, TypeInv
  <1> QED BY <1>4, <1>5, <1>6 DEF View, store, queues, TypeInv, TypeOK, WebInv, WorkerInv

LEMMA ViewGetType ==
  ASSUME TypeInv, NEW p \in Web, ViewGet(p) PROVE TypeInv'
  <1>1. /\ web[p].file \in File /\ web[p].pk \in Board /\ web[p].pk < nextPk
        /\ nextPk' = nextPk /\ nextPk \in Nat
    BY WebHeld, BoundAssumption DEF ViewGet, WebAt, HasFile, HasPk, TypeInv, TypeOK
  <1>2. WebInv'
    BY <1>1, WebGoInv, AnswerInv DEF ViewGet, WebPc, HasFile, HasPk
  <1>3. WorkerInv' /\ Unborn'
    BY <1>1, WorkerSame, UnbornSame DEF ViewGet, queues
  <1>4. used' \in [Kind -> Nat] /\ cache' = cache
    BY SpendType DEF ViewGet, CacheFails, Kind, TypeInv, TypeOK
  <1> QED BY <1>2, <1>3, <1>4 DEF ViewGet, queues, TypeInv, TypeOK, WebInv, WorkerInv

\* A message more or a message less keeps the other queues' types.
LEMMA CountTypes ==
  ASSUME TypeInv, NEW b \in Board
  PROVE  /\ [recordQ EXCEPT ![b] = @ + 1] \in [Board -> Nat]
         /\ [served EXCEPT ![b] = @ + 1] \in [Board -> Nat]
         /\ recordQ[b] > 0 => [recordQ EXCEPT ![b] = @ - 1] \in [Board -> Nat]
  BY DEF TypeInv, TypeOK

LEMMA PublishRefreshType ==
  ASSUME TypeOK, NEW b \in Board, NEW n \in 0 .. RefreshRetries, PublishRefresh(b, n)
  PROVE  refreshQ' \in [Board -> [0 .. RefreshRetries -> Nat]]
  <1>1. refreshQ[b] \in [0 .. RefreshRetries -> Nat]
    BY DEF TypeOK
  <1>2. \A g \in [0 .. RefreshRetries -> Nat] :
            [g EXCEPT ![n] = g[n] + 1] \in [0 .. RefreshRetries -> Nat]
    OBVIOUS
  <1>3. [refreshQ[b] EXCEPT ![n] = @ + 1] \in [0 .. RefreshRetries -> Nat]
    BY <1>1, <1>2
  <1> QED BY <1>3 DEF TypeOK, PublishRefresh

LEMMA ViewHitType ==
  ASSUME TypeInv, NEW p \in Web, ViewHit(p) PROVE TypeInv'
  <1>1. /\ web[p].pk \in Board /\ web[p].pk < nextPk
        /\ nextPk' = nextPk /\ nextPk \in Nat
    BY WebHeld, BoundAssumption DEF ViewHit, WebAt, HasPk, store, TypeInv, TypeOK
  <1>2. WebInv' /\ WorkerInv'
    BY <1>1, AnswerInv, WorkerSame DEF ViewHit
  <1>3. recordQ' \in [Board -> Nat] /\ served' \in [Board -> Nat]
    BY ZenonT(60), <1>1, CountTypes DEF ViewHit, PublishRecord, TypeInv, TypeOK
  <1>4. refreshQ' \in [Board -> [0 .. RefreshRetries -> Nat]]
    <2>1. 0 \in 0 .. RefreshRetries
      BY DEF RefreshRetries
    <2>2. ASSUME PublishRefresh(web[p].pk, 0)
          PROVE  refreshQ' \in [Board -> [0 .. RefreshRetries -> Nat]]
      BY <1>1, <2>1, <2>2, PublishRefreshType DEF TypeInv
    <2>3. ASSUME refreshQ' = refreshQ
          PROVE  refreshQ' \in [Board -> [0 .. RefreshRetries -> Nat]]
      BY <2>3 DEF TypeInv, TypeOK
    <2> QED BY <2>2, <2>3 DEF ViewHit
  <1>5. \A c \in Board \ {web[p].pk} : recordQ'[c] = recordQ[c] /\ served'[c] = served[c]
    BY DEF ViewHit, PublishRecord, TypeInv, TypeOK
  <1>6. Unborn'
    BY <1>1, <1>5, UnbornKept DEF ViewHit, store
  <1>7. used' \in [Kind -> Nat]
    BY SpendType DEF ViewHit, Kind, TypeInv, TypeOK
  <1> QED BY <1>2, <1>3, <1>4, <1>6, <1>7 DEF ViewHit, store, TypeInv, TypeOK, WebInv, WorkerInv

LEMMA ReadType ==
  ASSUME TypeInv, NEW f \in File, ReadFails(f) \/ ReadWorks(f)
  PROVE  used' \in [Kind -> Nat]
  BY SpendType DEF ReadFails, ReadWorks, Kind, TypeInv, TypeOK

LEMMA ViewReadType ==
  ASSUME TypeInv, NEW p \in Web, ViewRead(p) PROVE TypeInv'
  <1>1. /\ web[p].file \in File /\ web[p].pk \in Board /\ web[p].pk < nextPk
        /\ nextPk' = nextPk /\ nextPk \in Nat
    BY WebHeld, BoundAssumption DEF ViewRead, WebAt, HasFile, HasPk, store, TypeInv, TypeOK
  <1>2. WebInv'
    BY <1>1, WebGoInv, AnswerInv DEF ViewRead, WebPc, HasFile, HasPk
  <1>3. WorkerInv' /\ Unborn'
    BY <1>1, WorkerSame, UnbornSame DEF ViewRead, store, queues
  <1>4. used' \in [Kind -> Nat]
    BY <1>1, ReadType DEF ViewRead
  <1> QED BY <1>2, <1>3, <1>4 DEF ViewRead, store, queues, TypeInv, TypeOK, WebInv, WorkerInv

LEMMA ViewSetType ==
  ASSUME TypeInv, NEW p \in Web, ViewSet(p) PROVE TypeInv'
  <1>1. /\ web[p].file \in File /\ web[p].pk \in Board /\ web[p].pk < nextPk
        /\ nextPk' = nextPk /\ nextPk \in Nat
    BY WebHeld, BoundAssumption DEF ViewSet, WebAt, HasFile, HasPk, TypeInv, TypeOK
  <1>2. WebInv' /\ WorkerInv'
    BY <1>1, AnswerInv, WorkerSame DEF ViewSet
  <1>3. recordQ' \in [Board -> Nat] /\ served' \in [Board -> Nat]
    <2>1. CASE UNCHANGED <<recordQ, served>>
      BY <2>1 DEF TypeInv, TypeOK
    <2>2. CASE PublishRecord(web[p].pk) /\ served' = [served EXCEPT ![web[p].pk] = @ + 1]
      BY <1>1, <2>2, CountTypes DEF PublishRecord
    <2> QED BY <2>1, <2>2 DEF ViewSet
  <1>4. cache' \in [Hash -> Entry \cup {None}]
    BY <1>1, CacheSetType DEF ViewSet, CacheFails, TypeInv, TypeOK
  <1>5. used' \in [Kind -> Nat]
    BY SpendType DEF ViewSet, CacheFails, Kind, TypeInv, TypeOK
  <1>6. \A c \in Board \ {web[p].pk} : recordQ'[c] = recordQ[c] /\ served'[c] = served[c]
    BY DEF ViewSet, PublishRecord, TypeInv, TypeOK
  <1>7. Unborn'
    BY <1>1, <1>6, UnbornKept DEF ViewSet
  <1> QED BY <1>2, <1>3, <1>4, <1>5, <1>7 DEF ViewSet, TypeInv, TypeOK, WebInv, WorkerInv

-----------------------------------------------------------------------------
(* Every action keeps TypeInv: what the workers do, and the environment. *)

LEMMA StartParseType ==
  ASSUME TypeInv, NEW w \in Worker, NEW b \in Board, NEW n \in 0 .. ParseRetries,
         StartParse(w, b, n)
  PROVE  TypeInv'
  <1>1. nextPk' = nextPk /\ nextPk \in Nat
    BY BoundAssumption DEF StartParse, TypeInv, TypeOK
  <1>2. WebInv'
    BY <1>1, WebSame DEF StartParse
  <1>3. WorkerInv'
    BY <1>1, TakeInv, WorkerSame DEF StartParse, WorkerPc
  <1>4. rows' \in [Board -> Row \cup {None}] /\ Unborn'
    BY <1>1, SaveInv, UnbornSame DEF StartParse, Status, TypeInv, TypeOK
  <1>5. parseQ[b] \in [0 .. ParseRetries -> Nat] /\ parseQ[b][n] > 0
    BY DEF StartParse, TypeInv, TypeOK
  <1>6. \A g \in [0 .. ParseRetries -> Nat] :
            g[n] > 0 => [g EXCEPT ![n] = g[n] - 1] \in [0 .. ParseRetries -> Nat]
    OBVIOUS
  <1>7. [parseQ[b] EXCEPT ![n] = @ - 1] \in [0 .. ParseRetries -> Nat]
    BY <1>5, <1>6
  <1>8. parseQ' \in [Board -> [0 .. ParseRetries -> Nat]]
    BY <1>7 DEF StartParse, TypeInv, TypeOK
  <1> QED BY <1>2, <1>3, <1>4, <1>8 DEF StartParse, TypeInv, TypeOK, WebInv, WorkerInv

LEMMA ParseReadType ==
  ASSUME TypeInv, NEW w \in Worker, ParseRead(w) PROVE TypeInv'
  <1>1. worker[w].pc # "idle" /\ nextPk' = nextPk /\ nextPk \in Nat
    BY BoundAssumption DEF ParseRead, WorkerAt, store, TypeInv, TypeOK
  <1>2. WebInv' /\ Unborn'
    BY <1>1, WebSame, UnbornSame DEF ParseRead, store, queues
  <1>3. WorkerInv'
    BY <1>1, WorkerGoInv DEF ParseRead, WorkerPc
  <1>4. used' \in [Kind -> Nat]
    BY <1>1, WorkerHeld, ReadType DEF ParseRead
  <1> QED BY <1>2, <1>3, <1>4 DEF ParseRead, store, queues, TypeInv, TypeOK, WebInv, WorkerInv

LEMMA ParseRejectType ==
  ASSUME TypeInv, NEW w \in Worker, ParseReject(w) PROVE TypeInv'
  <1>1. worker[w].pk \in Board /\ nextPk' = nextPk
    BY WorkerHeld DEF ParseReject, WorkerAt
  <1>2. WebInv' /\ WorkerInv'
    BY <1>1, WebSame, TaskDoneInv DEF ParseReject
  <1>3. rows' \in [Board -> Row \cup {None}] /\ Unborn'
    BY <1>1, SaveInv, UnbornSame DEF ParseReject, queues, Status, TypeInv, TypeOK
  <1> QED BY <1>2, <1>3 DEF ParseReject, queues, TypeInv, TypeOK, WebInv, WorkerInv

LEMMA ParseCacheType ==
  ASSUME TypeInv, NEW w \in Worker, ParseCache(w) PROVE TypeInv'
  <1>1. worker[w].pc # "idle" /\ worker[w].file \in File /\ nextPk' = nextPk
    BY WorkerHeld DEF ParseCache, WorkerAt
  <1>2. WebInv' /\ WorkerInv' /\ Unborn'
    BY <1>1, WebSame, WorkerGoInv, UnbornSame DEF ParseCache, queues, WorkerPc
  <1>3. cache' \in [Hash -> Entry \cup {None}] /\ used' \in [Kind -> Nat]
    BY <1>1, CacheSetType, SpendType DEF ParseCache, CacheFails, Kind, TypeInv, TypeOK
  <1> QED BY <1>2, <1>3 DEF ParseCache, queues, TypeInv, TypeOK, WebInv, WorkerInv

LEMMA ParseSucceedType ==
  ASSUME TypeInv, NEW w \in Worker, ParseSucceed(w) PROVE TypeInv'
  <1>1. worker[w].pk \in Board /\ nextPk' = nextPk
    BY WorkerHeld DEF ParseSucceed, WorkerAt
  <1>2. WebInv' /\ WorkerInv'
    BY <1>1, WebSame, TaskDoneInv DEF ParseSucceed
  <1>3. rows' \in [Board -> Row \cup {None}] /\ Unborn'
    BY <1>1, SaveInv, UnbornSame DEF ParseSucceed, queues, TypeInv, TypeOK
  <1> QED BY <1>2, <1>3 DEF ParseSucceed, queues, TypeInv, TypeOK, WebInv, WorkerInv

LEMMA ParseFailType ==
  ASSUME TypeInv, NEW w \in Worker, ParseFail(w) PROVE TypeInv'
  <1>1. worker[w].pc # "idle" /\ worker[w].pk \in Board /\ nextPk' = nextPk
    BY WorkerHeld DEF ParseFail, WorkerAt
  <1>2. WebInv' /\ WorkerInv'
    BY <1>1, WebSame, TaskDoneInv, WorkerGoInv DEF ParseFail, WorkerPc
  <1>3. rows' \in [Board -> Row \cup {None}] /\ Unborn'
    BY <1>1, SaveInv, UnbornSame DEF ParseFail, queues, Status, TypeInv, TypeOK
  <1> QED BY <1>2, <1>3 DEF ParseFail, queues, TypeInv, TypeOK, WebInv, WorkerInv

LEMMA ParseRetryType ==
  ASSUME TypeInv, NEW w \in Worker, ParseRetry(w) PROVE TypeInv'
  <1>1. /\ worker[w].pk \in Board /\ nextPk' = nextPk
        /\ worker[w].n \in 0 .. ParseRetries
    BY WorkerHeld DEF ParseRetry, WorkerAt, store
  <1>2. WebInv' /\ WorkerInv' /\ Unborn'
    BY <1>1, WebSame, TaskDoneInv, UnbornSame DEF ParseRetry, store
  <1>3. worker[w].n < ParseRetries => worker[w].n + 1 \in 0 .. ParseRetries
    BY <1>1 DEF ParseRetries
  <1>4. parseQ' \in [Board -> [0 .. ParseRetries -> Nat]]
    BY <1>1, <1>3, PublishParseType DEF ParseRetry, TypeInv, TypeOK
  <1> QED BY <1>2, <1>4 DEF ParseRetry, store, TypeInv, TypeOK, WebInv, WorkerInv

LEMMA StartRefreshType ==
  ASSUME TypeInv, NEW w \in Worker, NEW b \in Board, NEW n \in 0 .. RefreshRetries,
         StartRefresh(w, b, n)
  PROVE  TypeInv'
  <1>1. nextPk' = nextPk /\ nextPk \in Nat /\ n \in 0 .. ParseRetries
    BY BoundAssumption DEF StartRefresh, store, TypeInv, TypeOK, ParseRetries, RefreshRetries
  <1>2. WebInv' /\ Unborn'
    BY <1>1, WebSame, UnbornSame DEF StartRefresh, store
  <1>3. WorkerInv'
    BY <1>1, TakeInv, WorkerSame DEF StartRefresh, WorkerPc
  <1>5. refreshQ[b] \in [0 .. RefreshRetries -> Nat] /\ refreshQ[b][n] > 0
    BY DEF StartRefresh, TypeInv, TypeOK
  <1>6. \A g \in [0 .. RefreshRetries -> Nat] :
            g[n] > 0 => [g EXCEPT ![n] = g[n] - 1] \in [0 .. RefreshRetries -> Nat]
    OBVIOUS
  <1>7. [refreshQ[b] EXCEPT ![n] = @ - 1] \in [0 .. RefreshRetries -> Nat]
    BY <1>5, <1>6
  <1>8. refreshQ' \in [Board -> [0 .. RefreshRetries -> Nat]]
    BY <1>7 DEF StartRefresh, TypeInv, TypeOK
  <1> QED BY <1>2, <1>3, <1>8 DEF StartRefresh, store, TypeInv, TypeOK, WebInv, WorkerInv

LEMMA RefreshRetryType ==
  ASSUME TypeInv, NEW w \in Worker, worker[w].pc # "idle", RefreshRetry(w)
  PROVE  refreshQ' \in [Board -> [0 .. RefreshRetries -> Nat]]
  <1>1. worker[w].pk \in Board /\ worker[w].n \in Nat
    BY WorkerHeld DEF ParseRetries
  <1>2. worker[w].n < RefreshRetries => worker[w].n + 1 \in 0 .. RefreshRetries
    BY <1>1 DEF RefreshRetries
  <1> QED BY <1>1, <1>2, PublishRefreshType DEF RefreshRetry, TypeInv, TypeOK

LEMMA RefreshReadType ==
  ASSUME TypeInv, NEW w \in Worker, RefreshRead(w) PROVE TypeInv'
  <1>1. worker[w].pc # "idle" /\ worker[w].file \in File /\ nextPk' = nextPk
    BY WorkerHeld DEF RefreshRead, WorkerAt, store
  <1>2. WebInv' /\ Unborn'
    BY <1>1, WebSame, UnbornSame DEF RefreshRead, store
  <1>3. WorkerInv'
    BY <1>1, WorkerGoInv, TaskDoneInv DEF RefreshRead, RefreshRetry, WorkerPc
  <1>4. refreshQ' \in [Board -> [0 .. RefreshRetries -> Nat]] /\ used' \in [Kind -> Nat]
    BY <1>1, ReadType, RefreshRetryType DEF RefreshRead, TypeInv, TypeOK
  <1> QED BY <1>2, <1>3, <1>4 DEF RefreshRead, store, TypeInv, TypeOK, WebInv, WorkerInv

LEMMA RefreshSetType ==
  ASSUME TypeInv, NEW w \in Worker, RefreshSet(w) PROVE TypeInv'
  <1>1. worker[w].pc # "idle" /\ worker[w].file \in File /\ nextPk' = nextPk
    BY WorkerHeld DEF RefreshSet, WorkerAt
  <1>2. WebInv' /\ Unborn'
    BY <1>1, WebSame, UnbornSame DEF RefreshSet
  <1>3. WorkerInv'
    BY <1>1, TaskDoneInv DEF RefreshSet, RefreshRetry
  <1>4. refreshQ' \in [Board -> [0 .. RefreshRetries -> Nat]]
    BY <1>1, RefreshRetryType DEF RefreshSet, TypeInv, TypeOK
  <1>5. cache' \in [Hash -> Entry \cup {None}] /\ used' \in [Kind -> Nat]
    BY <1>1, CacheSetType, SpendType DEF RefreshSet, CacheFails, Kind, TypeInv, TypeOK
  <1> QED BY <1>2, <1>3, <1>4, <1>5 DEF RefreshSet, TypeInv, TypeOK, WebInv, WorkerInv

LEMMA RecordViewType ==
  ASSUME TypeInv, NEW w \in Worker, NEW b \in Board, RecordView(w, b) PROVE TypeInv'
  <1>1. nextPk' = nextPk /\ nextPk \in Nat /\ b < nextPk
    BY BoundAssumption DEF RecordView, TypeInv, TypeOK, Unborn, Board
  <1>2. WebInv' /\ WorkerInv'
    BY <1>1, WebSame, WorkerSame DEF RecordView
  <1>3. recordQ' \in [Board -> Nat]
    BY CountTypes DEF RecordView
  <1>4. rows' \in [Board -> Row \cup {None}]
    <2>1. ASSUME Exists(b) PROVE [rows[b] EXCEPT !.views = @ + 1] \in Row
      BY <2>1, ExistsBorn, RowWith DEF Status
    <2> QED BY <2>1 DEF RecordView, TypeInv, TypeOK
  <1>5. \A c \in Board \ {b} : rows'[c] = rows[c] /\ recordQ'[c] = recordQ[c]
    BY DEF RecordView, TypeInv, TypeOK
  <1>6. Unborn'
    BY <1>1, <1>5, UnbornKept DEF RecordView
  <1> QED BY <1>2, <1>3, <1>4, <1>6 DEF RecordView, TypeInv, TypeOK, WebInv, WorkerInv

LEMMA InvalidateType ==
  ASSUME TypeInv, NEW w \in Worker, NEW h \in Hash, Invalidate(w, h) PROVE TypeInv'
  <1>1. WebInv' /\ WorkerInv' /\ Unborn'
    BY BoundAssumption, WebSame, WorkerSame, UnbornSame DEF Invalidate, TypeInv, TypeOK
  <1>2. invalidQ' \in [Hash -> Nat] /\ cache' \in [Hash -> Entry \cup {None}]
    BY DEF Invalidate, TypeInv, TypeOK
  <1> QED BY <1>1, <1>2 DEF Invalidate, TypeInv, TypeOK, WebInv, WorkerInv

LEMMA CacheTimeType ==
  ASSUME TypeInv, NEW h \in Hash, Age(h) \/ Evict(h) PROVE TypeInv'
  <1>1. WebInv' /\ WorkerInv' /\ Unborn'
    BY BoundAssumption, WebSame, WorkerSame, UnbornSame DEF Age, Evict, queues, TypeInv, TypeOK
  <1>2. \A e \in Entry : [e EXCEPT !.low = TRUE] \in Entry
    BY DEF Entry
  <1>3. cache' \in [Hash -> Entry \cup {None}]
    <2>1. ASSUME cache[h] # None PROVE [cache[h] EXCEPT !.low = TRUE] \in Entry
      BY <1>2, <2>1 DEF TypeInv, TypeOK
    <2> QED BY <2>1 DEF Age, Evict, TypeInv, TypeOK
  <1> QED BY <1>1, <1>3 DEF Age, Evict, queues, TypeInv, TypeOK, WebInv, WorkerInv

LEMMA DeathType ==
  ASSUME TypeInv,
         (\E w \in Worker : WorkerDies(w)) \/ (\E p \in Web : WebDies(p))
  PROVE  TypeInv'
  <1>1. nextPk' = nextPk /\ nextPk \in Nat
    BY BoundAssumption DEF WorkerDies, WebDies, store, TypeInv, TypeOK
  <1>2. WebInv' /\ WorkerInv' /\ Unborn'
    BY <1>1, WebSame, AnswerInv, WorkerSame, TaskDoneInv, UnbornSame
       DEF WorkerDies, WebDies, store, queues
  <1>3. used' \in [Kind -> Nat]
    BY SpendType DEF WorkerDies, WebDies, Kind, TypeInv
  <1> QED BY <1>2, <1>3 DEF WorkerDies, WebDies, store, queues, TypeInv, TypeOK, WebInv, WorkerInv

LEMMA LoseType ==
  ASSUME TypeInv, Lose PROVE TypeInv'
  <1>1. nextPk' = nextPk /\ nextPk \in Nat
    BY BoundAssumption DEF Lose, store, TypeInv, TypeOK
  <1>2. WebInv' /\ WorkerInv'
    BY <1>1, WebSame, WorkerSame DEF Lose
  <1>3. used' \in [Kind -> Nat]
    BY SpendType DEF Lose, Kind, TypeInv
  <1>4. /\ parseQ' \in [Board -> [0 .. ParseRetries -> Nat]] /\ recordQ' \in [Board -> Nat]
        /\ \A c \in Board : recordQ[c] = 0 => recordQ'[c] = 0
    <2>1. CASE /\ \E b \in Board, n \in 0 .. ParseRetries :
                    parseQ[b][n] > 0 /\ parseQ' = [parseQ EXCEPT ![b][n] = @ - 1]
               /\ UNCHANGED recordQ
      <3>1. PICK b \in Board, n \in 0 .. ParseRetries :
              parseQ[b][n] > 0 /\ parseQ' = [parseQ EXCEPT ![b][n] = @ - 1]
        BY <2>1
      <3>2. parseQ[b] \in [0 .. ParseRetries -> Nat]
        BY DEF TypeInv, TypeOK
      <3>3. \A g \in [0 .. ParseRetries -> Nat] :
              g[n] > 0 => [g EXCEPT ![n] = g[n] - 1] \in [0 .. ParseRetries -> Nat]
        OBVIOUS
      <3>4. [parseQ[b] EXCEPT ![n] = @ - 1] \in [0 .. ParseRetries -> Nat]
        BY <3>1, <3>2, <3>3
      <3> QED BY <2>1, <3>1, <3>4 DEF TypeInv, TypeOK
    <2>2. CASE /\ \E b \in Board :
                    recordQ[b] > 0 /\ recordQ' = [recordQ EXCEPT ![b] = @ - 1]
               /\ UNCHANGED parseQ
      BY <2>2 DEF TypeInv, TypeOK
    <2> QED BY <2>1, <2>2 DEF Lose
  <1>5. Unborn'
    BY <1>1, <1>4 DEF Lose, store, TypeInv, Unborn
  <1> QED BY <1>1, <1>2, <1>3, <1>4, <1>5 DEF Lose, store, TypeInv, TypeOK, WebInv, WorkerInv

LEMMA StutterType == ASSUME TypeInv, UNCHANGED vars PROVE TypeInv'
  BY DEF vars, TypeInv, TypeOK, WebHolds, WorkerHolds, Unborn

LEMMA NextType == ASSUME TypeInv, [Next]_vars PROVE TypeInv'
  <1>1. ASSUME NEW p \in Web, NewRequest(p) PROVE TypeInv'
    BY <1>1, UploadType, PatchType, DeleteType, ReparseType, ViewType DEF NewRequest
  <1>2. ASSUME NEW p \in Web, WebStep(p) PROVE TypeInv'
    BY <1>2, UploadPutType, UploadCreateType, PublishType, PatchSaveType, DeleteCacheType,
       DeleteS3Type, DeleteRowType, ReparseSaveType, ViewGetType, ViewHitType,
       ViewReadType, ViewSetType DEF WebStep
  <1>3. ASSUME NEW w \in Worker, WorkerStep(w) PROVE TypeInv'
    BY <1>3, StartParseType, StartRefreshType, RecordViewType, InvalidateType,
       ParseReadType, ParseRejectType, ParseCacheType, ParseSucceedType, ParseFailType,
       ParseRetryType, RefreshReadType, RefreshSetType DEF WorkerStep
  <1>4. ASSUME Environment PROVE TypeInv'
    BY <1>4, CacheTimeType, DeathType, LoseType DEF Environment
  <1> QED BY <1>1, <1>2, <1>3, <1>4, StutterType DEF Next

LEMMA TypeInvariance == Spec => []TypeInv
  BY InitTypeInv, NextType, PTL DEF Spec

\* Every column, message, thread and worker of the pipeline keeps its type, whatever
\* requests, errors and deaths interleave.
THEOREM TypeCorrect == Spec => []TypeOK
  <1>1. TypeInv => TypeOK
    BY DEF TypeInv
  <1> QED BY <1>1, TypeInvariance, PTL

-----------------------------------------------------------------------------
(* Safety: uploads, PATCH, deletions, reparses, views, errors and processes  *)
(* that die.  What the helpers do, field by field.                           *)

LEMMA WebGoEffect ==
  ASSUME TypeInv, NEW p \in Web, NEW pc \in WebPc, WebGo(p, pc)
  PROVE  /\ web'[p].pc = pc /\ web'[p].pk = web[p].pk /\ web'[p].file = web[p].file
         /\ \A q \in Web \ {p} : web'[q] = web[q]
  BY DEF TypeInv, TypeOK, WebGo, Request

LEMMA AnswerEffect ==
  ASSUME TypeInv, NEW p \in Web, Answer(p)
  PROVE  /\ web'[p].pc = "idle"
         /\ \A q \in Web \ {p} : web'[q] = web[q]
  BY DEF TypeInv, TypeOK, Answer, IdleRequest

LEMMA HoldEffect ==
  ASSUME TypeInv, NEW p \in Web, NEW pc, NEW b, NEW f, Hold(p, pc, b, f)
  PROVE  /\ web'[p].pc = pc /\ web'[p].pk = b /\ web'[p].file = f
         /\ \A q \in Web \ {p} : web'[q] = web[q]
  BY DEF TypeInv, TypeOK, Hold

LEMMA WorkerGoEffect ==
  ASSUME TypeInv, NEW w \in Worker, NEW pc \in WorkerPc, WorkerGo(w, pc)
  PROVE  /\ worker'[w].pc = pc /\ worker'[w].pk = worker[w].pk
         /\ worker'[w].file = worker[w].file /\ worker'[w].n = worker[w].n
         /\ \A v \in Worker \ {w} : worker'[v] = worker[v]
  BY DEF TypeInv, TypeOK, WorkerGo, Job

LEMMA TaskDoneEffect ==
  ASSUME TypeInv, NEW w \in Worker, TaskDone(w)
  PROVE  /\ worker'[w].pc = "idle"
         /\ \A v \in Worker \ {w} : worker'[v] = worker[v]
  BY DEF TypeInv, TypeOK, TaskDone, IdleJob

LEMMA TakeEffect ==
  ASSUME TypeInv, NEW w \in Worker, NEW pc, NEW b, NEW n, Take(w, pc, b, n)
  PROVE  /\ worker'[w].pc = pc /\ worker'[w].pk = b
         /\ worker'[w].file = rows[b].file /\ worker'[w].n = n
         /\ \A v \in Worker \ {w} : worker'[v] = worker[v]
  BY DEF TypeInv, TypeOK, Take

LEMMA RowNotNone == ASSUME NEW r \in Row PROVE r # None
  BY NoneAssumption

LEMMA SaveStatusEffect ==
  ASSUME TypeInv, NEW b \in Board, Exists(b), NEW st \in Status, SaveStatus(b, st)
  PROVE  /\ Exists(b)' /\ rows'[b].status = st /\ rows'[b].file = rows[b].file
         /\ rows'[b].counted = rows[b].counted /\ rows'[b].views = rows[b].views
         /\ \A c \in Board \ {b} : rows'[c] = rows[c]
  <1> DEFINE r == [rows[b] EXCEPT !.status = st]
  <1>1. rows[b] \in Row
    BY ExistsBorn
  <1>2. /\ r \in Row /\ r.status = st /\ r.file = rows[b].file
        /\ r.counted = rows[b].counted /\ r.views = rows[b].views
    BY <1>1, RowWith DEF Row
  <1>3. rows'[b] = r /\ \A c \in Board \ {b} : rows'[c] = rows[c]
    BY DEF SaveStatus, TypeInv, TypeOK
  <1> HIDE DEF r
  <1> QED BY <1>2, <1>3, RowNotNone DEF Exists

LEMMA SaveSuccessEffect ==
  ASSUME TypeInv, NEW b \in Board, Exists(b), SaveSuccess(b)
  PROVE  /\ Exists(b)' /\ rows'[b].status = "success" /\ rows'[b].file = rows[b].file
         /\ rows'[b].counted = TRUE /\ rows'[b].views = rows[b].views
         /\ \A c \in Board \ {b} : rows'[c] = rows[c]
  <1> DEFINE r == [rows[b] EXCEPT !.status = "success", !.counted = TRUE]
  <1>1. rows[b] \in Row
    BY ExistsBorn
  <1>2. /\ r \in Row /\ r.status = "success" /\ r.file = rows[b].file
        /\ r.counted = TRUE /\ r.views = rows[b].views
    BY <1>1, RowWith DEF Row, Status
  <1>3. rows'[b] = r /\ \A c \in Board \ {b} : rows'[c] = rows[c]
    BY DEF SaveSuccess, TypeInv, TypeOK
  <1> HIDE DEF r
  <1> QED BY <1>2, <1>3, RowNotNone DEF Exists

LEMMA NewRowEffect ==
  ASSUME NEW f \in File
  PROVE  /\ NewRow(f) # None /\ NewRow(f).file = f /\ NewRow(f).status = "pending"
         /\ NewRow(f).counted = FALSE /\ NewRow(f).views = 0
  BY NewRowType, RowNotNone DEF NewRow

LEMMA RecordViewEffect ==
  ASSUME TypeInv, NEW w \in Worker, NEW b \in Board, RecordView(w, b), Exists(b)
  PROVE  /\ Exists(b)' /\ rows'[b].status = rows[b].status /\ rows'[b].file = rows[b].file
         /\ rows'[b].counted = rows[b].counted /\ rows'[b].views = rows[b].views + 1
         /\ \A c \in Board \ {b} : rows'[c] = rows[c]
  <1> DEFINE r == [rows[b] EXCEPT !.views = @ + 1]
  <1>1. rows[b] \in Row
    BY ExistsBorn
  <1>2. r \in Row
    BY <1>1, RowWith DEF Status
  <1>3. /\ r.status = rows[b].status /\ r.file = rows[b].file
        /\ r.counted = rows[b].counted /\ r.views = rows[b].views + 1
    BY <1>1 DEF Row
  <1>4. rows'[b] = r /\ \A c \in Board \ {b} : rows'[c] = rows[c]
    BY DEF RecordView, TypeInv, TypeOK
  <1> HIDE DEF r
  <1> QED BY <1>2, <1>3, <1>4, RowNotNone DEF Exists

LEMMA PatchEffect ==
  ASSUME TypeInv, NEW p \in Web, NEW b \in Board, NEW access \in Access,
         Patch(p, b, access)
  PROVE  /\ web'[p].pc = "patch" /\ web'[p].pk = b /\ web'[p].file = rows[b].file
         /\ web'[p].image \in Row
         /\ web'[p].image.file = rows[b].file /\ web'[p].image.status = rows[b].status
         /\ web'[p].image.counted = rows[b].counted
         /\ \A q \in Web \ {p} : web'[q] = web[q]
  <1> DEFINE image == [rows[b] EXCEPT !.access = access]
  <1>1. rows[b] \in Row
    BY ExistsBorn DEF Patch
  <1>2. /\ image \in Row /\ image.file = rows[b].file /\ image.status = rows[b].status
        /\ image.counted = rows[b].counted
    BY <1>1 DEF Row
  <1> HIDE DEF image
  <1>3. web' = [web EXCEPT ![p] = [pc |-> "patch", pk |-> b, file |-> rows[b].file,
                                   image |-> image]]
    BY DEF Patch, image
  <1> QED BY <1>2, <1>3 DEF TypeInv, TypeOK

-----------------------------------------------------------------------------
(* The inductive invariant.  A PATCH writes back the image it loaded, so the *)
(* image satisfies what the row must; a step that fills the cache knows the  *)
(* file it read to parse.                                                    *)

Counted(r) == r.status = "success" => r.counted

WebGood(p) ==
    /\ web[p].pc = "patch" => Counted(web[p].image) /\ web[p].image.file = web[p].file
    /\ web[p].pc = "set" => web[p].file \in Parses

JobGood(w) == worker[w].pc \in {"cache", "refresh_set"} => worker[w].file \in Parses

SafeInv ==
    /\ \A p \in Web : WebGood(p)
    /\ \A w \in Worker : JobGood(w)
    /\ SuccessIsCounted
    /\ OneRowPerContent
    /\ CacheIsOwnParse

LEMMA InitSafe == Init => SafeInv
  BY DEF Init, SafeInv, WebGood, JobGood, SuccessIsCounted, OneRowPerContent,
     CacheIsOwnParse, IdleRequest, IdleJob, Exists

\* No thread but p moves, and p does not come to save a PATCH or fill the cache.
LEMMA WebGoodKept ==
  ASSUME SafeInv, NEW p \in Web, web'[p].pc \notin {"patch", "set"},
         \A q \in Web \ {p} : web'[q] = web[q]
  PROVE  \A q \in Web : WebGood(q)'
  BY DEF SafeInv, WebGood

LEMMA WebGoodNext ==
  ASSUME TypeInv, SafeInv, [Next]_vars PROVE \A q \in Web : WebGood(q)'
  <1> DEFINE Good == \A q \in Web : WebGood(q)'
  <1>1. ASSUME UNCHANGED web PROVE Good
    BY <1>1 DEF SafeInv, WebGood
  <1>2. ASSUME NEW p \in Web, Answer(p) PROVE Good
    BY <1>2, AnswerEffect, WebGoodKept
  <1>3. ASSUME NEW p \in Web, NEW pc \in WebPc \ {"patch", "set"}, WebGo(p, pc) PROVE Good
    BY <1>3, WebGoEffect, WebGoodKept
  <1>4. ASSUME NEW p \in Web, NEW pc \in WebPc \ {"patch", "set"}, NEW b, NEW f,
               Hold(p, pc, b, f)
        PROVE  Good
    BY <1>4, HoldEffect, WebGoodKept
  <1>5. ASSUME NEW p \in Web, NEW b \in Board, NEW access \in Access, Patch(p, b, access)
        PROVE  Good
    <2>1. Counted(rows[b])
      BY <1>5 DEF SafeInv, SuccessIsCounted, Counted, Patch
    <2>2. WebGood(p)'
      BY <1>5, <2>1, PatchEffect DEF WebGood, Counted
    <2> QED BY <1>5, <2>2, PatchEffect DEF SafeInv, WebGood
  <1>6. ASSUME NEW p \in Web, ViewRead(p) PROVE Good
    <2>1. CASE WebGo(p, "set") /\ web[p].file \in Parses
      <3>1. WebGood(p)'
        BY <2>1, WebGoEffect DEF WebGood, WebPc
      <3>2. \A q \in Web \ {p} : web'[q] = web[q]
        BY <2>1, WebGoEffect DEF WebPc
      <3> QED BY <3>1, <3>2 DEF SafeInv, WebGood
    <2> QED BY <1>2, <1>6, <2>1 DEF ViewRead
  <1> HIDE DEF Good
  <1>7. ASSUME NEW p \in Web, NewRequest(p) PROVE Good
    BY <1>1, <1>4, <1>5, <1>7 DEF NewRequest, Upload, Delete, Reparse, View, WebPc
  <1>8. ASSUME NEW p \in Web, WebStep(p) PROVE Good
    BY <1>2, <1>3, <1>4, <1>6, <1>8
       DEF WebStep, UploadPut, UploadCreate, Publish, PatchSave, DeleteCache, DeleteS3,
           DeleteRow, ReparseSave, ViewGet, ViewHit, ViewSet, WebPc
  <1>9. ASSUME NEW w \in Worker, WorkerStep(w) PROVE Good
    BY <1>1, <1>9
       DEF WorkerStep, StartParse, StartRefresh, RecordView, Invalidate, ParseRead,
           ParseReject, ParseCache, ParseSucceed, ParseFail, ParseRetry, RefreshRead,
           RefreshSet
  <1>10. ASSUME Environment PROVE Good
    BY <1>1, <1>2, <1>10 DEF Environment, Age, Evict, WorkerDies, Lose, WebDies
  <1>11. Good
    BY <1>1, <1>7, <1>8, <1>9, <1>10 DEF Next, vars
  <1> QED BY <1>11 DEF Good

LEMMA JobGoodNext ==
  ASSUME TypeInv, SafeInv, [Next]_vars PROVE \A v \in Worker : JobGood(v)'
  <1> DEFINE Good == \A v \in Worker : JobGood(v)'
  <1>1. ASSUME UNCHANGED worker PROVE Good
    BY <1>1 DEF SafeInv, JobGood
  <1>2. ASSUME NEW w \in Worker, TaskDone(w) PROVE Good
    BY <1>2, TaskDoneEffect DEF SafeInv, JobGood
  <1>3. ASSUME NEW w \in Worker, NEW pc \in WorkerPc, WorkerGo(w, pc),
               pc \in {"cache", "refresh_set"} => worker[w].file \in Parses
        PROVE  Good
    BY <1>3, WorkerGoEffect DEF SafeInv, JobGood
  <1>4. ASSUME NEW w \in Worker, NEW pc \in {"read", "refresh_read"}, NEW b, NEW n,
               Take(w, pc, b, n)
        PROVE  Good
    BY <1>4, TakeEffect DEF SafeInv, JobGood
  <1> HIDE DEF Good
  <1>5. ASSUME NEW p \in Web, NewRequest(p) PROVE Good
    BY <1>1, <1>5 DEF NewRequest, Upload, Patch, Delete, Reparse, View
  <1>6. ASSUME NEW p \in Web, WebStep(p) PROVE Good
    BY <1>1, <1>6
       DEF WebStep, UploadPut, UploadCreate, Publish, PatchSave, DeleteCache, DeleteS3,
           DeleteRow, ReparseSave, ViewGet, ViewHit, ViewRead, ViewSet
  <1>7. ASSUME NEW w \in Worker, WorkerStep(w) PROVE Good
    <2>1. ASSUME ParseRead(w) \/ RefreshRead(w) PROVE Good
      BY <1>2, <1>3, <2>1 DEF ParseRead, RefreshRead, RefreshRetry, WorkerPc
    <2>2. ASSUME ParseCache(w) \/ RefreshSet(w) \/ ParseFail(w) PROVE Good
      BY <1>2, <1>3, <2>2 DEF ParseCache, RefreshSet, RefreshRetry, ParseFail, WorkerPc
    <2>3. ASSUME NEW b \in Board, NEW n \in 0 .. ParseRetries, StartParse(w, b, n) PROVE Good
      BY <1>1, <1>4, <2>3 DEF StartParse
    <2>4. ASSUME NEW b \in Board, NEW n \in 0 .. RefreshRetries, StartRefresh(w, b, n) PROVE Good
      BY <1>1, <1>4, <2>4 DEF StartRefresh
    <2> QED BY <1>1, <1>2, <1>7, <2>1, <2>2, <2>3, <2>4
        DEF WorkerStep, RecordView, Invalidate, ParseReject, ParseSucceed, ParseRetry
  <1>8. ASSUME Environment PROVE Good
    BY <1>1, <1>2, <1>8 DEF Environment, Age, Evict, WorkerDies, Lose, WebDies
  <1>9. Good
    BY <1>1, <1>5, <1>6, <1>7, <1>8 DEF Next, vars
  <1> QED BY <1>9 DEF Good

\* Row b is saved: it keeps its content, and it is counted if it is a success.
LEMMA RowSaved ==
  ASSUME TypeInv, SafeInv, NEW b \in Board, Exists(b),
         rows'[b].file = rows[b].file, Counted(rows'[b]),
         \A c \in Board \ {b} : rows'[c] = rows[c]
  PROVE  SuccessIsCounted' /\ OneRowPerContent'
  BY DEF SafeInv, SuccessIsCounted, OneRowPerContent, Counted, Exists

\* Row b is written over, or inserted, with content no other row has.
LEMMA RowPut ==
  ASSUME TypeInv, SafeInv, NEW b \in Board, NEW r \in Row, Counted(r),
         ~HashTaken(r.file[1], b), rows' = [rows EXCEPT ![b] = r]
  PROVE  SuccessIsCounted' /\ OneRowPerContent'
  <1>1. rows'[b] = r /\ \A c \in Board \ {b} : rows'[c] = rows[c]
    BY DEF TypeInv, TypeOK
  <1> QED BY <1>1 DEF SafeInv, SuccessIsCounted, OneRowPerContent, Counted, Exists, HashTaken

LEMMA RowsNext ==
  ASSUME TypeInv, SafeInv, [Next]_vars PROVE SuccessIsCounted' /\ OneRowPerContent'
  <1> DEFINE Good == SuccessIsCounted' /\ OneRowPerContent'
  <1>1. ASSUME UNCHANGED rows PROVE Good
    BY <1>1 DEF SafeInv, SuccessIsCounted, OneRowPerContent, Exists
  <1>2. ASSUME NEW b \in Board, Exists(b), NEW st \in Status \ {"success"}, SaveStatus(b, st)
        PROVE  Good
    BY <1>2, SaveStatusEffect, RowSaved DEF Counted
  <1>3. ASSUME NEW b \in Board, Exists(b), SaveSuccess(b) PROVE Good
    BY <1>3, SaveSuccessEffect, RowSaved DEF Counted
  <1>4. ASSUME NEW p \in Web, UploadCreate(p) PROVE Good
    <2>1. web[p].file \in File
      BY <1>4, WebHeld DEF UploadCreate, WebAt, HasFile
    <2>2. CASE /\ ~HashTaken(web[p].file[1], 0) /\ nextPk \in Board
               /\ rows' = [rows EXCEPT ![nextPk] = NewRow(web[p].file)]
      <3>1. ~HashTaken(web[p].file[1], nextPk)
        BY <2>2, BoundAssumption DEF HashTaken, Board
      <3>2. NewRow(web[p].file) \in Row /\ NewRow(web[p].file).file = web[p].file
        BY <2>1, NewRowType, NewRowEffect
      <3>3. Counted(NewRow(web[p].file))
        BY <2>1, NewRowEffect DEF Counted
      <3> QED BY <2>2, <3>1, <3>2, <3>3, RowPut
    <2> QED BY <1>1, <1>4, <2>2 DEF UploadCreate
  <1>5. ASSUME NEW p \in Web, PatchSave(p) PROVE Good
    <2>1. /\ web[p].pk \in Board /\ web[p].image \in Row
          /\ Counted(web[p].image) /\ web[p].image.file = web[p].file
      BY <1>5, WebHeld DEF PatchSave, WebAt, HasPk, SafeInv, WebGood
    <2> QED BY <1>1, <1>5, <2>1, RowPut DEF PatchSave
  <1>6. ASSUME NEW p \in Web, DeleteRow(p) PROVE Good
    <2>1. \A c \in Board : rows'[c] = None \/ rows'[c] = rows[c]
      BY <1>6 DEF DeleteRow, TypeInv, TypeOK
    <2> QED BY <2>1 DEF SafeInv, SuccessIsCounted, OneRowPerContent, Exists
  <1>7. ASSUME NEW p \in Web, ReparseSave(p) PROVE Good
    BY <1>1, <1>2, <1>7, WebHeld DEF ReparseSave, WebAt, HasPk, Status
  <1>8. ASSUME NEW w \in Worker, NEW b \in Board, RecordView(w, b) PROVE Good
    <2>1. CASE Exists(b)
      <3>1. Counted(rows[b])
        BY <2>1 DEF SafeInv, SuccessIsCounted, Counted
      <3>2. Counted(rows'[b])
        BY <1>8, <2>1, <3>1, RecordViewEffect DEF Counted
      <3> QED BY <1>8, <2>1, <3>2, RecordViewEffect, RowSaved
    <2> QED BY <1>1, <1>8, <2>1 DEF RecordView
  <1>9. ASSUME NEW w \in Worker, NEW b \in Board, NEW n \in 0 .. ParseRetries,
               StartParse(w, b, n)
        PROVE  Good
    BY <1>1, <1>2, <1>9 DEF StartParse, Status
  <1>10. ASSUME NEW w \in Worker, ParseReject(w) \/ ParseSucceed(w) \/ ParseFail(w)
         PROVE  Good
    BY <1>1, <1>2, <1>3, <1>10, WorkerHeld
       DEF ParseReject, ParseSucceed, ParseFail, WorkerAt, Status
  <1> HIDE DEF Good
  <1>11. ASSUME NEW p \in Web, NewRequest(p) PROVE Good
    BY <1>1, <1>11 DEF NewRequest, Upload, Patch, Delete, Reparse, View, store
  <1>12. ASSUME NEW p \in Web, WebStep(p) PROVE Good
    BY <1>1, <1>4, <1>5, <1>6, <1>7, <1>12
       DEF WebStep, UploadPut, Publish, DeleteCache, DeleteS3, ViewGet, ViewHit,
           ViewRead, ViewSet, store
  <1>13. ASSUME NEW w \in Worker, WorkerStep(w) PROVE Good
    BY <1>1, <1>8, <1>9, <1>10, <1>13
       DEF WorkerStep, StartRefresh, Invalidate, ParseRead, ParseCache, ParseRetry,
           RefreshRead, RefreshSet, store
  <1>14. ASSUME Environment PROVE Good
    BY <1>1, <1>14 DEF Environment, Age, Evict, WorkerDies, Lose, WebDies, store
  <1>15. Good
    BY <1>1, <1>11, <1>12, <1>13, <1>14 DEF Next, vars
  <1> QED BY <1>15 DEF Good

LEMMA CacheNext == ASSUME TypeInv, SafeInv, [Next]_vars PROVE CacheIsOwnParse'
  <1>1. ASSUME UNCHANGED cache PROVE CacheIsOwnParse'
    BY <1>1 DEF SafeInv, CacheIsOwnParse
  <1>2. ASSUME NEW h, cache' = [cache EXCEPT ![h] = None] PROVE CacheIsOwnParse'
    <2>1. \A g \in Hash : cache'[g] = None \/ cache'[g] = cache[g]
      BY <1>2 DEF TypeInv, TypeOK
    <2> QED BY <2>1 DEF SafeInv, CacheIsOwnParse
  <1>3. ASSUME NEW f \in File, f \in Parses, CacheSet(f) PROVE CacheIsOwnParse'
    <2>1. f[1] \in Hash
      BY DEF File
    <2>2. /\ cache'[f[1]] = [file |-> f, low |-> FALSE]
          /\ \A g \in Hash \ {f[1]} : cache'[g] = cache[g]
      BY <1>3, <2>1 DEF CacheSet, TypeInv, TypeOK
    <2> QED BY <1>3, <2>2 DEF SafeInv, CacheIsOwnParse
  <1>4. ASSUME NEW h \in Hash, Age(h) PROVE CacheIsOwnParse'
    <2>1. cache[h] \in Entry /\ \A e \in Entry : [e EXCEPT !.low = TRUE].file = e.file
      BY <1>4 DEF Age, TypeInv, TypeOK, Entry
    <2>2. /\ cache'[h].file = cache[h].file
          /\ \A g \in Hash \ {h} : cache'[g] = cache[g]
      BY <1>4, <2>1 DEF Age, TypeInv, TypeOK
    <2> QED BY <1>4, <2>2 DEF Age, SafeInv, CacheIsOwnParse
  <1>5. ASSUME NEW p \in Web, ViewSet(p) PROVE CacheIsOwnParse'
    <2>1. web[p].file \in File /\ web[p].file \in Parses
      BY <1>5, WebHeld DEF ViewSet, WebAt, HasFile, SafeInv, WebGood
    <2> QED BY <1>1, <1>3, <1>5, <2>1 DEF ViewSet, CacheFails
  <1>6. ASSUME NEW w \in Worker, ParseCache(w) \/ RefreshSet(w) PROVE CacheIsOwnParse'
    <2>1. worker[w].file \in File /\ worker[w].file \in Parses
      BY <1>6, WorkerHeld DEF ParseCache, RefreshSet, WorkerAt, SafeInv, JobGood
    <2> QED BY <1>1, <1>3, <1>6, <2>1 DEF ParseCache, RefreshSet, CacheFails
  <1>7. ASSUME NEW p \in Web, NewRequest(p) PROVE CacheIsOwnParse'
    BY <1>1, <1>7 DEF NewRequest, Upload, Patch, Delete, Reparse, View, store
  <1>8. ASSUME NEW p \in Web, WebStep(p) PROVE CacheIsOwnParse'
    BY <1>1, <1>2, <1>5, <1>8
       DEF WebStep, UploadPut, UploadCreate, Publish, PatchSave, DeleteCache, DeleteS3,
           DeleteRow, ReparseSave, ViewGet, ViewHit, ViewRead, CacheFails, store
  <1>9. ASSUME NEW w \in Worker, WorkerStep(w) PROVE CacheIsOwnParse'
    BY <1>1, <1>2, <1>6, <1>9
       DEF WorkerStep, StartParse, StartRefresh, RecordView, Invalidate, ParseRead,
           ParseReject, ParseSucceed, ParseFail, ParseRetry, RefreshRead, store
  <1>10. ASSUME Environment PROVE CacheIsOwnParse'
    BY <1>1, <1>2, <1>4, <1>10 DEF Environment, Evict, WorkerDies, Lose, WebDies, store
  <1> QED BY <1>1, <1>7, <1>8, <1>9, <1>10 DEF Next, vars

LEMMA SafeInvariance == Spec => []SafeInv
  <1>1. TypeInv /\ SafeInv /\ [Next]_vars => SafeInv'
    BY WebGoodNext, JobGoodNext, RowsNext, CacheNext DEF SafeInv
  <1> QED BY <1>1, InitSafe, TypeInvariance, PTL DEF Spec

\* A parsed board has its counts, even after a PATCH has written back the row it
\* loaded before or between the saves of a parse task.
THEOREM CountsWithSuccess == Spec => []SuccessIsCounted
  <1>1. SafeInv => SuccessIsCounted
    BY DEF SafeInv
  <1> QED BY <1>1, SafeInvariance, PTL

\* No interleaving of duplicate checks, inserts, deletions and PATCHes gives two
\* rows the same content.
THEOREM UniqueContent == Spec => []OneRowPerContent
  <1>1. SafeInv => OneRowPerContent
    BY DEF SafeInv
  <1> QED BY <1>1, SafeInvariance, PTL

\* Redis never holds, under a content hash, what is not a successful parse of
\* that content.
THEOREM CacheSound == Spec => []CacheIsOwnParse
  <1>1. SafeInv => CacheIsOwnParse
    BY DEF SafeInv
  <1> QED BY <1>1, SafeInvariance, PTL

-----------------------------------------------------------------------------
(* The seed command next to all of this.  A task says success of the board with *)
(* its key, for the file it loaded, and the command for the file it was given,  *)
(* which need not have the row's extension.  They are right to of the content,  *)
(* because a board keeps its file for life, when it is deleted and inserted     *)
(* again too (OneFile).                                                         *)

\* Some parser accepts the content.
Parsable(h) == \E e \in Ext : <<h, e>> \in Parses

LEMMA ParsedIsParsable == ASSUME NEW f \in Parses PROVE Parsable(f[1])
  <1>1. f = <<f[1], f[2]>> /\ f[2] \in Ext
    BY ParsesAssumption DEF File
  <1> QED BY <1>1 DEF Parsable

\* The command has parsed its file, and with --force holds a row of that content.
SeedHolds ==
    /\ seed \in [pc : {"idle", "put", "save", "cache"}, pk : Board \cup {0},
                 file : File \cup {None}, image : Row \cup {None}]
    /\ seed.pc # "idle" => seed.file \in Parses
    /\ seed.pk # 0 => /\ seed.pk \in Board /\ seed.pk < nextPk
                      /\ seed.image \in Row /\ seed.image.file[1] = seed.file[1]

\* A row, a task, a PATCH or the command that has f for the file of board b.
RowHolds(b, f) == Exists(b) /\ rows[b].file = f
JobHolds(b, f) == \E w \in Worker :
    worker[w].pc # "idle" /\ worker[w].pk = b /\ worker[w].file = f
PatchHolds(b, f) == \E p \in Web :
    web[p].pc = "patch" /\ web[p].pk = b /\ web[p].image.file = f
CommandHolds(b, f) == seed.pk = b /\ seed.image.file = f

Holds(b, f) == RowHolds(b, f) \/ JobHolds(b, f) \/ PatchHolds(b, f) \/ CommandHolds(b, f)

\* Whoever has loaded a board agrees on its file.
OneFile == \A b \in Board, f, g \in File : Holds(b, f) /\ Holds(b, g) => f = g

PatchesParse ==
    \A p \in Web :
        web[p].pc = "patch" /\ web[p].image.status = "success"
            => Parsable(web[p].image.file[1])

JobsParse == \A w \in Worker : worker[w].pc = "succeed" => worker[w].file \in Parses

SeedInv == SeedHolds /\ OneFile /\ PatchesParse /\ JobsParse /\ SuccessWasParsed

-----------------------------------------------------------------------------
(* What a step of BoardPipeline does to each row, thread and worker. *)

RowStep(b) ==
    \/ rows'[b] = rows[b]
    \/ ~Exists(b)'
    \/ /\ Exists(b) /\ rows'[b].file = rows[b].file
       /\ rows'[b].status = "success" =>
            \/ rows[b].status = "success"
            \/ \E w \in Worker : worker[w].pc = "succeed" /\ worker[w].pk = b
    \/ \E p \in Web : web[p].pc = "patch" /\ web[p].pk = b /\ rows'[b] = web[p].image
    \/ b = nextPk /\ nextPk' = nextPk + 1 /\ rows'[b].status = "pending"

PatchStep(p) ==
    web'[p].pc = "patch" =>
        \/ web'[p] = web[p]
        \/ /\ web'[p].pk \in Board /\ Exists(web'[p].pk)
           /\ web'[p].image.file = rows[web'[p].pk].file
           /\ web'[p].image.status = rows[web'[p].pk].status

JobStep(w) ==
    worker'[w].pc # "idle" =>
        \/ /\ worker[w].pc # "idle"
           /\ worker'[w].pk = worker[w].pk /\ worker'[w].file = worker[w].file
           /\ worker'[w].pc = "succeed" => worker[w].pc \in {"succeed", "cache"}
        \/ /\ worker'[w].pk \in Board /\ Exists(worker'[w].pk)
           /\ worker'[w].file = rows[worker'[w].pk].file
           /\ worker'[w].pc # "succeed"

LEMMA RowSteps ==
  ASSUME TypeInv, [Next]_vars PROVE \A c \in Board : RowStep(c)
  <1> DEFINE Good == \A c \in Board : RowStep(c)
  <1>1. ASSUME UNCHANGED rows PROVE Good
    BY <1>1 DEF RowStep
  <1>2. ASSUME NEW b \in Board, Exists(b), NEW st \in Status \ {"success"}, SaveStatus(b, st)
        PROVE  Good
    BY <1>2, SaveStatusEffect DEF RowStep
  <1>3. ASSUME NEW w \in Worker, worker[w].pc = "succeed", worker[w].pk \in Board,
               Exists(worker[w].pk), SaveSuccess(worker[w].pk)
        PROVE  Good
    BY <1>3, SaveSuccessEffect DEF RowStep
  <1>4. ASSUME NEW p \in Web, UploadCreate(p) PROVE Good
    <2>1. web[p].file \in File
      BY <1>4, WebHeld DEF UploadCreate, WebAt, HasFile
    <2>2. CASE /\ nextPk \in Board /\ nextPk' = nextPk + 1
               /\ rows' = [rows EXCEPT ![nextPk] = NewRow(web[p].file)]
      <3>1. /\ rows'[nextPk] = NewRow(web[p].file)
            /\ \A c \in Board \ {nextPk} : rows'[c] = rows[c]
        BY <2>2 DEF TypeInv, TypeOK
      <3> QED BY ZenonT(60), <2>1, <2>2, <3>1, NewRowEffect DEF RowStep
    <2> QED BY <1>1, <1>4, <2>2 DEF UploadCreate
  <1>5. ASSUME NEW p \in Web, PatchSave(p) PROVE Good
    <2>1. web[p].pk \in Board /\ web[p].pc = "patch"
      BY <1>5, WebHeld DEF PatchSave, WebAt, HasPk
    <2>2. ASSUME rows' = [rows EXCEPT ![web[p].pk] = web[p].image] PROVE Good
      <3>1. /\ rows'[web[p].pk] = web[p].image
            /\ \A c \in Board \ {web[p].pk} : rows'[c] = rows[c]
        BY <2>1, <2>2 DEF TypeInv, TypeOK
      <3> QED BY <2>1, <3>1 DEF RowStep
    <2> QED BY <1>1, <1>5, <2>2 DEF PatchSave
  <1>6. ASSUME NEW p \in Web, DeleteRow(p) PROVE Good
    <2>1. \A c \in Board : rows'[c] = None \/ rows'[c] = rows[c]
      BY <1>6 DEF DeleteRow, TypeInv, TypeOK
    <2> QED BY <2>1 DEF RowStep, Exists
  <1>7. ASSUME NEW p \in Web, ReparseSave(p) PROVE Good
    BY <1>1, <1>2, <1>7, WebHeld DEF ReparseSave, WebAt, HasPk, Status
  <1>8. ASSUME NEW w \in Worker, NEW b \in Board, RecordView(w, b) PROVE Good
    <2>1. ASSUME Exists(b) PROVE Good
      BY <1>8, <2>1, RecordViewEffect DEF RowStep
    <2> QED BY <1>1, <1>8, <2>1 DEF RecordView
  <1>9. ASSUME NEW w \in Worker, NEW b \in Board, NEW n \in 0 .. ParseRetries,
               StartParse(w, b, n)
        PROVE  Good
    BY <1>1, <1>2, <1>9 DEF StartParse, Status
  <1>10. ASSUME NEW w \in Worker, ParseReject(w) \/ ParseFail(w) PROVE Good
    BY <1>1, <1>2, <1>10, WorkerHeld DEF ParseReject, ParseFail, WorkerAt, Status
  <1>11. ASSUME NEW w \in Worker, ParseSucceed(w) PROVE Good
    BY <1>1, <1>3, <1>11, WorkerHeld DEF ParseSucceed, WorkerAt
  <1> HIDE DEF Good
  <1>12. ASSUME NEW p \in Web, NewRequest(p) PROVE Good
    BY <1>1, <1>12 DEF NewRequest, Upload, Patch, Delete, Reparse, View, store
  <1>13. ASSUME NEW p \in Web, WebStep(p) PROVE Good
    BY <1>1, <1>4, <1>5, <1>6, <1>7, <1>13
       DEF WebStep, UploadPut, Publish, DeleteCache, DeleteS3, ViewGet, ViewHit,
           ViewRead, ViewSet, store
  <1>14. ASSUME NEW w \in Worker, WorkerStep(w) PROVE Good
    BY <1>1, <1>8, <1>9, <1>10, <1>11, <1>14
       DEF WorkerStep, StartRefresh, Invalidate, ParseRead, ParseCache, ParseRetry,
           RefreshRead, RefreshSet, store
  <1>15. ASSUME Environment PROVE Good
    BY <1>1, <1>15 DEF Environment, Age, Evict, WorkerDies, Lose, WebDies, store
  <1>16. Good
    BY <1>1, <1>12, <1>13, <1>14, <1>15 DEF Next, vars
  <1> QED BY <1>16 DEF Good

LEMMA PatchSteps ==
  ASSUME TypeInv, [Next]_vars PROVE \A q \in Web : PatchStep(q)
  <1> DEFINE Good == \A q \in Web : PatchStep(q)
  <1>1. ASSUME UNCHANGED web PROVE Good
    BY <1>1 DEF PatchStep
  <1>2. ASSUME NEW p \in Web, Answer(p) PROVE Good
    BY <1>2, AnswerEffect DEF PatchStep
  <1>3. ASSUME NEW p \in Web, NEW pc \in WebPc \ {"patch"}, WebGo(p, pc) PROVE Good
    BY <1>3, WebGoEffect DEF PatchStep
  <1>4. ASSUME NEW p \in Web, NEW pc \in WebPc \ {"patch"}, NEW b, NEW f, Hold(p, pc, b, f)
        PROVE  Good
    BY <1>4, HoldEffect DEF PatchStep
  <1>5. ASSUME NEW p \in Web, NEW b \in Board, NEW access \in Access, Patch(p, b, access)
        PROVE  Good
    BY <1>5, PatchEffect DEF PatchStep, Patch
  <1> HIDE DEF Good
  <1>6. ASSUME NEW p \in Web, NewRequest(p) PROVE Good
    BY <1>1, <1>4, <1>5, <1>6 DEF NewRequest, Upload, Delete, Reparse, View, WebPc
  <1>7. ASSUME NEW p \in Web, WebStep(p) PROVE Good
    BY <1>2, <1>3, <1>4, <1>7
       DEF WebStep, UploadPut, UploadCreate, Publish, PatchSave, DeleteCache, DeleteS3,
           DeleteRow, ReparseSave, ViewGet, ViewHit, ViewRead, ViewSet, WebPc
  <1>8. ASSUME NEW w \in Worker, WorkerStep(w) PROVE Good
    BY <1>1, <1>8
       DEF WorkerStep, StartParse, StartRefresh, RecordView, Invalidate, ParseRead,
           ParseReject, ParseCache, ParseSucceed, ParseFail, ParseRetry, RefreshRead,
           RefreshSet
  <1>9. ASSUME Environment PROVE Good
    BY <1>1, <1>2, <1>9 DEF Environment, Age, Evict, WorkerDies, Lose, WebDies
  <1>10. Good
    BY <1>1, <1>6, <1>7, <1>8, <1>9 DEF Next, vars
  <1> QED BY <1>10 DEF Good

LEMMA JobSteps ==
  ASSUME TypeInv, [Next]_vars PROVE \A v \in Worker : JobStep(v)
  <1> DEFINE Good == \A v \in Worker : JobStep(v)
  <1>1. ASSUME UNCHANGED worker PROVE Good
    BY <1>1 DEF JobStep
  <1>2. ASSUME NEW w \in Worker, TaskDone(w) PROVE Good
    BY <1>2, TaskDoneEffect DEF JobStep
  <1>3. ASSUME NEW w \in Worker, NEW pc \in WorkerPc, WorkerGo(w, pc), worker[w].pc # "idle",
               pc = "succeed" => worker[w].pc = "cache"
        PROVE  Good
    BY <1>3, WorkerGoEffect DEF JobStep
  <1>4. ASSUME NEW w \in Worker, NEW b \in Board, Exists(b), NEW pc \in {"read", "refresh_read"},
               NEW n, Take(w, pc, b, n)
        PROVE  Good
    BY <1>4, TakeEffect DEF JobStep
  <1> HIDE DEF Good
  <1>5. ASSUME NEW p \in Web, NewRequest(p) PROVE Good
    BY <1>1, <1>5 DEF NewRequest, Upload, Patch, Delete, Reparse, View
  <1>6. ASSUME NEW p \in Web, WebStep(p) PROVE Good
    BY <1>1, <1>6
       DEF WebStep, UploadPut, UploadCreate, Publish, PatchSave, DeleteCache, DeleteS3,
           DeleteRow, ReparseSave, ViewGet, ViewHit, ViewRead, ViewSet
  <1>7. ASSUME NEW w \in Worker, WorkerStep(w) PROVE Good
    <2>1. ASSUME ParseRead(w) \/ RefreshRead(w) PROVE Good
      BY <1>2, <1>3, <2>1 DEF ParseRead, RefreshRead, RefreshRetry, WorkerAt, WorkerPc
    <2>2. ASSUME ParseCache(w) \/ RefreshSet(w) \/ ParseFail(w) PROVE Good
      BY <1>2, <1>3, <2>2 DEF ParseCache, RefreshSet, RefreshRetry, ParseFail, WorkerAt, WorkerPc
    <2>3. ASSUME NEW b \in Board, NEW n \in 0 .. ParseRetries, StartParse(w, b, n) PROVE Good
      BY <1>1, <1>4, <2>3 DEF StartParse
    <2>4. ASSUME NEW b \in Board, NEW n \in 0 .. RefreshRetries, StartRefresh(w, b, n) PROVE Good
      BY <1>1, <1>4, <2>4 DEF StartRefresh
    <2> QED BY <1>1, <1>2, <1>7, <2>1, <2>2, <2>3, <2>4
        DEF WorkerStep, RecordView, Invalidate, ParseReject, ParseSucceed, ParseRetry
  <1>8. ASSUME Environment PROVE Good
    BY <1>1, <1>2, <1>8 DEF Environment, Age, Evict, WorkerDies, Lose, WebDies
  <1>9. Good
    BY <1>1, <1>5, <1>6, <1>7, <1>8 DEF Next, vars
  <1> QED BY <1>9 DEF Good

-----------------------------------------------------------------------------
(* SeedInv is kept.  A step gives a board another holder only from a holder it *)
(* had, or with a new key, which nobody holds before it is handed out.        *)

HeldOrNew(b, f) == Holds(b, f) \/ (b = nextPk /\ nextPk' = nextPk + 1 /\ rows'[b].file = f)

LEMMA HolderIsOld ==
  ASSUME TypeInv, SeedHolds, NEW b \in Board, NEW f \in File, Holds(b, f)
  PROVE  b < nextPk
  BY ExistsBorn DEF Holds, RowHolds, JobHolds, PatchHolds, CommandHolds, SeedHolds,
     TypeInv, WebHolds, WorkerHolds, HasPk, Board

LEMMA KeysGrow == ASSUME TypeInv, [Next]_vars PROVE nextPk' = nextPk \/ nextPk' = nextPk + 1
  <1>1. ASSUME NEW p \in Web, NewRequest(p) PROVE nextPk' = nextPk
    BY <1>1 DEF NewRequest, Upload, Patch, Delete, Reparse, View, store
  <1>2. ASSUME NEW p \in Web, WebStep(p) PROVE nextPk' = nextPk \/ nextPk' = nextPk + 1
    BY <1>2
       DEF WebStep, UploadPut, UploadCreate, Publish, PatchSave, DeleteCache, DeleteS3,
           DeleteRow, ReparseSave, ViewGet, ViewHit, ViewRead, ViewSet, store
  <1>3. ASSUME NEW w \in Worker, WorkerStep(w) PROVE nextPk' = nextPk
    BY <1>3
       DEF WorkerStep, StartParse, StartRefresh, RecordView, Invalidate, ParseRead,
           ParseReject, ParseCache, ParseSucceed, ParseFail, ParseRetry, RefreshRead,
           RefreshSet, store
  <1>4. ASSUME Environment PROVE nextPk' = nextPk
    BY <1>4 DEF Environment, Age, Evict, WorkerDies, Lose, WebDies, store
  <1> QED BY <1>1, <1>2, <1>3, <1>4 DEF Next, vars

LEMMA OneFileStep ==
  ASSUME TypeInv, SeedHolds, OneFile, nextPk' \in Nat,
         \A b \in Board, f \in File : Holds(b, f)' => HeldOrNew(b, f)
  PROVE  OneFile'
  <1> SUFFICES ASSUME NEW b \in Board, NEW f \in File, NEW g \in File,
                      HeldOrNew(b, f), HeldOrNew(b, g)
               PROVE  f = g
    BY DEF OneFile
  <1>1. nextPk \in Nat /\ b \in Nat
    BY BoundAssumption DEF TypeInv, TypeOK, Board
  <1>2. (Holds(b, f) \/ Holds(b, g)) => b # nextPk
    BY <1>1, HolderIsOld
  <1> QED BY <1>2 DEF HeldOrNew, OneFile

LEMMA NextHolders ==
  ASSUME TypeInv, SeedHolds, [Next]_vars, seed' = seed
  PROVE  \A b \in Board, f \in File : Holds(b, f)' => HeldOrNew(b, f)
  <1> SUFFICES ASSUME NEW b \in Board, NEW f \in File, Holds(b, f)' PROVE HeldOrNew(b, f)
    OBVIOUS
  <1>1. CASE RowHolds(b, f)'
    <2>1. RowStep(b)
      BY RowSteps
    <2> QED BY <1>1, <2>1 DEF RowHolds, PatchHolds, RowStep, Exists, Holds, HeldOrNew
  <1>2. CASE JobHolds(b, f)'
    BY <1>2, JobSteps DEF JobHolds, RowHolds, JobStep, Holds, HeldOrNew
  <1>3. CASE PatchHolds(b, f)'
    BY <1>3, PatchSteps DEF PatchHolds, RowHolds, PatchStep, Holds, HeldOrNew
  <1>4. CASE CommandHolds(b, f)'
    BY <1>4 DEF CommandHolds, Holds, HeldOrNew
  <1> QED BY <1>1, <1>2, <1>3, <1>4 DEF Holds

LEMMA NextKeepsSeedInv ==
  ASSUME TypeInv, SafeInv, SeedInv, [Next]_vars, UNCHANGED <<seed>>
  PROVE  SeedInv'
  <1>0. TypeInv' /\ nextPk' \in Nat /\ nextPk \in Nat
    BY NextType, BoundAssumption DEF TypeInv, TypeOK
  <1>1. SeedHolds'
    <2>1. nextPk <= nextPk'
      BY <1>0, KeysGrow
    <2> QED BY <1>0, <2>1, BoundAssumption DEF SeedInv, SeedHolds, Board
  <1>2. OneFile'
    BY <1>0, NextHolders, OneFileStep DEF SeedInv
  <1>3. PatchesParse'
    <2> SUFFICES ASSUME NEW p \in Web, web'[p].pc = "patch",
                        web'[p].image.status = "success"
                 PROVE  Parsable(web'[p].image.file[1])
      BY DEF PatchesParse, Parsable
    <2>1. PatchStep(p)
      BY PatchSteps
    <2> QED BY <2>1 DEF PatchStep, SeedInv, PatchesParse, SuccessWasParsed, Parsable
  <1>4. JobsParse'
    BY JobSteps DEF JobStep, SeedInv, JobsParse, SafeInv, JobGood
  <1>5. SuccessWasParsed'
    <2> SUFFICES ASSUME NEW b \in Board, Exists(b)', rows'[b].status = "success"
                 PROVE  Parsable(rows'[b].file[1])
      BY DEF SuccessWasParsed, Parsable
    <2>1. RowStep(b)
      BY RowSteps
    <2>2. ASSUME Exists(b), rows'[b].file = rows[b].file,
                 NEW w \in Worker, worker[w].pc = "succeed", worker[w].pk = b
          PROVE  Parsable(rows'[b].file[1])
      <3>1. rows[b].file \in File /\ worker[w].file \in File
        BY <2>2, ExistsBorn, WorkerHeld
      <3>2. Holds(b, rows[b].file) /\ Holds(b, worker[w].file)
        BY <2>2 DEF Holds, RowHolds, JobHolds
      <3> QED BY <2>2, <3>1, <3>2, ParsedIsParsable DEF SeedInv, OneFile, JobsParse
    <2> QED BY <2>1, <2>2
        DEF RowStep, SeedInv, SuccessWasParsed, PatchesParse, Parsable, Exists
  <1> QED BY <1>1, <1>2, <1>3, <1>4, <1>5 DEF SeedInv

-----------------------------------------------------------------------------
(* What the command does. *)

\* The command writes no row, or one row whose content no other row has.
LEMMA SeedRow ==
  ASSUME TypeInv, SafeInv, SeedInv, NEW access \in Access, SeedSave(access)
  PROVE  \/ UNCHANGED <<rows, nextPk>>
         \/ \E b \in Board, r \in Row :
              /\ rows' = [rows EXCEPT ![b] = r] /\ ~HashTaken(r.file[1], b)
              /\ r.status = "success" /\ r.counted
              /\ Parsable(r.file[1])
              /\ \/ b = nextPk /\ nextPk' = nextPk + 1
                 \/ b < nextPk /\ nextPk' = nextPk /\ CommandHolds(b, r.file)
  <1> DEFINE new == seed.pk = 0
             b == IF new THEN nextPk ELSE seed.pk
             old == IF new THEN NewRow(seed.file) ELSE seed.image
             r == [old EXCEPT !.access = access, !.status = "success", !.counted = TRUE]
  <1>1. seed.file \in File /\ seed.file \in Parses /\ nextPk \in Nat
    BY ParsesAssumption, BoundAssumption DEF SeedSave, SeedInv, SeedHolds, TypeInv, TypeOK
  <1>2. old \in Row /\ old.file[1] = seed.file[1]
    BY <1>1, NewRowType, NewRowEffect DEF SeedInv, SeedHolds
  <1>3. r \in Row /\ r.status = "success" /\ r.counted /\ r.file = old.file
    <2> HIDE DEF old
    <2> QED BY <1>2 DEF Row, Status
  <1>4. ~new => CommandHolds(b, old.file) /\ b < nextPk
    BY DEF CommandHolds, SeedInv, SeedHolds
  <1>5. CASE Clash
    BY <1>5 DEF SeedSave
  <1>6. CASE ~Clash
    <2>1. /\ b \in Board /\ rows' = [rows EXCEPT ![b] = r]
          /\ nextPk' = IF new THEN nextPk + 1 ELSE nextPk
      BY <1>6 DEF SeedSave
    <2>2. ~HashTaken(seed.file[1], b)
      <3>1. 0 \notin Board
        BY BoundAssumption DEF Board
      <3>2. b = nextPk => rows[b] = None
        BY <1>1, <2>1 DEF TypeInv, Unborn
      <3> QED BY <1>6, <3>1, <3>2 DEF Clash, HashTaken
    <2>3. \/ b = nextPk /\ nextPk' = nextPk + 1
          \/ b < nextPk /\ nextPk' = nextPk /\ CommandHolds(b, old.file)
      BY <1>4, <2>1
    <2>4. Parsable(r.file[1])
      BY <1>1, <1>2, <1>3, ParsedIsParsable
    <2> HIDE DEF r, b, old
    <2> QED BY <1>2, <1>3, <2>1, <2>2, <2>3, <2>4
  <1> QED BY <1>5, <1>6

LEMMA SeedSaveType ==
  ASSUME TypeInv, SafeInv, SeedInv, NEW access \in Access, SeedSave(access)
  PROVE  TypeInv' /\ SafeInv'
  <1> DEFINE Rest == UNCHANGED <<s3, cache, queues, web, worker, used, served>>
  <1>0. Rest /\ nextPk \in Nat
    BY BoundAssumption DEF SeedSave, TypeInv, TypeOK
  <1>1. CASE UNCHANGED <<rows, nextPk>>
    <2>1. UNCHANGED vars
      BY <1>0, <1>1 DEF vars, queues
    <2>2. TypeInv'
      BY <2>1, StutterType
    <2>3. SafeInv'
      BY <2>1, WebGoodNext, JobGoodNext, RowsNext, CacheNext DEF SafeInv
    <2> QED BY <2>2, <2>3
  <1>2. ASSUME NEW b \in Board, NEW r \in Row, rows' = [rows EXCEPT ![b] = r],
               ~HashTaken(r.file[1], b), r.counted,
               \/ b = nextPk /\ nextPk' = nextPk + 1
               \/ b < nextPk /\ nextPk' = nextPk
        PROVE  TypeInv' /\ SafeInv'
    <2>1. /\ nextPk' \in 1 .. MaxBoard + 1 /\ nextPk <= nextPk' /\ nextPk' \in Nat
          /\ \A c \in Board : c < nextPk => c < nextPk'
          /\ \A c \in Board : c >= nextPk' => c >= nextPk /\ c # b
      BY <1>0, <1>2, BoundAssumption DEF TypeInv, TypeOK, Board
    <2>2. rows' \in [Board -> Row \cup {None}] /\ \A c \in Board \ {b} : rows'[c] = rows[c]
      BY <1>2 DEF TypeInv, TypeOK
    <2>3. WebInv'
      BY <1>0, <2>1 DEF WebInv, WebHolds, TypeInv, TypeOK
    <2>4. WorkerInv'
      BY <1>0, <2>1, WorkerSame
    <2>5. Unborn'
      BY <1>0, <2>1, <2>2 DEF Unborn, TypeInv, queues
    <2>6. TypeInv'
      BY <1>0, <2>1, <2>2, <2>3, <2>4, <2>5 DEF TypeInv, TypeOK, WebInv, WorkerInv, queues
    <2>7. SuccessIsCounted' /\ OneRowPerContent'
      BY <1>2, RowPut DEF Counted
    <2>8. SafeInv'
      BY <1>0, <2>7 DEF SafeInv, WebGood, JobGood, CacheIsOwnParse
    <2> QED BY <2>6, <2>8
  <1> QED BY <1>1, <1>2, SeedRow

LEMMA SeedCacheType ==
  ASSUME TypeInv, SafeInv, SeedInv, SeedCache
  PROVE  TypeInv' /\ SafeInv'
  <1>0. UNCHANGED <<rows, nextPk, s3, queues, web, worker, served>>
    BY DEF SeedCache
  <1>1. seed.file \in File /\ seed.file \in Parses
    BY ParsesAssumption DEF SeedCache, SeedInv, SeedHolds
  <1>2. cache' \in [Hash -> Entry \cup {None}] /\ used' \in [Kind -> Nat]
    BY <1>1, CacheSetType, SpendType DEF SeedCache, CacheFails, Kind, TypeInv, TypeOK
  <1>3. nextPk' = nextPk /\ nextPk \in Nat
    BY <1>0, BoundAssumption DEF TypeInv, TypeOK
  <1>4. WebInv' /\ WorkerInv' /\ Unborn'
    BY <1>0, <1>3, WebSame, WorkerSame, UnbornSame DEF queues
  <1>5. TypeInv'
    BY <1>0, <1>2, <1>4 DEF TypeInv, TypeOK, WebInv, WorkerInv, queues
  <1>6. CASE CacheSet(seed.file)
    <2>1. seed.file[1] \in Hash
      BY <1>1 DEF File
    <2>2. /\ cache'[seed.file[1]] = [file |-> seed.file, low |-> FALSE]
          /\ \A h \in Hash \ {seed.file[1]} : cache'[h] = cache[h]
      BY <1>6, <2>1 DEF CacheSet, TypeInv, TypeOK
    <2> QED BY <1>0, <1>1, <1>5, <2>2
        DEF SafeInv, WebGood, JobGood, CacheIsOwnParse, SuccessIsCounted, OneRowPerContent, Exists
  <1>7. CASE UNCHANGED cache
    BY <1>0, <1>5, <1>7
       DEF SafeInv, WebGood, JobGood, CacheIsOwnParse, SuccessIsCounted, OneRowPerContent, Exists
  <1> QED BY <1>6, <1>7 DEF SeedCache, CacheFails

\* Start, upload and death change no row, no key and no cache entry.
LEMMA SeedElseType ==
  ASSUME TypeInv, SafeInv, SeedInv,
         SeedPut \/ SeedDies \/ \E f \in File, force \in BOOLEAN : SeedStart(f, force)
  PROVE  /\ TypeInv' /\ SafeInv'
         /\ UNCHANGED <<rows, nextPk, cache, web, worker>>
  <1>1. /\ UNCHANGED <<rows, nextPk, cache, queues, web, worker, served>>
        /\ used' = used \/ (\E k \in Kind : Spend(k))
        /\ s3' = s3 \/ (seed.pc = "put" /\ s3' = s3 \cup {seed.file})
    BY DEF SeedPut, SeedDies, SeedStart, Kind, vars, store, queues
  <1>2. nextPk' = nextPk /\ nextPk \in Nat
    BY <1>1, BoundAssumption DEF TypeInv, TypeOK
  <1>3. WebInv' /\ WorkerInv' /\ Unborn'
    BY <1>1, <1>2, WebSame, WorkerSame, UnbornSame DEF queues
  <1>4. used' \in [Kind -> Nat]
    BY <1>1, SpendType DEF TypeInv, TypeOK
  <1>5. s3' \subseteq File
    BY <1>1, ParsesAssumption DEF SeedInv, SeedHolds, TypeInv, TypeOK
  <1>6. TypeInv'
    BY <1>1, <1>3, <1>4, <1>5 DEF TypeInv, TypeOK, WebInv, WorkerInv, queues
  <1>7. SafeInv'
    BY <1>1 DEF SafeInv, WebGood, JobGood, CacheIsOwnParse, SuccessIsCounted,
       OneRowPerContent, Exists
  <1> QED BY <1>1, <1>6, <1>7

\* The command comes to hold a row only when it loads it, and keeps it as it is.
LEMMA CommandStep ==
  ASSUME TypeInv, SeedInv, SeedStep, nextPk' \in Nat, nextPk <= nextPk'
  PROVE  /\ SeedHolds'
         /\ \A b \in Board, f \in File : CommandHolds(b, f)' => Holds(b, f)
  <1>0. nextPk \in Nat /\ Board \subseteq Nat /\ 0 \notin Board
    BY BoundAssumption DEF TypeInv, TypeOK, Board
  <1>1. ASSUME seed' = SeedIdle
        PROVE  SeedHolds' /\ \A b \in Board, f \in File : ~CommandHolds(b, f)'
    BY <1>0, <1>1 DEF SeedIdle, SeedHolds, CommandHolds
  <1>2. ASSUME NEW pc \in {"save", "cache"}, SeedGo(pc), seed.pc # "idle"
        PROVE  SeedHolds' /\ \A b \in Board, f \in File : CommandHolds(b, f)' => CommandHolds(b, f)
    <2>1. /\ seed' \in [pc : {"idle", "put", "save", "cache"}, pk : Board \cup {0},
                         file : File \cup {None}, image : Row \cup {None}]
          /\ seed'.pk = seed.pk /\ seed'.file = seed.file /\ seed'.image = seed.image
          /\ seed'.pc = pc
      BY <1>2 DEF SeedGo, SeedInv, SeedHolds
    <2>2. \A b \in Board : b < nextPk => b < nextPk'
      BY <1>0
    <2> QED BY <1>2, <2>1, <2>2 DEF SeedInv, SeedHolds, CommandHolds
  <1>3. ASSUME NEW f \in File, NEW force \in BOOLEAN, SeedStart(f, force)
        PROVE  /\ SeedHolds'
               /\ \A b \in Board, g \in File : CommandHolds(b, g)' => RowHolds(b, g)
    <2>1. CASE seed' = [pc |-> "put", pk |-> 0, file |-> f, image |-> None]
      BY <1>0, <1>3, <2>1 DEF SeedStart, SeedHolds, CommandHolds
    <2>2. ASSUME NEW b \in Board, Exists(b), rows[b].file[1] = f[1],
                 seed' = [pc |-> "put", pk |-> b, file |-> f, image |-> rows[b]]
          PROVE  /\ SeedHolds'
                 /\ \A c \in Board, g \in File : CommandHolds(c, g)' => RowHolds(c, g)
      <3>1. rows[b] \in Row /\ b < nextPk /\ nextPk' = nextPk
        BY <1>3, <2>2, ExistsBorn DEF SeedStart, vars
      <3> QED BY <1>3, <2>2, <3>1 DEF SeedStart, SeedHolds, CommandHolds, RowHolds
    <2> QED BY <1>3, <2>1, <2>2 DEF SeedStart
  <1>4. \/ seed' = SeedIdle
        \/ \E pc \in {"save", "cache"} : SeedGo(pc) /\ seed.pc # "idle"
        \/ \E f \in File, force \in BOOLEAN : SeedStart(f, force)
    BY DEF SeedStep, SeedPut, SeedCache, SeedDies, SeedSave, SeedEnds
  <1> QED BY <1>1, <1>2, <1>3, <1>4 DEF Holds

LEMMA SeedStepKeepsSeedInv ==
  ASSUME TypeInv, SafeInv, SeedInv, SeedStep
  PROVE  TypeInv' /\ SafeInv' /\ SeedInv'
  <1>1. TypeInv' /\ SafeInv'
    BY SeedSaveType, SeedCacheType, SeedElseType DEF SeedStep
  <1>2. UNCHANGED <<web, worker>>
    BY SeedElseType DEF SeedStep, SeedSave, SeedCache
  <1>3. ASSUME UNCHANGED <<rows, nextPk>> PROVE SeedInv'
    <2>1. nextPk \in Nat /\ nextPk' \in Nat /\ nextPk <= nextPk'
      BY <1>3, BoundAssumption DEF TypeInv, TypeOK
    <2>2. SeedHolds' /\ \A b \in Board, f \in File : CommandHolds(b, f)' => Holds(b, f)
      BY <2>1, CommandStep
    <2>3. \A b \in Board, f \in File : Holds(b, f)' => Holds(b, f)
      BY <1>2, <1>3, <2>2 DEF Holds, RowHolds, JobHolds, PatchHolds, Exists
    <2> QED BY <1>2, <1>3, <2>2, <2>3
        DEF SeedInv, OneFile, PatchesParse, JobsParse, SuccessWasParsed, Exists
  <1>4. ASSUME NEW access \in Access, SeedSave(access),
               NEW b \in Board, NEW r \in Row,
               rows' = [rows EXCEPT ![b] = r], r.status = "success",
               Parsable(r.file[1]),
               \/ b = nextPk /\ nextPk' = nextPk + 1
               \/ b < nextPk /\ nextPk' = nextPk /\ CommandHolds(b, r.file)
        PROVE  SeedInv'
    <2>1. nextPk \in Nat /\ nextPk' \in Nat /\ nextPk <= nextPk'
      BY <1>4, BoundAssumption DEF TypeInv, TypeOK
    <2>2. SeedHolds' /\ \A c \in Board, f \in File : CommandHolds(c, f)' => Holds(c, f)
      BY <2>1, CommandStep
    <2>3. rows'[b] = r /\ \A c \in Board \ {b} : rows'[c] = rows[c]
      BY <1>4 DEF TypeInv, TypeOK
    <2>4. \A c \in Board, f \in File : RowHolds(c, f)' => HeldOrNew(c, f)
      BY <1>4, <2>3 DEF RowHolds, Exists, HeldOrNew, Holds
    <2>5. \A c \in Board, f \in File : Holds(c, f)' => HeldOrNew(c, f)
      BY <1>2, <2>2, <2>4 DEF Holds, JobHolds, PatchHolds, HeldOrNew
    <2>6. OneFile'
      BY <2>1, <2>5, OneFileStep DEF SeedInv
    <2> QED BY <1>2, <1>4, <2>2, <2>3, <2>6
        DEF SeedInv, PatchesParse, JobsParse, SuccessWasParsed, Parsable, Exists
  <1>5. ASSUME NEW access \in Access, SeedSave(access) PROVE SeedInv'
    BY <1>3, <1>4, <1>5, SeedRow
  <1>6. ASSUME ~\E access \in Access : SeedSave(access) PROVE SeedInv'
    BY <1>3, <1>6, SeedElseType DEF SeedStep, SeedCache
  <1> QED BY <1>1, <1>5, <1>6

-----------------------------------------------------------------------------

LEMMA SeedInvariance == SeedSpec => [](TypeInv /\ SafeInv /\ SeedInv)
  <1>1. SeedInit => TypeInv /\ SafeInv /\ SeedInv
    <2> SUFFICES ASSUME SeedInit PROVE SeedInv
      BY InitTypeInv, InitSafe DEF SeedInit
    <2>1. 0 \notin Board
      BY BoundAssumption DEF Board
    <2> QED BY <2>1 DEF SeedInit, Init, SeedIdle, IdleRequest, IdleJob, SeedInv, SeedHolds,
            OneFile, Holds, RowHolds, JobHolds, PatchHolds, CommandHolds, PatchesParse,
            JobsParse, SuccessWasParsed, Exists
  <1>2. TypeInv /\ SafeInv /\ SeedInv /\ [SeedNext]_<<vars, seed, seeds>>
          => (TypeInv /\ SafeInv /\ SeedInv)'
    <2> SUFFICES ASSUME TypeInv, SafeInv, SeedInv, [SeedNext]_<<vars, seed, seeds>>
                 PROVE  TypeInv' /\ SafeInv' /\ SeedInv'
      OBVIOUS
    <2>1. CASE SeedStep
      BY <2>1, SeedStepKeepsSeedInv
    <2>2. CASE [Next]_vars /\ UNCHANGED <<seed, seeds>>
      <3>1. TypeInv' /\ SafeInv'
        BY <2>2, NextType, WebGoodNext, JobGoodNext, RowsNext, CacheNext DEF SafeInv
      <3> QED BY <2>2, <3>1, NextKeepsSeedInv
    <2> QED BY <2>1, <2>2 DEF SeedNext
  <1> QED BY <1>1, <1>2, PTL DEF SeedSpec

\* The command's own check for a row of the content, its inserts and its updates keep
\* contents unique too, next to uploads, PATCHes and deletions.
THEOREM UniqueContentWithSeeds == SeedSpec => []OneRowPerContent
  <1>1. SafeInv => OneRowPerContent
    BY DEF SafeInv
  <1> QED BY <1>1, SeedInvariance, PTL

\* Whatever a command, a parse task or a PATCH saves over a board, and with
\* whatever extension, one that is shown as parsed has content some parser accepts.
THEOREM SuccessAlwaysParsed == SeedSpec => []SuccessWasParsed
  <1>1. SeedInv => SuccessWasParsed
    BY DEF SeedInv
  <1> QED BY <1>1, SeedInvariance, PTL
=============================================================================
