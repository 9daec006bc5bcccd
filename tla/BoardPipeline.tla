---------------------------- MODULE BoardPipeline ----------------------------
(***************************************************************************)
(* The life of a board file in NailTrace: the BoardFile row in Postgres,   *)
(* the raw bytes in S3, the parsed JSON in Redis and the Celery tasks that *)
(* tie them together, as written by the admin endpoints                    *)
(* (apps/admin_panel/views.py), the view endpoint (apps/boards/views.py)   *)
(* and the tasks (apps/boards/tasks.py).                                   *)
(*                                                                         *)
(* Requests are not wrapped in a transaction (no ATOMIC_REQUESTS), so each *)
(* ORM statement, S3 call, Redis call and task publication is a step of    *)
(* its own.  Two adjacent calls are one step only where moving one of them *)
(* next to the other gives the same behaviours; the action says so.        *)
(***************************************************************************)
EXTENDS Integers

CONSTANTS
    Hash,       \* contents of board files, named by their SHA-256
    Ext,        \* lower-cased extensions the upload view accepts
    Parses,     \* the <<hash, ext>> pairs the parsers succeed on
    Web,        \* gunicorn threads
    Worker,     \* Celery worker processes
    None,       \* no row, no file, no cache entry
    MaxBoard,   \* bound: primary keys handed out
    Limit       \* bound: requests, faults and crashes of each kind

Kind == {"upload", "patch", "delete", "reparse", "view", "fault", "crash"}
Board == 1 .. MaxBoard
File == Hash \X Ext
Access == {"enabled", "restricted", "disabled"}
Status == {"pending", "parsing", "success", "failed"}

\* A definition whose name ends in Variant is a faulty form of the one that
\* follows it, kept to see that the properties below can tell the two apart.

ParseRetriesVariant == 2
ParseRetries == 3       \* max_retries of boards.parse_board
RefreshRetries == 2     \* max_retries of boards.refresh_cache

\* A row of boards_boardfile.  counted: part, pin and net counts are not null.
Row == [file : File, access : Access, status : Status,
        counted : BOOLEAN, views : Nat]

\* A Redis entry.  low: its TTL is below BOARD_CACHE_REFRESH_THRESHOLD.
Entry == [file : File, low : BOOLEAN]

ASSUME ParsesAssumption == Parses \subseteq File
ASSUME BoundAssumption == MaxBoard \in Nat /\ Limit \in [Kind -> Nat]
ASSUME NoneAssumption == None \notin File /\ None \notin Row /\ None \notin Entry

VARIABLES
    rows,       \* Postgres: primary key -> row or None
    nextPk,     \* the next primary key
    s3,         \* the stored objects; an s3_key is the hash and the extension
    cache,      \* Redis: content hash -> entry or None
    parseQ,     \* queued boards.parse_board messages, by board and retries
    refreshQ,   \* queued boards.refresh_cache messages, by board and retries
    recordQ,    \* queued boards.record_view messages, by board
    invalidQ,   \* queued boards.invalidate_cache messages, by hash
    web,        \* what each gunicorn thread is doing
    worker,     \* what each Celery process is doing
    used,       \* how much of each bound is spent
    served      \* history: 200 answers of the view endpoint, by board

store == <<rows, nextPk, s3, cache>>
queues == <<parseQ, refreshQ, recordQ, invalidQ>>
vars == <<rows, nextPk, s3, cache, parseQ, refreshQ, recordQ, invalidQ,
          web, worker, used, served>>

WebPc == {"idle", "put", "create", "publish", "patch",
          "del_cache", "del_s3", "del_row", "reparse", "get", "hit", "read", "set"}
WorkerPc == {"idle", "read", "cache", "succeed", "reject", "fail", "retry",
             "refresh_read", "refresh_set"}

\* pk and file are those of the row the handler loaded; image is the whole row
\* a PATCH holds until it saves it.
Request == [pc : WebPc, pk : Board \cup {0}, file : File \cup {None},
            image : Row \cup {None}]
Job == [pc : WorkerPc, pk : Board \cup {0}, file : File \cup {None},
        n : 0 .. ParseRetries]

IdleRequest == [pc |-> "idle", pk |-> 0, file |-> None, image |-> None]
IdleJob == [pc |-> "idle", pk |-> 0, file |-> None, n |-> 0]

TypeOK ==
    /\ rows \in [Board -> Row \cup {None}]
    /\ nextPk \in 1 .. MaxBoard + 1
    /\ s3 \subseteq File
    /\ cache \in [Hash -> Entry \cup {None}]
    /\ parseQ \in [Board -> [0 .. ParseRetries -> Nat]]
    /\ refreshQ \in [Board -> [0 .. RefreshRetries -> Nat]]
    /\ recordQ \in [Board -> Nat]
    /\ invalidQ \in [Hash -> Nat]
    /\ web \in [Web -> Request]
    /\ worker \in [Worker -> Job]
    /\ used \in [Kind -> Nat]
    /\ served \in [Board -> Nat]

Init ==
    /\ rows = [b \in Board |-> None]
    /\ nextPk = 1
    /\ s3 = {}
    /\ cache = [h \in Hash |-> None]
    /\ parseQ = [b \in Board |-> [n \in 0 .. ParseRetries |-> 0]]
    /\ refreshQ = [b \in Board |-> [n \in 0 .. RefreshRetries |-> 0]]
    /\ recordQ = [b \in Board |-> 0]
    /\ invalidQ = [h \in Hash |-> 0]
    /\ web = [p \in Web |-> IdleRequest]
    /\ worker = [w \in Worker |-> IdleJob]
    /\ used = [k \in Kind |-> 0]
    /\ served = [b \in Board |-> 0]

-----------------------------------------------------------------------------
(* Helpers *)

Exists(b) == rows[b] # None
Spend(k) == used[k] < Limit[k] /\ used' = [used EXCEPT ![k] = @ + 1]

\* The unique constraint on content_hash, against every row but b.
HashTaken(h, b) == \E c \in Board \ {b} : Exists(c) /\ rows[c].file[1] = h

WebAt(p, pc) == web[p].pc = pc
WebGo(p, pc) == web' = [web EXCEPT ![p].pc = pc]
Answer(p) == web' = [web EXCEPT ![p] = IdleRequest]
Hold(p, pc, b, f) ==
    web' = [web EXCEPT ![p] = [pc |-> pc, pk |-> b, file |-> f, image |-> None]]

WorkerAt(w, pc) == worker[w].pc = pc
WorkerGo(w, pc) == worker' = [worker EXCEPT ![w].pc = pc]
TaskDone(w) == worker' = [worker EXCEPT ![w] = IdleJob]
Take(w, pc, b, n) ==
    worker' = [worker EXCEPT ![w] = [pc |-> pc, pk |-> b, file |-> rows[b].file, n |-> n]]

\* A board as the upload view creates it.
NewRow(f) == [file |-> f, access |-> "enabled", status |-> "pending",
              counted |-> FALSE, views |-> 0]

PublishParse(b, n) == parseQ' = [parseQ EXCEPT ![b][n] = @ + 1]
PublishRefresh(b, n) == refreshQ' = [refreshQ EXCEPT ![b][n] = @ + 1]
PublishRecord(b) == recordQ' = [recordQ EXCEPT ![b] = @ + 1]
CacheSet(f) == cache' = [cache EXCEPT ![f[1]] = [file |-> f, low |-> FALSE]]

\* save(update_fields=...) of a loaded row.  Django raises DatabaseError when
\* the statement updates no row; the callers look at Exists first.
SaveStatusVariant(b, st) ==
    rows' = [rows EXCEPT ![b].status = IF st = "failed" THEN "error" ELSE st]
SaveStatus(b, st) == rows' = [rows EXCEPT ![b].status = st]
SaveSuccessVariant(b) == rows' = [rows EXCEPT ![b].status = "success"]
SaveSuccess(b) == rows' = [rows EXCEPT ![b].status = "success", ![b].counted = TRUE]

\* Redis is unavailable: the call raises.
CacheFails == Spend("fault") /\ UNCHANGED cache

\* read_board_file raises when the object is missing or S3 is unavailable.
ReadFails(f) == \/ f \notin s3 /\ UNCHANGED used
                \/ Spend("fault")
ReadWorks(f) == f \in s3 /\ UNCHANGED used

\* CanViewBoard.  Whether a technician's tier reaches min_tier is left open.
MayView(admin, access) ==
    IF admin \/ access = "enabled" THEN {TRUE}
    ELSE IF access = "disabled" THEN {FALSE} ELSE BOOLEAN

-----------------------------------------------------------------------------
(* AdminBoardUploadView.post *)

\* The duplicate check; a duplicate is answered 409 at once.  Files refused for
\* their extension or size never get here.
Upload(p, f) ==
    /\ WebAt(p, "idle") /\ Spend("upload")
    /\ IF HashTaken(f[1], 0)
       THEN UNCHANGED web
       ELSE Hold(p, "put", 0, f)
    /\ UNCHANGED <<store, queues, worker, served>>

UploadPut(p) ==
    /\ WebAt(p, "put")
    /\ \/ s3' = s3 \cup {web[p].file} /\ WebGo(p, "create") /\ UNCHANGED used
       \/ Spend("fault") /\ Answer(p) /\ UNCHANGED s3
    /\ UNCHANGED <<rows, nextPk, cache, queues, worker, served>>

\* The duplicate check is trusted, and content_hash is not unique.
UploadCreateVariant(p) ==
    /\ WebAt(p, "create") /\ nextPk \in Board
    /\ rows' = [rows EXCEPT ![nextPk] = NewRow(web[p].file)]
    /\ nextPk' = nextPk + 1
    /\ Hold(p, "publish", nextPk, None)
    /\ UNCHANGED <<s3, cache, queues, worker, used, served>>

\* INSERT; a concurrent upload of the same content makes it an IntegrityError,
\* which nothing handles.
UploadCreate(p) ==
    /\ WebAt(p, "create")
    /\ IF HashTaken(web[p].file[1], 0)
       THEN Answer(p) /\ UNCHANGED <<rows, nextPk>>
       ELSE /\ nextPk \in Board
            /\ rows' = [rows EXCEPT ![nextPk] = NewRow(web[p].file)]
            /\ nextPk' = nextPk + 1
            /\ Hold(p, "publish", nextPk, None)
    /\ UNCHANGED <<s3, cache, queues, worker, used, served>>

\* parse_board_task.delay, the last call of the upload and of the reparse view.
Publish(p) ==
    /\ WebAt(p, "publish")
    /\ PublishParse(web[p].pk, 0)
    /\ Answer(p)
    /\ UNCHANGED <<store, refreshQ, recordQ, invalidQ, worker, used, served>>

-----------------------------------------------------------------------------
(* AdminBoardDetailView.patch and .delete *)

Patch(p, b, access) ==
    /\ WebAt(p, "idle") /\ Spend("patch") /\ Exists(b)
    /\ web' = [web EXCEPT ![p] = [pc |-> "patch", pk |-> b, file |-> rows[b].file,
                                  image |-> [rows[b] EXCEPT !.access = access]]]
    /\ UNCHANGED <<store, queues, worker, served>>

\* serializer.save() writes every column of the loaded row, and inserts the row
\* again when it is gone, unless its hash has been taken.
PatchSave(p) ==
    LET b == web[p].pk IN
    /\ WebAt(p, "patch")
    /\ IF HashTaken(web[p].file[1], b)
       THEN UNCHANGED rows
       ELSE rows' = [rows EXCEPT ![b] = web[p].image]
    /\ Answer(p)
    /\ UNCHANGED <<nextPk, s3, cache, queues, worker, used, served>>

Delete(p, b) ==
    /\ WebAt(p, "idle") /\ Spend("delete") /\ Exists(b)
    /\ Hold(p, "del_cache", b, rows[b].file)
    /\ UNCHANGED <<store, queues, worker, served>>

DeleteCache(p) ==
    /\ WebAt(p, "del_cache")
    /\ \/ /\ cache' = [cache EXCEPT ![web[p].file[1]] = None]
          /\ WebGo(p, "del_s3") /\ UNCHANGED used
       \/ CacheFails /\ Answer(p)
    /\ UNCHANGED <<rows, nextPk, s3, queues, worker, served>>

\* An S3 error is logged and the deletion goes on.
DeleteS3(p) ==
    /\ WebAt(p, "del_s3")
    /\ \/ s3' = s3 \ {web[p].file} /\ UNCHANGED used
       \/ Spend("fault") /\ UNCHANGED s3
    /\ WebGo(p, "del_row")
    /\ UNCHANGED <<rows, nextPk, cache, queues, worker, served>>

DeleteRow(p) ==
    /\ WebAt(p, "del_row")
    /\ rows' = [rows EXCEPT ![web[p].pk] = None]
    /\ Answer(p)
    /\ UNCHANGED <<nextPk, s3, cache, queues, worker, used, served>>

-----------------------------------------------------------------------------
(* AdminBoardReparseView.post *)

\* The row is read and boards.invalidate_cache published: the message may wait
\* in the queue for as long as the thread may wait before publishing it.
Reparse(p, b) ==
    /\ WebAt(p, "idle") /\ Spend("reparse") /\ Exists(b)
    /\ invalidQ' = [invalidQ EXCEPT ![rows[b].file[1]] = @ + 1]
    /\ Hold(p, "reparse", b, None)
    /\ UNCHANGED <<store, parseQ, refreshQ, recordQ, worker, served>>

\* The task is not published.
ReparseSaveVariant(p) ==
    /\ WebAt(p, "reparse")
    /\ IF Exists(web[p].pk)
       THEN SaveStatus(web[p].pk, "pending") ELSE UNCHANGED rows
    /\ Answer(p)
    /\ UNCHANGED <<nextPk, s3, cache, queues, worker, used, served>>

ReparseSave(p) ==
    /\ WebAt(p, "reparse")
    /\ IF Exists(web[p].pk)
       THEN SaveStatus(web[p].pk, "pending") /\ WebGo(p, "publish")
       ELSE Answer(p) /\ UNCHANGED rows
    /\ UNCHANGED <<nextPk, s3, cache, queues, worker, used, served>>

-----------------------------------------------------------------------------
(* BoardViewEndpoint.get *)

\* A row that is missing, not permitted or not parsed is answered at once.
View(p, b, admin) ==
    /\ WebAt(p, "idle") /\ Spend("view") /\ Exists(b)
    /\ \E permitted \in MayView(admin, rows[b].access) :
         IF permitted /\ rows[b].status = "success"
         THEN Hold(p, "get", b, rows[b].file)
         ELSE UNCHANGED web
    /\ UNCHANGED <<store, queues, worker, served>>

ViewGet(p) ==
    /\ WebAt(p, "get")
    /\ \/ /\ WebGo(p, IF cache[web[p].file[1]] # None THEN "hit" ELSE "read")
          /\ UNCHANGED <<cache, used>>
       \/ CacheFails /\ Answer(p)
    /\ UNCHANGED <<rows, nextPk, s3, queues, worker, served>>

\* record_board_view.delay, cache.ttl, refresh_board_cache.delay, 200.  The
\* entry may have gone since ViewGet, and then its TTL is 0.  The first message
\* is published with the rest: nothing a view reads depends on view_count.
\* Once it is, Redis may fail cache.ttl, which is answered 500, and the thread
\* may die; either way the view is recorded and not served.
ViewHit(p) ==
    LET b == web[p].pk
        entry == cache[web[p].file[1]] IN
    /\ WebAt(p, "hit")
    /\ PublishRecord(b)
    /\ \/ /\ IF entry # None /\ entry.low
             THEN PublishRefresh(b, 0) ELSE UNCHANGED refreshQ
          /\ served' = [served EXCEPT ![b] = @ + 1]
          /\ UNCHANGED used
       \/ /\ Spend("fault") \/ Spend("crash")
          /\ UNCHANGED <<refreshQ, served>>
    /\ Answer(p)
    /\ UNCHANGED <<store, parseQ, invalidQ, worker>>

\* S3 errors are answered 503, a failing parse 422.
ViewRead(p) ==
    LET f == web[p].file IN
    /\ WebAt(p, "read")
    /\ \/ ReadFails(f) /\ Answer(p)
       \/ ReadWorks(f) /\ IF f \in Parses THEN WebGo(p, "set") ELSE Answer(p)
    /\ UNCHANGED <<store, queues, worker, served>>

\* Only cache hits are counted.
ViewSetVariant(p) ==
    /\ WebAt(p, "set")
    /\ CacheSet(web[p].file)
    /\ served' = [served EXCEPT ![web[p].pk] = @ + 1]
    /\ Answer(p)
    /\ UNCHANGED <<rows, nextPk, s3, queues, worker, used>>

\* cache.set, record_board_view.delay, 200; the thread may die in between.
ViewSet(p) ==
    LET b == web[p].pk IN
    /\ WebAt(p, "set")
    /\ \/ /\ CacheSet(web[p].file)
          /\ PublishRecord(b)
          /\ served' = [served EXCEPT ![b] = @ + 1]
          /\ UNCHANGED used
       \/ CacheSet(web[p].file) /\ Spend("crash") /\ UNCHANGED <<recordQ, served>>
       \/ CacheFails /\ UNCHANGED <<recordQ, served>>
    /\ Answer(p)
    /\ UNCHANGED <<rows, nextPk, s3, parseQ, refreshQ, invalidQ, worker>>

-----------------------------------------------------------------------------
(* parse_board_task.  Celery acknowledges a message before it runs the task. *)

\* The row is loaded and mark_parsing saves it.  Outside the try block: a row
\* that is gone, before or after it is loaded, ends the task either way.
StartParse(w, b, n) ==
    /\ WorkerAt(w, "idle") /\ parseQ[b][n] > 0
    /\ parseQ' = [parseQ EXCEPT ![b][n] = @ - 1]
    /\ IF Exists(b)
       THEN SaveStatus(b, "parsing") /\ Take(w, "read", b, n)
       ELSE UNCHANGED <<rows, worker>>
    /\ UNCHANGED <<nextPk, s3, cache, refreshQ, recordQ, invalidQ, web, used, served>>

\* The read is outside the try block, as mark_parsing is.
ParseReadVariant(w) ==
    LET f == worker[w].file IN
    /\ WorkerAt(w, "read")
    /\ \/ ReadFails(f) /\ TaskDone(w)
       \/ ReadWorks(f) /\ f \notin Parses /\ WorkerGo(w, "reject")
       \/ ReadWorks(f) /\ f \in Parses /\ WorkerGo(w, "cache")
    /\ UNCHANGED <<store, queues, web, served>>

\* The result is cached before result.success is looked at.
ParseUncheckedVariant(w) ==
    LET f == worker[w].file IN
    /\ WorkerAt(w, "read")
    /\ \/ ReadFails(f) /\ WorkerGo(w, "fail")
       \/ ReadWorks(f) /\ WorkerGo(w, "cache")
    /\ UNCHANGED <<store, queues, web, served>>

ParseRead(w) ==
    LET f == worker[w].file IN
    /\ WorkerAt(w, "read")
    /\ \/ ReadFails(f) /\ WorkerGo(w, "fail")
       \/ ReadWorks(f) /\ f \notin Parses /\ WorkerGo(w, "reject")
       \/ ReadWorks(f) /\ f \in Parses /\ WorkerGo(w, "cache")
    /\ UNCHANGED <<store, queues, web, served>>

\* result.success is false: mark_failed, and no retry.  On a row that is gone
\* mark_failed raises, here and again in the except block, and the task ends.
ParseReject(w) ==
    /\ WorkerAt(w, "reject")
    /\ IF Exists(worker[w].pk)
       THEN SaveStatus(worker[w].pk, "failed") ELSE UNCHANGED rows
    /\ TaskDone(w)
    /\ UNCHANGED <<nextPk, s3, cache, queues, web, used, served>>

ParseCache(w) ==
    /\ WorkerAt(w, "cache")
    /\ \/ CacheSet(worker[w].file) /\ WorkerGo(w, "succeed") /\ UNCHANGED used
       \/ CacheFails /\ WorkerGo(w, "fail")
    /\ UNCHANGED <<rows, nextPk, s3, queues, web, served>>

\* mark_success saves the whole row, and so inserts one that is gone.
ParseSucceedVariant(w) ==
    /\ WorkerAt(w, "succeed")
    /\ rows' = [rows EXCEPT ![worker[w].pk] =
                  [NewRow(worker[w].file) EXCEPT !.status = "success", !.counted = TRUE]]
    /\ TaskDone(w)
    /\ UNCHANGED <<nextPk, s3, cache, queues, web, used, served>>

\* mark_success.  On a row that is gone it raises, mark_failed in the except
\* block raises too, and the task ends without a retry.
ParseSucceed(w) ==
    /\ WorkerAt(w, "succeed")
    /\ IF Exists(worker[w].pk) THEN SaveSuccess(worker[w].pk) ELSE UNCHANGED rows
    /\ TaskDone(w)
    /\ UNCHANGED <<nextPk, s3, cache, queues, web, used, served>>

\* The except block: mark_failed, then self.retry.
ParseFail(w) ==
    /\ WorkerAt(w, "fail")
    /\ IF Exists(worker[w].pk)
       THEN SaveStatus(worker[w].pk, "failed") /\ WorkerGo(w, "retry")
       ELSE TaskDone(w) /\ UNCHANGED rows
    /\ UNCHANGED <<nextPk, s3, cache, queues, web, used, served>>

ParseRetry(w) ==
    LET n == worker[w].n IN
    /\ WorkerAt(w, "retry")
    /\ IF n < ParseRetries THEN PublishParse(worker[w].pk, n + 1) ELSE UNCHANGED parseQ
    /\ TaskDone(w)
    /\ UNCHANGED <<store, refreshQ, recordQ, invalidQ, web, used, served>>

-----------------------------------------------------------------------------
(* The other tasks of apps/boards/tasks.py *)

StartRefresh(w, b, n) ==
    /\ WorkerAt(w, "idle") /\ refreshQ[b][n] > 0
    /\ refreshQ' = [refreshQ EXCEPT ![b][n] = @ - 1]
    /\ IF Exists(b)
       THEN Take(w, "refresh_read", b, n)
       ELSE UNCHANGED worker
    /\ UNCHANGED <<store, parseQ, recordQ, invalidQ, web, used, served>>

\* The except block.  It is part of the step that fails: nothing else changes.
RefreshRetry(w) ==
    /\ IF worker[w].n < RefreshRetries
       THEN PublishRefresh(worker[w].pk, worker[w].n + 1) ELSE UNCHANGED refreshQ
    /\ TaskDone(w)

RefreshRead(w) ==
    LET f == worker[w].file IN
    /\ WorkerAt(w, "refresh_read")
    /\ \/ ReadFails(f) /\ RefreshRetry(w)
       \/ /\ ReadWorks(f) /\ UNCHANGED refreshQ
          /\ IF f \in Parses THEN WorkerGo(w, "refresh_set") ELSE TaskDone(w)
    /\ UNCHANGED <<store, parseQ, recordQ, invalidQ, web, served>>

RefreshSet(w) ==
    /\ WorkerAt(w, "refresh_set")
    /\ \/ CacheSet(worker[w].file) /\ TaskDone(w) /\ UNCHANGED <<refreshQ, used>>
       \/ CacheFails /\ RefreshRetry(w)
    /\ UNCHANGED <<rows, nextPk, s3, parseQ, recordQ, invalidQ, web, served>>

\* One UPDATE ... SET view_count = view_count + 1.
RecordView(w, b) ==
    /\ WorkerAt(w, "idle") /\ recordQ[b] > 0
    /\ recordQ' = [recordQ EXCEPT ![b] = @ - 1]
    /\ IF Exists(b)
       THEN rows' = [rows EXCEPT ![b].views = @ + 1] ELSE UNCHANGED rows
    /\ UNCHANGED <<nextPk, s3, cache, parseQ, refreshQ, invalidQ, web, worker, used, served>>

Invalidate(w, h) ==
    /\ WorkerAt(w, "idle") /\ invalidQ[h] > 0
    /\ invalidQ' = [invalidQ EXCEPT ![h] = @ - 1]
    /\ cache' = [cache EXCEPT ![h] = None]
    /\ UNCHANGED <<rows, nextPk, s3, parseQ, refreshQ, recordQ, web, worker, used, served>>

-----------------------------------------------------------------------------
(* Redis, and processes that die *)

\* Time passes: an entry's TTL falls below the refresh threshold.
Age(h) ==
    /\ cache[h] # None /\ ~cache[h].low
    /\ cache' = [cache EXCEPT ![h].low = TRUE]
    /\ UNCHANGED <<rows, nextPk, s3, queues, web, worker, used, served>>

\* The TTL runs out, or allkeys-lru evicts the entry.
Evict(h) ==
    /\ cache[h] # None
    /\ cache' = [cache EXCEPT ![h] = None]
    /\ UNCHANGED <<rows, nextPk, s3, queues, web, worker, used, served>>

\* CELERY_TASK_TIME_LIMIT kills the process that runs the task, or it dies in a
\* deployment or for lack of memory; its message is already acknowledged.  A
\* broker that refuses the retry has the same effect.
WorkerDies(w) ==
    /\ ~WorkerAt(w, "idle") /\ Spend("crash")
    /\ TaskDone(w)
    /\ UNCHANGED <<store, queues, web, served>>

\* A message is lost: the process that acknowledged it died before it did
\* anything, or Redis, which is the broker too, evicted it.  A refresh or an
\* invalidation that is lost is like one that waits for ever.
Lose ==
    /\ Spend("crash")
    /\ \/ /\ \E b \in Board, n \in 0 .. ParseRetries :
               parseQ[b][n] > 0 /\ parseQ' = [parseQ EXCEPT ![b][n] = @ - 1]
          /\ UNCHANGED recordQ
       \/ /\ \E b \in Board :
               recordQ[b] > 0 /\ recordQ' = [recordQ EXCEPT ![b] = @ - 1]
          /\ UNCHANGED parseQ
    /\ UNCHANGED <<store, refreshQ, invalidQ, web, worker, served>>

\* A thread dies, or the broker refuses the message it is about to publish.
WebDies(p) ==
    /\ ~WebAt(p, "idle") /\ Spend("crash")
    /\ Answer(p)
    /\ UNCHANGED <<store, queues, worker, served>>

-----------------------------------------------------------------------------

NewRequest(p) ==
    \/ \E f \in File : Upload(p, f)
    \/ \E b \in Board :
         \/ \E access \in Access : Patch(p, b, access)
         \/ Delete(p, b)
         \/ Reparse(p, b)
         \/ \E admin \in BOOLEAN : View(p, b, admin)

\* A thread goes on with the request it has.
WebStep(p) ==
    \/ UploadPut(p) \/ UploadCreate(p) \/ Publish(p)
    \/ PatchSave(p)
    \/ DeleteCache(p) \/ DeleteS3(p) \/ DeleteRow(p)
    \/ ReparseSave(p)
    \/ ViewGet(p) \/ ViewHit(p) \/ ViewRead(p) \/ ViewSet(p)

\* A worker takes a message, or goes on with the task it has.  The queue has no
\* order here: two processes start the tasks they prefetched in either order,
\* and retries wait for their countdown.
WorkerStep(w) ==
    \/ \E b \in Board : \/ \E n \in 0 .. ParseRetries : StartParse(w, b, n)
                        \/ \E n \in 0 .. RefreshRetries : StartRefresh(w, b, n)
                        \/ RecordView(w, b)
    \/ \E h \in Hash : Invalidate(w, h)
    \/ ParseRead(w) \/ ParseReject(w) \/ ParseCache(w) \/ ParseSucceed(w)
    \/ ParseFail(w) \/ ParseRetry(w)
    \/ RefreshRead(w) \/ RefreshSet(w)

Environment ==
    \/ \E h \in Hash : Age(h) \/ Evict(h)
    \/ \E w \in Worker : WorkerDies(w)
    \/ Lose
    \/ \E p \in Web : WebDies(p)

Next ==
    \/ \E p \in Web : NewRequest(p) \/ WebStep(p)
    \/ \E w \in Worker : WorkerStep(w)
    \/ Environment

Spec == Init /\ [][Next]_vars

\* Every thread and every worker process keeps running what it has to do.
FairSpec == /\ Spec
            /\ \A p \in Web : WF_vars(WebStep(p))
            /\ \A w \in Worker : WF_vars(WorkerStep(w))

-----------------------------------------------------------------------------
(* Properties *)

\* No two rows have the same content, although the duplicate check of an upload
\* and its INSERT are separate steps and a PATCH may insert a row again
\* (admin_panel/views.py:144, boards/models.py:90).
OneRowPerContent ==
    \A b, c \in Board :
        Exists(b) /\ Exists(c) /\ b # c => rows[b].file[1] # rows[c].file[1]

\* A board shown as parsed has its part, pin and net counts, whichever writers
\* race on the row (boards/models.py:159-171, admin_panel/views.py:211,245).
SuccessIsCounted ==
    \A b \in Board : Exists(b) /\ rows[b].status = "success" => rows[b].counted

\* What Redis holds under a content hash is a successful parse of that content,
\* whichever of the three fillers wrote it last (boards/tasks.py:70,148,
\* boards/views.py:211).
CacheIsOwnParse ==
    \A h \in Hash : cache[h] # None => cache[h].file \in Parses /\ cache[h].file[1] = h

\* Someone still owes board b the outcome of a parse: a message is queued, a
\* worker runs the task or is about to retry it, or a view is about to publish.
JobOpen(b, job) ==
    /\ job.pk = b
    /\ \/ job.pc \in {"read", "cache", "succeed", "reject", "fail"}
       \/ job.pc = "retry" /\ job.n < ParseRetries

Owed(b) ==
    \/ \E n \in 0 .. ParseRetries : parseQ[b][n] > 0
    \/ \E w \in Worker : JobOpen(b, worker[w])
    \/ \E p \in Web : WebAt(p, "publish") /\ web[p].pk = b

\* A board that tells its viewers to check back shortly (boards/views.py:150-159)
\* is owed an outcome: pending and parsing are never left behind by a race of
\* uploads, reparses, retries and deletions.
NoStranded ==
    \A b \in Board :
        Exists(b) /\ rows[b].status \in {"pending", "parsing"} => Owed(b)

\* Every 200 answer of the view endpoint is counted once, by view_count or by a
\* queued boards.record_view message, unless a death or the broker lost its
\* message; and nothing else is counted but a view answered 500 because Redis
\* failed, or the thread died, once it was recorded (boards/views.py:170-175,218,
\* tasks.py:98-107).
ViewsAccounted ==
    \A b \in Board : Exists(b) =>
        LET counted == rows[b].views + recordQ[b] IN
        /\ served[b] <= counted + used["crash"]
        /\ counted <= served[b] + used["fault"] + used["crash"]

\* A deleted board does not come back (admin_panel/views.py:214-231), although
\* tasks and views that loaded its row go on and save to it.
DeleteIsFinal ==
    [][\A b \in Board : b < nextPk /\ rows[b] = None => rows'[b] = None]_vars

\* A row has its raw bytes in S3 (boards/models.py:35), unless it is being deleted.
RowHasObject ==
    \A b \in Board :
        Exists(b) /\ ~(\E p \in Web : WebAt(p, "del_row") /\ web[p].pk = b)
            => rows[b].file \in s3

\* A board whose file can be parsed ends parsed, or deleted, for good: the
\* retries outlast the errors of S3 and Redis (boards/tasks.py:90-95), and no
\* task that is late undoes the outcome.
Recovers ==
    \A b \in Board :
        <>[](Exists(b) /\ rows[b].file \in Parses => rows[b].status = "success")
=============================================================================
