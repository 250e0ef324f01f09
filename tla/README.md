# webdisk in TLA+

A verification development kept beside the webdisk network disk: TLA+ models of
its components, TLC configurations that check them on small instances, and
theorems that TLAPS proves for every value of the constants. Paths below are
those of the repository (`src/`, `tests/`, `static/`, `sql/`).

    tlc -workers 2 -config race.cfg MCChunkUpload      # any of the .cfg files
    tlapm ChunkUploadProofs.tla

## 1. Inventory

webdisk exists in two builds that share their libraries: the *monolith*
(`src/main.cpp`, `src/handler/`) and the *services* (a gateway that speaks HTTP
and forwards to `file_service` and `user_service` by RPC). Both keep everything
that outlives a request in MySQL, in a directory tree and in RabbitMQ. Neither
has a lock of its own: a request runs on some RPC or HTTP thread, and its
statements interleave with those of every other request.

| Component | State | Operations | Meets |
|---|---|---|---|
| resumable upload (`file_service_impl.cpp:283-604`, `file_handler.cpp`) | `tbl_upload_session`, rows of `tbl_file`, `uploads/tmp/<id>/` | UploadInit, UploadChunk, UploadStatus, UploadComplete | object storage, message producer, MySQL |
| catalogue (`file_service_impl.cpp:22-282, 605-end`) | `tbl_file` | FileQuery, FileUpload, FileDelete, FileRename, FileDownload | object storage, producer, MySQL |
| object storage (`common/storage/`) | `uploads/<sha256>` | put, putFromFile, get; exists and remove are never called | upload, catalogue, worker |
| message producer and broker (`common/mq/`) | `backup.queue`, its dead-letter queue | publish; deliver, ack, reject | upload, catalogue, worker |
| backup worker (`backup_worker.cpp`) | `backup/<sha256>` | consume, copy, ack or reject | broker, object storage (reads) |
| accounts (`user_service/`, `common/util/auth.cpp`) | `tbl_user`, `tbl_user_token` | Signup, Signin, UserInfo, CheckToken, cleanup of tokens | every handler, before anything else |
| gateway (`gateway/`) and generated messages (`proto/*.pb.*`, `*.srpc.h`) | the calls under way | HTTP to RPC, defaults of parameters, RPC to JSON | both services |
| browser (`static/js/home.js`) | `localStorage` resume key, chunks to send; page, keyword and table of the list | init, status, send, complete, retry; load, search, turn the page | gateway |

How they interact, and what is hard about it:

* **Interleaving.** UploadChunk writes a file, counts files and then stores the
  count; UploadComplete checks a status long before it sets it; both find
  their files by path, and another request may rebind the path between two
  calls. UploadInit deletes other sessions of its user while they may be in use.
* **Partial failure.** Each SQL statement is its own transaction. A handler that
  throws leaves what it did before: a directory without a row, a row without a
  message, a registered file whose session is still open.
* **Crash.** `main()` repairs nothing. Chunk files are written in place.
* **Time.** `NOW()` is evaluated anew by each statement; sessions and tokens
  expire by it.
* **Delivery.** The worker acknowledges after copying, so a message may come
  twice; a rejected one goes to a queue that nothing reads.
* **Retry.** The browser resumes by a key of its own and does not learn that a
  complete whose answer was lost had succeeded.
* **Defaults.** In every answer 0 is success and 0 is also what an empty message
  holds, so a lost call looks like a success to a caller that does not check.
* **Order of answers.** The list is read page by page while it changes, and the
  answers to two requests for it may come in either order.

What makes each component correct:

* *Resumable upload*: a row names an object the storage has; a message names a
  row; a session is closed only after its file is registered; the counter never
  promises a chunk that is not there; what is stored under a hash has that
  hash; an upload is registered with the chunks that were sent, and a second time
  only by a complete that overlapped the first or came after the first had failed or was
  cut off before it closed the session; an upload never returns from a later phase to
  an earlier one.
* *Object storage*: a reader opens a complete object of the hash it asked for,
  and one that is damaged has an unfinished rewrite to blame.
* *Backup*: no message is lost or doubled, whatever stops; each is handled in the
  end; once all messages of a content are acknowledged its backup is whole.
* *Accounts*: whoever was told that a sign-up succeeded has that name; a token is
  accepted until it expires, never later, and not purged before.
* *Catalogue*: rename, delete and query act on the caller's rows only; what a
  reader of several pages misses or meets twice has a cause in the list.
* *Gateway*: the services see what the browser asked, and success is never made up.
* *Browser*: a user who keeps trying gets the file uploaded; what is registered is
  made of its own chunks; the table is that of the page it names.

`PROJECT.json` lists the hazards one by one, each at its line.

## 2. Modules

| Module | Contents |
|---|---|
| `ChunkUpload` | UploadInit, UploadChunk, UploadComplete and putFromFile; their properties; the bug variants the properties are tried on |
| `UploadLifecycle` | what the three handlers promise a client about one upload |
| `MCChunkUpload` | the symmetry sets for TLC |
| `ChunkUploadProofs` | types, and the order of UploadComplete's steps, proved |
| `LifecycleProofs` | `ChunkUpload` implements `UploadLifecycle`; received_chunks and the directory; which directories stay behind |
| `ContentProofs` | what merges read and what the storage holds |
| `FileStore` | FileUpload, FileDownload, FileDelete, FileRename over `tbl_file`, `put` and `get`; properties and bug variants |
| `BackupPipeline` | extends `FileStore` by the broker's queues and the loop of the backup worker |
| `BackupPromise` | what the backup promises of one upload and one content |
| `MCBackupPipeline` | its symmetry sets for TLC |
| `Accounts` | Signup, Signin, GetUserInfo, CheckToken over `tbl_user` and `tbl_user_token` |
| `MCAccounts` | two spellings of one name, and the symmetry sets |
| `AccountsProofs` | its theorems |
| `Messages` | the messages of the two services: fields, defaults, writing and reading |
| `GatewayRpc` | the gateway's twelve handlers, the calls, the token check by RPC, what the services answer |
| `MCGatewayRpc` | small sets of texts, numbers and blobs |
| `GatewayProofs` | reading undoes writing; the theorems about calls |
| `ResumableClient` | `uploadChunked` of `home.js` in several tabs, over the upload handlers |
| `ClientProofs` | its theorems |
| `MCResumableClient` | files that look alike, and the symmetry sets |
| `FileList` | FileQuery page by page, beside uploads, renames and deletes, and `loadFiles` of `home.js` |
| `MCFileList` | two names, one in two spellings, two keywords |
| `FileListProofs` | its theorems: a row's place, and what of it survives a change of the list |
| `BackupProofs` | the store (types, blame for damaged objects, what downloads read), the queue, the copies, and the theorems about the composed system |

### 2.1 ChunkUpload: how it corresponds to the code

*State.* `session`, `files` and `queue` are the table of sessions, the rows of
`tbl_file` that UploadComplete inserts, and the messages sent. The file system
has two levels. `dir`, `chunk`, `merged` and `object` are paths: the
directory of an upload, its chunk files, the file it is merged into, and the
storage directory. `content` belongs to inodes: the merged files and the
objects. The difference matters, since `std::rename` moves an inode while
another request's open stream still writes to it. `inits`, `puts` and `merges`
hold the local variables of each request's handler and its `pc`, the statement
it executes next.

*Actions.* One action is one SQL statement or one file-system call:

| Handler | Actions, in the order of the code |
|---|---|
| UploadInit | `SelectStale`, `RemoveStale` (each turn of the loop), `DeleteStale`, `MakeDir`, `InsertSession`; `InitFault`; `CleanupFault` in the monolith, whose cleanup has its own `try` |
| UploadChunk | `SelectForChunk`, `OpenChunk`, `WriteChunk`, `ScanChunks`, `UpdateReceived`; `ChunkFault` |
| UploadComplete | `SelectForMerge`, `OpenMerged`, `MergeChunk` (each turn), `MoveMerged` or `MergedGone` or `OpenObject` and `CopyObject` or `CopyFault`, `RegisterFile`, `PublishFile`, `MarkDone`, `RemoveTmp`; `MergeFault` |
| environment | `Tick` (the database's clock), `Crash` (the process is restarted) |

`InitFault`, `ChunkFault`, `MergeFault` and `CopyFault` are the error returns: an
SQL exception, a `mkdir` or an `open` that fails. What the code does not look at
(the status of `std::system("rm -rf ...")`, a chunk's write, the answer of
`publish`) is an alternative within its action, under `SilentFaults`.
`CopyObject` may also lose what `dst` has buffered, since `dst.good()` is asked before
`dst.close()`: then the object is short and the copy counts as good, under
`SilentFaults`; `CopyFault` is the copy that `dst.good()` tells, at any length.
UploadStatus only reads and is no action. The token check precedes every change,
and a request that it, or a parameter check, refuses is a stuttering step.

*The monolith.* `handler/file_handler.cpp` has copies of the three handlers, with the
same statements in the same order, but for the cleanup's `try`. The steps are mapped to
the file service's lines and `UploadInit`, `UploadChunk` and `UploadComplete`, which
put them together, to the monolith's.

*Abstractions.*

* A chunk's content is one *piece*, its index and the version the client sent;
  offsets count pieces. An opened and not yet written chunk file is `Torn`, and
  reads as empty. A read of a chunk while it is being written returns the old
  state, `Torn` or the new piece; a part of a chunk is not told from `Torn`.
* `Sha256` is injective. `random_hex(32)` never repeats an id.
* The scan of the chunk files and `rm -rf` of one directory are single steps.
  Chunk files appear one by one and disappear together, so the count the scan
  returns is the count of some moment within it.
* The merge loop writes each chunk through to the file. The code writes through
  a stream buffer, which blocks of 64 KB pass directly.
* The ids of rows and messages are the request's own, so two requests never
  insert the same row.
* A crash is one of the process: what was written survives. An answer lost on its
  way, and a statement that commits and then reports an error, are not modelled.

*Bounds.* A request is a ticket of the pools `Inits`, `Chunks` and `Merges`; a
retry or a duplicate is another ticket. `MaxNow` bounds the clock and
`MaxCrashes` the restarts. Deadlock is not checked: a server that has answered
all its tickets stops in the model and is idle in reality.

*Fairness.* None. All properties of `ChunkUpload` are safety properties, and the
code has no retry or background task that could be fair. The browser, which has
retries, is in `ResumableClient`, with its liveness.

### 2.2 UploadLifecycle

What a client may rely on. An id is `none`, then `open`, then `done` or
`expired`, and `done` may expire no more (the cleanup deletes sessions with
status 0 only). A file is registered at a time the id was given out, and `done`
needs a registered file. `ImplementsLifecycle` is the refinement: phase and
registration are computed from the tables and from what UploadInit answered. An
`expired` upload may still become registered: a complete that passed its check
before the purge finishes.

### 2.3 FileStore: how it corresponds to the code

*State.* `object` is the storage directory, block by block, because `put` rewrites
an object in place and `get` and the worker read it in pieces: a block is `Good`
or, if a later write left a gap before it, `Zero`. `files` holds the rows of
`tbl_file` that FileUpload inserts, with `live` for `status = 0`. `uploads` and
`downloads` are the handlers' locals and their `pc`.

| Handler | Actions, in the order of the code |
|---|---|
| FileUpload | `BeginPut` (hash, then put's `std::ofstream`, which truncates), `PutBlock` (each block of the write), `InsertRow`, `Publish`; `UploadFault`; `PutUnflushed` |
| FileDownload | `SelectForDownload` or `SelectThrows`, `OpenForRead`, `ReadBlock` (a block, or the end of the file) |
| FileDelete, FileRename | `Delete`, `Rename`: one UPDATE each |
| environment | `Crash` (the file service is restarted) |

`put` checks `good()` before the stream's destructor flushes what it buffered, so
a small content may be lost unseen: `PutUnflushed`, under `SilentFaults`.
`SelectThrows` goes on to `OpenForRead` because the handler's catch block does not
return (`file_service_impl.cpp:705-708`). The monolith's fileDownload returns
there and has no such step.

*Abstractions.* All contents have `Blocks` blocks. Every upload row has an
AUTO_INCREMENT id, for which its ticket stands. A reader that reaches the end of
the file as it is then takes that for the end of the content, as
`istreambuf_iterator` does. Rows of the resumable uploads, and `putFromFile`
meeting `put` on one key, are not in this module.

### 2.4 BackupPipeline: how it corresponds to the code

*State.* `queue` is `backup.queue`, `dlq` its dead-letter queue, `acked` the
messages acknowledged. `backup` is the directory the worker copies to, by blocks.
`worker` is the loop's `pc` and the message it holds.

*Actions.* `Start` (declare and poll), `Get` (`BasicGet` without auto-ack),
`Discard` (what does not parse is acknowledged), `OpenCopy` (source opened,
destination truncated), `CopyBlock`, `EndCopy` (the two streams' states decide),
`CopyFault`, `Ack`, `Reject` (without requeue, so the broker moves it to `dlq`),
`Stop` (killed, disconnected or signalled, at any of these points), and
`PublishJunk` for foreign messages. The store's actions run beside them.

*Abstractions.* The broker is external and modelled from the arguments the code
gives it: durable queues, persistent messages, first in first out, an
unacknowledged message back at the head when its consumer is gone. One worker
runs. A message is named by the upload that published it, and a worker that has
it knows the content's hash from it; that an upload's hash never changes makes
`Hash`, read from the upload, the same. `SilentFaults` also lets the last block
of a copy get lost in the destructor's flush, and a publish fail unseen.

*BackupPromise.* What is left without blocks, handlers, the broker and the worker: the
content of each upload, the state of its message (none, sent, acknowledged, dead)
and the set of contents whose backup is whole. `Contents`, `MessageStates` and
`WholeBackups` compute them from the pipeline's state, and `KeepsPromise` is the
refinement. `Copy` may leave a backup whole or spoil it, but needs a message that is
out; `Acknowledge` of the last message of a content needs the backup whole, unless
errors go unseen (`Lossy`).

*Bounds.* `MaxStops` bounds the worker's stops, `MaxCrashes` the service's; the
uploads and downloads are tickets, as in `ChunkUpload`. Deadlock is not checked,
for the same reason.

*Fairness.* `FairSpec` has weak fairness of the worker's steps (`WorkerStep`) and of
each upload that is under way (`UploadStep`). The first is the worker's `while`
loop, which sleeps and polls again on an empty queue; each of its steps is
enabled until it is taken. The second is the thread that runs the handler. Clients are not
obliged to call, faults are not obliged to stay away, and nothing restarts a
worker that is down: so `EveryMessageIsHandled` assumes that it is up in the end.

### 2.5 Accounts: how it corresponds to the code

*State.* `users` and `tokens` are the two tables; a row is named by the ticket that
inserted it, which stands for its AUTO_INCREMENT id. `signups`, `signins` and
`checks` are the handlers' locals.

| Handler | Actions, in the order of the code |
|---|---|
| Signup | `SelectName`, `InsertUser` (the UNIQUE key decides); `SignupFault` |
| Signin | `SelectUser` (and the comparison of the hash), `PurgeTokens`, `InsertToken`; `SigninFault` |
| CheckToken, GetUserInfo | `CheckToken` (the JOIN), `ShowUser`; `CheckThrows` |
| environment | `Tick`, `Crash` |

`CheckThrows` is the statement of `auth::checkToken`, which no `try` surrounds in
`CheckToken` and `GetUserInfo`: the exception leaves the handler, and whether the
process survives that is the framework's, so both happen.

*Abstractions.* Names compare by `Collation`, as MySQL's default collation makes
them: that `Anna` and `ANNA` are one name is decided by the table and not by the
code. `sha256_hex` is injective and `random_hex` never repeats. `PurgeTokens` and
`InsertToken` evaluate `NOW()` each for itself. A client presents tokens it was
given, its own or another's; guessed ones match nothing. `expired_at` is
`NOW() + INTERVAL 1 DAY`, which the handler writes into the statement; `TTL`
stands for it.

### 2.6 Messages and GatewayRpc: how they correspond to the code

*Messages.* For each message the set of its objects and the sequence of its fields,
in the order of their numbers. `Serialize` and `Parse` are the generated code run
over such a sequence: a field that holds its default is not written, a string
that is not UTF-8 is refused by the reader, a repeated field keeps its order. A
wire is a function from field numbers to values. Varints, tags, lengths and
unknown fields are left out: both sides are built from the same files.

*GatewayRpc.* One call is followed from the browser to its answer.

| Code | Actions |
|---|---|
| `gateway_handler.cpp`: a handler up to its call | `signup`, `signin`, `info`, `fileQuery`, `fileUpload`, `uploadInit`, `uploadChunk`, `uploadComplete`, `uploadStatus`, `fileDownload`, `fileDelete`, `fileRename`, each by `Send` or `Decline` |
| the dispatcher of a service (`*.srpc.h`) | `Dispatch` |
| `UserClient::checkToken` and the return on it | `CheckToken` |
| the rest of the service's handler, and its return | `Work`, `Answer` |
| the gateway's callback | `Receive`, `RpcFailed` |
| environment | `Crash` of either service |

*Abstractions.* What a handler does is in the other modules; here `Work` picks one
of the answers the handler can give, field by field, from the request it sees. A
number in a parameter is a text of `Digits`, and `Value` says what `stoi` makes of
it. What a download names by its MIME type is left out. srpc does not send a call
again; `RpcFailed` is a call that was lost, refused, unreadable or too late, and a
service that has such a call goes on with it.

*Bounds.* One call: calls share nothing in the gateway. Texts are the empty one, one
in UTF-8, one that is not; of the numbers some fit 32 bits, one fits 64 only, one fits
neither, and one text is no number.

### 2.7 ResumableClient: how it corresponds to the code

*State.* `tabs` holds the locals of `uploadChunked` in each tab: which file, which
upload id, which chunks are still to be sent. `stored` is `localStorage`, by the
resume key made of name and size. `session`, `part` and `rows` are what the service
keeps, `handlers` the threads that serve the requests, each for the tab that
waits. `disturbed` is a history variable: the chunks that
a cut-off request, or a second hand at the same upload, may have left empty.

*Actions.* `Click` (a button: continue or begin), `fetchReceivedChunks`, `Begun`,
`ChunkAnswered`, `Completed` (each with the request that follows), `GiveUp` (the
answer is lost or late; the handler runs on, with no one to hear it).
`UploadStatus`, `UploadInit`, `OpenChunk`, `SaveChunk`, `UpdateCount`, `MergeChunks`,
`RegisterFile`, `MarkDone` are the handlers in the steps that a resumed upload can
tell apart; `ChunkUpload` has them statement by statement. `Throw`, `Crash` and `Age`
(24 hours pass) are the faults, `MaxFaults` in all together with `GiveUp`. A `Crash`
fails every tab that waits, but for one that waits for the list of its chunks:
`fetchReceivedChunks` catches the error and goes on with an empty list.

*Abstractions.* All tabs are one user's and all files have `Chunks` chunks. A tab
uploads one file: after a failure it tries the same one again, after a success it
stops. A chunk's
bytes are the file and the index they come from, so a mixture of two files shows.
The file a session is told is the `file_name` and `total_size` of its row.
`MergeChunks` is the check, the loop and the storage's `putFromFile` in one step:
what happens between them is the subject of `ChunkUpload`.

*Fairness.* `FairSpec` has weak fairness of each thread's `Serve` (handlers run) and
`Hear` (an answer that has come is heard, since `fetch` resolves), and of each tab's
`Clicks`: the user presses the button again until the upload works. This last one
is not the code's, it is the "next try" that the code's comments speak of, and without it
nothing follows. Faults are bounded, so they end; `GiveUp` is not fair.

*Bounds.* Deadlock is not checked: a tab that is done stops.

### 2.8 FileList: how it corresponds to the code

*State.* `rows` is `tbl_file` for one user; `page` and `keyword` are the globals of
`home.js`, `loads` the calls of `loadFiles` that await their answers, `shown` the
buttons and what the table stands for. `walk` is a history variable: what a reader
has seen who has read from page 1 on without a break.

| Code | Actions |
|---|---|
| FileQuery | `FileQuery` |
| FileUpload, FileDelete, FileRename (their statement on `tbl_file`) | the same names |
| `loadFiles` up to its `await` | `Refresh` (the button, and after a delete, a rename or an upload), `Search`, `Prev`, `NextPage`, each by `Start` |
| `loadFiles` after it | `Show`, `ShowError`, `Lost` |

*Abstractions.* `created_at` has the resolution of a second, as its column has, and
rows of the same second come in any order, a new one for each query. `LIKE` is
`NamesLike`. The browser always sends limit and offset, so their defaults do not
occur here. A user of another tab may send any name, so deletes and renames are not
tied to the table shown. Names compare by `Collation`, as MySQL's default collation
makes them: a delete or a rename hits every spelling of the name it gives. The
token check that precedes the query changes nothing.

*Bounds.* `PageSize`, which is 10 in `home.js`, is 1: a page is full with one row, so two
rows make two full pages, and one row a full page and an empty one, which ends a
reader's walk. `MaxPage` is 2; a walk over two rows to an empty third page is left to
the theorem, which has no bound on pages. `MaxLoads` is 2, the fewest at which
answers come in the wrong order.

## 3. What the runs show

| Run | Instance | Properties |
|---|---|---|
| `race` | one upload of 1 or 2 chunks, 3 chunk requests, 2 completes, one restart, reported errors; 877 000 states | `TypeOK`, `CountIsBacked`, `MergeFindsChunks`, `ReadsInOrder`, `TornIsInFlight`, `CorruptionNeedsRacingCompletes`, `RegisteredAgainHasCause` |
| `cleanup` | three sessions of one user, one chunk request, one complete, the clock running past the TTL, one restart, reported errors, the monolith's cleanup; 37 500 states | `DoneSessionsHaveRows`, `MergeFindsChunks`, `OrphansHaveCause`, `ImplementsLifecycle` |
| `copy` | two uploads of the same content, two completes, one chunk request, putFromFile copying, one tick of the clock, one restart, reported and silent errors; 151 000 states | `RowsHaveObjects`, `MessagesHaveRows`, `ImplementsLifecycle` |
| `pipeline` | two FileUploads of one content of two blocks, a download, renames and deletes over two names, the worker; reported errors, one restart of the service and one stop of the worker; 902 000 states | `TypeOK`, `DamageIsUnfinishedPut`, `ShortAnswerNeedsRewrite`, `AckedMeansBackedUp`, `KeepsPromise` |
| `delivery` | the same two uploads without the download, one message that does not parse, reported and silent errors; under `FairSpec`; 164 000 states | `MessagesAreAccountedFor`, `EveryMessageIsHandled` |
| `accounts` | two sign-ups and two sign-ins over three spellings of two names, one check, errors, one restart, the clock past the token's day; 889 000 states | `TypeOK`, `ActsAsOwner`, `TokensLast`, `OldTokensGone`, `SignupStands` |
| `gateway` | any of the twelve requests, with good and bad parameters, failing anywhere on its way; 157 000 states | `TypeOK`, `OkMeansDone`, `SeenAsAsked`, `OnlyTokenHolders`, `AnswersAreReadable` |
| `resume` | two tabs, three files of which two look alike, two threads, one fault of any kind; 584 000 states | `TypeOK`, `RowsAreAccountedFor`, `DoneMeansRegistered` |
| `resume_live` | one tab, one file, two threads, two faults; under `FairSpec`; 78 000 states | `RowsAreAccountedFor`, `UploadedOrStuck` |
| `list` | two rows over three names of which two are spellings of one, two keywords, two calls of `loadFiles` at once, two pages of one row; 748 000 states | `TypeOK`, `PagingMeetsEachRowOnce`, `LastCallIsShown`, `TwinsStayTogether` |

* **CountIsBacked**: `received_chunks` is written from a scan that may be old, so it
  can be too low. It is never too high while the directory is there.
* **MergeFindsChunks**: so the check of UploadComplete is enough for its loop.
  "missing chunk" comes only from a directory removed meanwhile.
* **ReadsInOrder**, **TornIsInFlight**: chunks may be replaced under a merge, but
  never swapped or repeated, and an empty one betrays a request in flight, a
  restart or a disk error.
* **CorruptionNeedsRacingCompletes**: an object differs from its hash only when
  two completes of one upload shared the merged file. A single complete never
  corrupts an object, whatever else runs, fails or restarts.
* **RegisteredAgainHasCause**: a complete that finds the session open although the upload
  is registered meets the other complete between its INSERT and its UPDATE, or comes
  after that one failed or was cut off there. No chunk request, cleanup or later
  complete reopens an upload whose session was closed.
* **RowsHaveObjects**, **MessagesHaveRows**, **DoneSessionsHaveRows**: the order in
  which UploadComplete stores, registers, publishes and closes survives every
  race and failure.
* **ImplementsLifecycle**: no interleaving reopens a closed or purged upload, nor
  registers one that was never begun.
* **OrphansHaveCause**: a directory under `uploads/tmp` that no cleanup will ever find
  comes from an init that failed or was cut off before its INSERT, from a complete
  cut off before its `rm`, or from a cleanup whose DELETE hit a session that its
  SELECT had not found. There is no other leak as long as every `rm` that runs does
  its work, which the run and the theorem assume (`SilentFaults` is `FALSE`); the status
  of `rm` is not looked at, so one that fails leaves its directory too.

* **DamageIsUnfinishedPut**: uploads of one content truncate and rewrite its object
  under each other without a lock. When all of them got through their put the
  object is whole again, whatever the order: what is damaged is the work of a put
  under way, failed or cut off.
* **ShortAnswerNeedsRewrite**: a download that found its row and got less than the
  content met a second upload of it. The one that made the row is never enough.
* **AckedMeansBackedUp**: the worker may copy an object while it is rewritten, and
  acknowledge. Once the messages of all uploads of the content are acknowledged
  the backup is whole: the upload that rewrote it has a message of its own, later.
* **KeepsPromise**: the same said of steps, as a refinement of `BackupPromise`. No restart
  and no redelivery reopens a message that is settled, sends one twice, or touches a
  backup once the messages of its content are settled.
* **MessagesAreAccountedFor**, **EveryMessageIsHandled**: a published message is in
  exactly one place, through every stop, and does not stay in the queue.

* **SignupStands**: of sign-ups that race past their SELECT, only the UNIQUE key
  decides; one is told success, and no later sign-in with that name, in whatever
  spelling, and that password is refused.
* **ActsAsOwner**, **TokensLast**, **OldTokensGone**: the check accepts
  `expired_at > NOW()` and the purge deletes `expired_at < NOW()`, at different
  moments, beside each other; no token is accepted for somebody else or too long,
  none is purged too early, and none is left behind by a purge.

* **OkMeansDone**, **OnlyTokenHolders**: no lost, late or unreadable answer is taken for
  a success, although an answer that never came says code 0.
* **SeenAsAsked**: what is not written because it is empty or 0 is read as it was; a
  number that cannot be read becomes the default, but not for a chunk's index.
* **AnswersAreReadable**: texts that come from a request have passed the request's own
  parser, so the answers that repeat them pass the gateway's.

* **RowsAreAccountedFor**: whatever tabs, retries, restarts and late handlers do, each
  chunk of a registered file is in its place and of a file with the same name and
  size. An empty one had its request cut off, or was sent again under a merge.
* **DoneMeansRegistered**: "success" in the browser is a row in the list.
* **UploadedOrStuck**: the upload ends in success after finitely many faults, or from
  some moment on, for ever, the id that the browser remembers is of an active session
  with every chunk on disk and a count that is too low (see `resume_stuck` below). That
  an upload is so for a moment, between its last chunk's file and its count, is
  not enough.

* **PagingMeetsEachRowOnce**: a row met twice, or missed by who reads to the end,
  was pushed by one that came or went at the same place or before it, or has a
  row of the same second beside it.
* **LastCallIsShown**: every caller of `loadFiles` asks for the page and keyword it has
  set. The table is that of the page it names once the last call has been answered and no
  earlier one comes after it; the tables that an earlier answer has overwritten are
  excluded, and do show an old list under a new number.
* **TwinsStayTogether**: rows of one name and hash cannot be told apart by any request.

Why the bounds are enough to be interesting. Two chunks are the fewest at which
order, partial presence and a stale count exist; three chunk requests give each
chunk and a retry of one of them; two completes are the fewest that race. Three
inits are needed for a purge that meets an upload in progress while a third
session is purged or begun, and two hours suffice for a session to become stale
between two statements. The larger instances that were tried by hand, three
completes (3.4 million states) and two completes in `cleanup` (0.5 million),
showed nothing new. For the store, two uploads of one content are the fewest that
rewrite each other's object, and two blocks the fewest at which it can be half
written, or `Zero` before `Good`; one stop lets a message be delivered twice. The
properties of different contents and different users do not meet, except in
`tbl_file`, whose statements name user, name and hash. Two sign-ups race, and the
second sign-in purges what the first inserted; two ticks are a token's life and
the moment after it. Two files that look alike and one of another size are the fewest that
confuse the resume key or do not; two threads let a request that was given up
run beside its retry. One fault is
enough for a count that stays too low, as `resume_stuck` shows: a chunk request that ends
between its file and its UPDATE, or one that was given up and whose UPDATE comes after a
later one's. In `resume_live` a second fault meets the retry after the first, and four
ids suffice for every session that two faults can cost. `copy` has one chunk and
one version, since what it asks is which paths and rows exist, and the copy of an object
is cut at any length.

Each property is also tried on a plausible bug in one action (`"mutants"` in
`PROJECT.json`, defined beside the action they change), under the same
configuration, and fails there.

### Disagreements

Two runs end in a counterexample to what a comment of the repository says.

| Run | What is violated | The schedule |
|---|---|---|
| `download_row` | `AnswersComeFromRows`: a download is of a file the caller has | the SELECT throws; the handler goes on, reads the object, and answers code 0 |
| `resume_stuck` | `RetriesSucceed`: after any error the local record is cleared and the next try begins anew (`home.js:313`) | a chunk request writes its file and not its count, or is given up and writes an old count late; every chunk is there, so none is sent again, and each complete is refused |

The passing runs' properties name the code's other known weak places as their
exceptions, and so say that there are no more of them:
`CorruptionNeedsRacingCompletes` (two completes of one upload share the merged
file), `TornIsInFlight` and `RowsAreAccountedFor` (a chunk sent again while it is
merged), `CountIsBacked` (the older of two scans is written last, so the count is
too low), `RegisteredAgainHasCause` (a file registered twice), `OrphansHaveCause`
(directories without a session) and
`DamageIsUnfinishedPut` (a put cut off leaves a registered object damaged).

## 4. What is proved

From the constants' assumptions in `ChunkUpload`, `FileStore`, `BackupPipeline`,
`Accounts`, `Messages`, `GatewayRpc`, `ResumableClient` and `FileList` and nothing
else: any sets of requests, users, ids, contents and versions, any `MaxChunks > 0` and
`Blocks > 0`, any collation, any number of calls, any sets of texts and integers,
any tabs, files and threads, any number of lost answers, errors, restarts and
expiries, any page size, keywords and number of rows, with or without rename and the
monolith's cleanup. The runs came first, on the properties and on the strengthenings.

| Theorem | Module | States |
|---|---|---|
| `TypeCorrect` | `ChunkUploadProofs` | `Spec => []TypeOK` |
| `RowsAlwaysHaveObjects` | `ChunkUploadProofs` | `Spec => []RowsHaveObjects` |
| `MessagesAlwaysHaveRows` | `ChunkUploadProofs` | `Spec => []MessagesHaveRows` |
| `DoneSessionsAlwaysHaveRows` | `ChunkUploadProofs` | `Spec => []DoneSessionsHaveRows` |
| `LifecycleImplemented` | `LifecycleProofs` | `Spec => ImplementsLifecycle` |
| `CountAlwaysBacked` | `LifecycleProofs` | `Spec => []CountIsBacked` |
| `MergeAlwaysFindsChunks` | `LifecycleProofs` | `Spec => []MergeFindsChunks` |
| `OrphansAlwaysHaveCause` | `LifecycleProofs` | `Spec => []OrphansHaveCause` |
| `SecondRegistrationHasCause` | `LifecycleProofs` | `Spec => RegisteredAgainHasCause` |
| `ReadsAlwaysInOrder` | `ContentProofs` | `Spec => []ReadsInOrder` |
| `TornAlwaysInFlight` | `ContentProofs` | `Spec => []TornIsInFlight` |
| `CorruptionAlwaysRaced` | `ContentProofs` | `Spec => []CorruptionNeedsRacingCompletes` |
| `PipelineTypeCorrect` | `BackupProofs` | `Spec => []TypeOK` (of `BackupPipeline`, as all that follow) |
| `NoMessageIsLost` | `BackupProofs` | `Spec => []MessagesAreAccountedFor` |
| `DamageHasItsPut` | `BackupProofs` | `Spec => []DamageIsUnfinishedPut` |
| `ShortAnswerHasRewrite` | `BackupProofs` | `Spec => []ShortAnswerNeedsRewrite` |
| `BackupsAreWhole` | `BackupProofs` | `Spec => []AckedMeansBackedUp` |
| `PipelineKeepsPromise` | `BackupProofs` | `Spec => KeepsPromise` |
| `AccountsTypeCorrect` | `AccountsProofs` | `Spec => []TypeOK` |
| `SignupsStand` | `AccountsProofs` | `Spec => SignupStands` |
| `TokensDoLast` | `AccountsProofs` | `Spec => []TokensLast` |
| `OldTokensAreGone` | `AccountsProofs` | `Spec => []OldTokensGone` |
| `HandlersActAsOwner` | `AccountsProofs` | `Spec => []ActsAsOwner` |
| `RoundTrip` | `GatewayProofs` | for each message `m`, `MessageOf(fields, Wire(fields, m)) = m` |
| `GatewayTypeCorrect` | `GatewayProofs` | `Spec => []TypeOK` |
| `OkAnswersAreDone` | `GatewayProofs` | `Spec => []OkMeansDone` |
| `RequestsAreSeenAsAsked` | `GatewayProofs` | `Spec => []SeenAsAsked` |
| `HoldersOnly` | `GatewayProofs` | `Spec => []OnlyTokenHolders` |
| `AnswersCanBeRead` | `GatewayProofs` | `Spec => []AnswersAreReadable` |
| `ClientTypeCorrect` | `ClientProofs` | `Spec => []TypeOK` |
| `DoneIsRegistered` | `ClientProofs` | `Spec => []DoneMeansRegistered` |
| `RowsAccounted` | `ClientProofs` | `Spec => []RowsAreAccountedFor` |
| `ListTypeCorrect` | `FileListProofs` | `Spec => []TypeOK` |
| `ListShowsLastCall` | `FileListProofs` | `Spec => []LastCallIsShown` |
| `PagingIsComplete` | `FileListProofs` | `Spec => []PagingMeetsEachRowOnce` |
| `TwinsAlwaysStayTogether` | `FileListProofs` | `Spec => TwinsStayTogether` |

* **Types.** `TypeOK` is inductive as it stands, because it says which locals are
  set at which statement (`InitLocals`, `PutLocals`, `MergeLocals`): a merge in
  its loop has `next < total`, for instance, without which `chunk[id][next]`
  would have no type. One lemma for each action.
* **Order** (`SafeInv`). That a row names a stored key does not follow from the
  tables: `RegisterFile` adds a row, and nothing in them says its object was
  stored. `InOrder` speaks of requests half way through: one about to register has
  its key stored, one about to publish or mark has its row. It is kept because
  keys and rows are never removed (`Bind` replaces an inode, not a key), and
  `read`, from which the key is computed, changes in the loop only.
* **Life cycle** (`IdInv`). Ids are fresh: no two inits have one id, and a session
  or a merge with an id got it from an init that was answered. So `InsertSession`
  meets an id in phase `none`, and `DeleteStale` leaves `expired` and not `none`
  behind. With `SafeInv`, `MarkDone` finds the id registered. Each step is one of
  `UploadLifecycle`'s or a stutter.
* **Counts** (`CountInv`). A count about to be written is covered by the files on
  disk (`ScansBacked`); chunk files lie below the session's total
  (`ChunksInRange`), because a request at work has the total of its session
  (`TotalsAgree`); and an id not given out has neither files nor requests
  (`NoChunksBefore`, `PutsBegun`), so making its directory brings no old count
  back to life. A merge passes the check with `total` chunks counted, all below
  `total`: they are all of them, by cardinality.
* **Directories left behind** (`OrphanInv`). Every directory and every session has its
  UploadInit (`DirsOwned`, `SessionsOwned`), and each cleanup that is under way has
  selected a session whose directory is gone or still on its list (`CleanupsSelect`).
  A session that turns inactive under its directory was hit by a merge's last UPDATE
  or by a DELETE. In the second case, if no rm failed silently, the cleanup that
  sent the DELETE has missed this session and selected another, which is the
  other UploadInit the property asks for.
* **Files registered again** (`RegisterInv`). The property is about one step, a complete
  that passes its SELECT, so it needs an invariant about what is there before: each row
  belongs to a complete that is past its INSERT and has the row's upload
  (`RowsByCompletes`), and the session of a complete that is past its UPDATE is closed or
  gone (`MarkedInactive`). The latter stays so because an id's session is inserted once.
  A complete that passes its SELECT has found the session open, so whoever registered the
  row is not past its UPDATE: it is before it, failed or was cut off.
* **Content** (`ReadInv`, `TornInv`, `OwnInv`). For the last theorem, a merged file
  has an owner, the complete that created it. While no other complete has its
  upload, the file holds what the owner has read and is stored under the hash of
  that. Whoever else writes to it, or renames it, has the owner's upload.
* **Store and pipeline** (`TypeInv`). Each step of `BackupPipeline` is a step of the
  store or leaves `object`, `files` and the handlers alone, so the lemmas about
  the store carry over. The types need that what was begun has an object
  (`ObjectsKept`) and that what the worker holds was published (`PublishedInv`).
* **Damage** (`DamageInv`). The property does not follow from itself: it must be
  said block by block. If block `j` of an object is missing or not good, an upload
  of that content has not passed `j` yet. Truncating makes every block missing and
  the truncating upload, at offset 0, responsible for all of them; writing a block
  makes it good and moves only its writer past it.
* **Downloads** (`ReadInv`). Whoever has a row has passed its own put (`RowsDone`).
  So the upload responsible for a block that a download misses is another one,
  and its hash stays what it is.
* **Messages** (`OnceInv`, `PlacesInv`). A message is once in the queue, or in the
  worker's hands, or acknowledged, or dead. The count of the property follows,
  since the queues have no doubles.
* **Backups** (`CopyInv`). While the worker copies, a block of the backup is good or
  the content has another upload whose message is not acknowledged (`Pending`).
  A block that it copies and that is not good has, by `DamageInv`, an upload in
  the middle of its put; that upload has not published, so it is neither the one
  at hand nor acknowledged. An acknowledgement pays the last such debt only when
  the copy it follows was whole.
* **Promise.** Each step of the pipeline is one of `BackupPromise`'s or a stutter, by the
  invariants above: what the worker holds was published and is neither acknowledged
  nor dead (`HandIsSent`), so its copy and its answer are steps about a message that
  is out; an upload that publishes has no message yet; and the last acknowledgement
  is good because `AckedMeansBackedUp` holds after it.

* **Accounts.** `OneRowPerName` (the UNIQUE key) and `SignupInv` (a sign-up that was
  told success has its row, with its name and password) give `SignupStands`: the row
  that a sign-in reads is the only one of that name. `OwnerInv` says that a sign-in
  past its SELECT has the password of the row it read; rows of `tbl_user` never
  change, so it stays true. `TokenInv` ties a token's row to its sign-in;
  `PurgedInv` bounds what a purge left by the clock, which only grows: a token
  inserted later expires later than the purge.
* **Messages.** `RoundTrip` follows from three facts of each list of fields (its names are
  distinct, its objects have these names, its items are objects too), shown for each
  message in turn, and one observation: a field that is not on the wire held its
  default.
* **Calls.** `IInv` describes each call by itself: what is on the wire is the wire of
  what was sent, what the handler sees is what was sent, and the answer is one of
  the method's class with readable texts. It refers to one call only, so a step of
  one call cannot disturb another's.

* **Client** (`LocalsInv`). A thread that has a tab is the only one that has it, the tab
  waits, and both name the same file and upload; every upload id that a tab, a thread
  or `localStorage` holds is of a session, and a session's row keeps its file.
* **Keys** (`KeyInv`). By that, all that belongs to one id (tabs, requests, the key it is
  stored under, the bytes of its chunks) is of files with the session's resume key,
  and a complete that is past its INSERT has its row. `DoneMeansRegistered` follows.
* **Torn chunks** (`HandsInv`). Somebody answers for each torn chunk: a thread with a tab
  is about to write it, or it is counted as disturbed (`TornInv`). A merge meets the
  first only from another tab, since its own waits for the merge; two tabs with one
  upload have all its chunks disturbed (`SharedInv`); and a merge without a tab was
  given up (`GivenUpInv`). That ids are fresh until their tab has heard of them
  (`FreshInv`) keeps two tabs from having one upload unnoticed.

* **Lists** (`ListInv`). A row's place is the number of listed rows at least as new. In
  an ordered list a row that is alone in its second stands at its place, a counting
  argument (`OrderIsPlace`), so page `p` holds the rows with places above
  `(p - 1) * PageSize` and up to `p * PageSize` (`PageOfPlaces`). The property speaks of
  the end of a walk and is far from inductive. The invariant says of every answer that
  waits to be shown, and of every walk under way, that it holds just the rows whose
  places are its own, of those that no change has moved. A change moves the place of
  a row only if a row at least as new comes or goes, and then the row is no longer
  among those spoken of (`PlaceStays`); a row that is new and listed is never among
  them. Two adjoining walks make one (`WithinJoins`).

What stays with TLC: `EveryMessageIsHandled` and `UploadedOrStuck`, which are
liveness properties under fairness, and the two disagreements, which are
counterexamples.

## 5. Plan

In this order; each with an MC module where it needs symmetry.

1. `ChunkUpload`, its runs and theorems: done.
2. `FileStore`, for FileUpload, FileDownload, FileDelete and FileRename: done.
   Left of it: `putFromFile` and `put` on one key, whose rename takes the object
   from under an open stream.
3. `BackupPipeline`, its runs and theorems, and `BackupPromise`, which it implements:
   done. Left of it: resumable uploads as publishers.
4. `Accounts`, its run and theorems: done.
5. `Messages` and `GatewayRpc`, their run and theorems: done.
6. `ResumableClient`, its runs and theorems: done. Left of it: the refinement that ties
   its coarser handlers to `ChunkUpload`.
7. `FileList`, its run and theorems: done.
8. `OrphansHaveCause` as a theorem: done.

## 6. Not modelled

* The RPC framework's and the HTTP server's own code: HTTP parsing, timeouts, threads,
  memory limits. What they do to a call is a choice in `GatewayRpc`.
* Of the generated files: varints, sizes, arenas, descriptors, reflection, `Merge` and
  `Swap`, and the asynchronous clients and those of other protocols, which nothing calls.
  A message's set of objects stands for its accessors and its list of fields for its
  `Clear`, `_InternalParse` and `_InternalSerialize`, which is what `map` names; the
  accessors that hand out or take over a pointer (`mutable_`, `release_`,
  `set_allocated_`) lie between the others and are not told apart from a get and a set.
* Start-up and configuration, which either reach the server's loop or exit. (The
  configuration's `token.expire_seconds` is read by nothing; a token's day is in the
  INSERT.)
* The monolith's copies of the catalogue and account handlers, by themselves. They have
  the same statements; where one differs, a note in section 2 says so.
* `login.js` and `signup.js`, which send one form each; the progress display of
  `home.js`; HTML and logging.
* The broker's own failures, beyond a publish that fails. `storage::exists` and
  `storage::remove`, which nothing calls. `put` and `putFromFile` on one key.
* Password hashing, an injective function here; and random ids that repeat.
