----------------------------- MODULE GatewayRpc -----------------------------
(***************************************************************************)
(* A browser's request on its way through the gateway: the twelve handlers *)
(* of gateway_handler.cpp build a message, srpc carries it to the user or  *)
(* the file service, a handler there answers, and the gateway turns the    *)
(* answer into JSON.  The file service asks the user service about the     *)
(* token on the way.                                                       *)
(*                                                                         *)
(* In every answer code 0 means success, and 0 is also what a message      *)
(* holds that was never filled in.  A call that fails leaves its answer in *)
(* that state, so everything hangs on each caller looking at ctx.success.  *)
(*                                                                         *)
(* What the handlers of the two services do is in the other modules; here  *)
(* each one ends in one of the answers it can give.  Calls that are lost   *)
(* or time out (srpc gives up after a while, and does not send a call      *)
(* again) and services that die are the network's and the operator's.      *)
(***************************************************************************)
EXTENDS Messages

CONSTANTS
  Calls,        \* requests of browsers
  Digits,       \* texts of numeric parameters
  Value,        \* the number that such a text denotes, or Junk
  Junk,
  Uids,         \* ids of tbl_user
  None

ASSUME DigitsAssumption == Value \in [Digits -> Int \cup {Junk}] /\ Junk \notin Int
ASSUME UidAssumption == Uids \subseteq Int32 \ {0}
ASSUME NoneAssumption == None \notin Text \cup Blobs \cup Digits \cup Int

Rpc(req, resp) == [req |-> req, resp |-> resp]

\* The methods of a service, by the names its dispatcher and its client know them under.
UserService ==
  [Signup      |-> Rpc(SignupReqFields, SignupRespFields),
   Signin      |-> Rpc(SigninReqFields, SigninRespFields),
   GetUserInfo |-> Rpc(GetUserInfoReqFields, GetUserInfoRespFields),
   CheckToken  |-> Rpc(CheckTokenReqFields, CheckTokenRespFields)]

FileService ==
  [FileQuery      |-> Rpc(FileQueryReqFields, FileQueryRespFields),
   FileUpload     |-> Rpc(FileUploadReqFields, FileUploadRespFields),
   UploadInit     |-> Rpc(UploadInitReqFields, UploadInitRespFields),
   UploadChunk    |-> Rpc(UploadChunkReqFields, UploadChunkRespFields),
   UploadComplete |-> Rpc(UploadCompleteReqFields, UploadCompleteRespFields),
   UploadStatus   |-> Rpc(UploadStatusReqFields, UploadStatusRespFields),
   FileDownload   |-> Rpc(FileDownloadReqFields, FileDownloadRespFields),
   FileDelete     |-> Rpc(FileDeleteReqFields, FileDeleteRespFields),
   FileRename     |-> Rpc(FileRenameReqFields, FileRenameRespFields)]

Method(m) == IF m \in DOMAIN FileService THEN FileService[m] ELSE UserService[m]

Request ==
  [Signup |-> SignupReq, Signin |-> SigninReq, GetUserInfo |-> GetUserInfoReq,
   FileQuery |-> FileQueryReq, FileUpload |-> FileUploadReq, UploadInit |-> UploadInitReq,
   UploadChunk |-> UploadChunkReq, UploadComplete |-> UploadCompleteReq,
   UploadStatus |-> UploadStatusReq, FileDownload |-> FileDownloadReq,
   FileDelete |-> FileDeleteReq, FileRename |-> FileRenameReq]

Response ==
  [Signup |-> SignupResp, Signin |-> SigninResp, GetUserInfo |-> GetUserInfoResp,
   FileQuery |-> FileQueryResp, FileUpload |-> FileUploadResp, UploadInit |-> UploadInitResp,
   UploadChunk |-> UploadChunkResp, UploadComplete |-> UploadCompleteResp,
   UploadStatus |-> UploadStatusResp, FileDownload |-> FileDownloadResp,
   FileDelete |-> FileDeleteResp, FileRename |-> FileRenameResp]

VARIABLES
  gateway,   \* for each call: where its handler is, what it was asked, sent and answered
  service,   \* for each call: where the service's handler is, what it sees and answers
  wire       \* for each call: the message under way, or None

vars == <<gateway, service, wire>>

Init ==
  /\ gateway = [c \in Calls |-> [pc |-> "idle", method |-> None, asked |-> None,
                                 sent |-> None, reply |-> None]]
  /\ service = [c \in Calls |-> [pc |-> "idle", seen |-> None, uid |-> 0,
                                 holder |-> None, answer |-> None]]
  /\ wire = [c \in Calls |-> None]

-----------------------------------------------------------------------------
(* From the browser to the wire. *)

Fits(t, width) == Value[t] \in width

\* Mutant of OrUnset: the text is read without a look at the field's range.
OrWhatever(t, width) == IF Value[t] \in Int THEN Value[t] ELSE 0

\* try { set(stoi(t)) } catch (...) {}: what cannot be read is not set.
OrUnset(t, width) == IF Fits(t, width) THEN Value[t] ELSE 0

\* The synchronous call of the generated client: the message goes out.
Send(c, m, asked, msg) ==
  /\ gateway[c].pc = "idle"
  /\ gateway' = [gateway EXCEPT ![c] = [pc |-> "waiting", method |-> m, asked |-> asked,
                                        sent |-> msg, reply |-> None]]
  /\ wire' = [wire EXCEPT ![c] = Wire(Method(m).req, msg)]
  /\ service' = [service EXCEPT ![c].pc = "called"]

\* replyJson before any call.
Decline(c, m, asked) ==
  /\ gateway[c].pc = "idle"
  /\ gateway' = [gateway EXCEPT ![c] = [pc |-> "answered", method |-> m, asked |-> asked,
                                        sent |-> None, reply |-> [code |-> 1, data |-> None]]]
  /\ UNCHANGED <<service, wire>>

signup(c) == \E p \in [username : Text, password : Text] : Send(c, "Signup", p, p)

signin(c) == \E p \in [username : Text, password : Text] : Send(c, "Signin", p, p)

info(c) == \E p \in [username : Text, token : Text] : Send(c, "GetUserInfo", p, p)

fileQuery(c) ==
  \E p \in [username : Text, token : Text, limit : Digits, offset : Digits, keyword : Text] :
    Send(c, "FileQuery", p, [p EXCEPT !.limit = OrUnset(@, Int32), !.offset = OrUnset(@, Int32)])

fileUpload(c) ==
  \E p \in [username : Text, token : Text, filename : Text, content : Blobs \cup {None}] :
    IF p.content = None THEN Decline(c, "FileUpload", p) ELSE Send(c, "FileUpload", p, p)

uploadInit(c) ==
  \E p \in [username : Text, token : Text, filename : Text, total_chunks : Digits,
            total_size : Digits] :
    Send(c, "UploadInit", p, [p EXCEPT !.total_chunks = OrUnset(@, Int32),
                                       !.total_size = OrUnset(@, Int64)])

\* Mutant of uploadChunk: an index that cannot be read is left unset, like the other
\* numeric parameters.
uploadChunkLenient(c) ==
  \E p \in [username : Text, token : Text, upload_id : Text, chunk_index : Digits,
            chunk_data : Blobs \cup {None}] :
    IF p.chunk_data = None THEN Decline(c, "UploadChunk", p)
    ELSE Send(c, "UploadChunk", p, [p EXCEPT !.chunk_index = OrUnset(@, Int32)])

uploadChunk(c) ==
  \E p \in [username : Text, token : Text, upload_id : Text, chunk_index : Digits,
            chunk_data : Blobs \cup {None}] :
    IF p.chunk_data = None \/ ~Fits(p.chunk_index, Int32) THEN Decline(c, "UploadChunk", p)
    ELSE Send(c, "UploadChunk", p, [p EXCEPT !.chunk_index = Value[@]])

uploadComplete(c) ==
  \E p \in [username : Text, token : Text, upload_id : Text] : Send(c, "UploadComplete", p, p)

uploadStatus(c) ==
  \E p \in [username : Text, token : Text, upload_id : Text] : Send(c, "UploadStatus", p, p)

fileDownload(c) ==
  \E p \in [username : Text, token : Text, filename : Text, file_hash : Text] :
    Send(c, "FileDownload", p, p)

fileDelete(c) ==
  \E p \in [username : Text, token : Text, filename : Text, file_hash : Text] :
    Send(c, "FileDelete", p, p)

fileRename(c) ==
  \E p \in [username : Text, token : Text, old_filename : Text, new_filename : Text,
            file_hash : Text] :
    Send(c, "FileRename", p, p)

-----------------------------------------------------------------------------
(* In the services. *)

\* The dispatcher of the service reads the message, or answers with an error of its own.
Dispatch(c) ==
  /\ service[c].pc = "called"
  /\ LET m == gateway[c].method IN
       IF Parses(Method(m).req, wire[c])
       THEN service' = [service EXCEPT
              ![c].pc = IF m \in DOMAIN FileService THEN "check" ELSE "work",
              ![c].seen = MessageOf(Method(m).req, wire[c])]
       ELSE service' = [service EXCEPT ![c].pc = "rejected"]
  /\ wire' = [wire EXCEPT ![c] = None]
  /\ UNCHANGED gateway

\* The answers of UserServiceImpl::CheckToken.
checkTokenAnswers ==
  {[code |-> 0, msg |-> "SUCCESS", uid |-> u] : u \in Uids}
    \cup {[code |-> 1, msg |-> t, uid |-> 0] : t \in Utf8}

\* What the synchronous call leaves in resp: the answer if there is one, or resp as it was.
Received(fields, answer) ==
  IF answer # None /\ Parses(fields, Wire(fields, answer))
  THEN MessageOf(fields, Wire(fields, answer)) ELSE Cleared(fields)

Failed(m, text) == [Cleared(Method(m).resp) EXCEPT !.code = 1, !.msg = text]

\* Mutant of CheckToken: UserClient::checkToken does not look at ctx.success.
CheckTokenTrusting(c) ==
  /\ service[c].pc = "check"
  /\ \E answer \in checkTokenAnswers \cup {None} :
       LET resp == Received(CheckTokenRespFields, answer) IN
         IF resp.code = 0
         THEN service' = [service EXCEPT ![c].pc = "work", ![c].uid = resp.uid,
                                         ![c].holder = IF answer = None THEN None ELSE answer.uid]
         ELSE \E t \in Utf8 :
                service' = [service EXCEPT ![c].pc = "done",
                                           ![c].answer = Failed(gateway[c].method, t)]
  /\ UNCHANGED <<gateway, wire>>

\* UserClient::checkToken, and the handler's return when it says no.  answer = None when
\* the call is lost; holder keeps whom the user service named.
CheckToken(c) ==
  /\ service[c].pc = "check"
  /\ \E answer \in checkTokenAnswers \cup {None} :
       LET resp == Received(CheckTokenRespFields, answer) IN
         IF answer # None /\ resp.code = 0
         THEN service' = [service EXCEPT ![c].pc = "work", ![c].uid = resp.uid,
                                         ![c].holder = answer.uid]
         ELSE \E t \in Utf8 :
                service' = [service EXCEPT ![c].pc = "done",
                                           ![c].answer = Failed(gateway[c].method, t)]
  /\ UNCHANGED <<gateway, wire>>

Ok(m) == [Cleared(Method(m).resp) EXCEPT !.msg = "SUCCESS"]

\* What each handler answers when it succeeds; q is the request.
signinOk(q) == [code : {0}, msg : {"SUCCESS"}, token : Utf8, username : {q.username}]

getUserInfoOk(q) == [code : {0}, msg : {"SUCCESS"}, username : {q.username}, signup_at : Utf8]

Rows == [file_hash : Utf8, file_name : Utf8, file_size : Int64, upload_at : {"SUCCESS"},
         last_updated : {"SUCCESS"}]

fileQueryOk == [code : {0}, msg : {"SUCCESS"}, items : {<< >>} \cup {<<r>> : r \in Rows}]

fileUploadOk(q) ==
  [code : {0}, msg : {"SUCCESS"}, file_hash : Utf8, file_name : {q.filename}, file_size : Int64]

uploadInitOk(q) ==
  [code : {0}, msg : {"SUCCESS"}, upload_id : Utf8, total_chunks : {q.total_chunks},
   total_size : {q.total_size}]

uploadChunkOk(q) ==
  [code : {0}, msg : {"SUCCESS"}, upload_id : {q.upload_id}, chunk_index : {q.chunk_index},
   chunk_size : Int64]

uploadCompleteOk ==
  [code : {0}, msg : {"SUCCESS"}, file_hash : Utf8, file_name : Utf8, file_size : Int64]

uploadStatusOk(q) ==
  [code : {0}, msg : {"SUCCESS"}, upload_id : {q.upload_id}, file_name : Utf8,
   total_chunks : Int32, received_chunks : {<< >>, <<0>>, <<0, 1>>}]

fileDownloadOk(q) ==
  [code : {0}, msg : {"SUCCESS"}, content : Blobs, filename : {q.filename}, file_size : Int64]

\* What handlers answer when they fail; an exception leaves the items that were read.
Fails(m) ==
  {Failed(m, t) : t \in Utf8}
    \cup (IF m = "FileQuery" THEN {[r EXCEPT !.code = 1, !.msg = ""] : r \in fileQueryOk} ELSE {})

Succeeds(m, q) ==
  CASE m = "Signin"         -> signinOk(q)
    [] m = "GetUserInfo"    -> getUserInfoOk(q)
    [] m = "FileQuery"      -> fileQueryOk
    [] m = "FileUpload"     -> fileUploadOk(q)
    [] m = "UploadInit"     -> uploadInitOk(q)
    [] m = "UploadChunk"    -> uploadChunkOk(q)
    [] m = "UploadComplete" -> uploadCompleteOk
    [] m = "UploadStatus"   -> uploadStatusOk(q)
    [] m = "FileDownload"   -> fileDownloadOk(q)
    [] OTHER                -> {Ok(m)}

\* The rest of the handler.
Work(c) ==
  /\ service[c].pc = "work"
  /\ LET m == gateway[c].method IN
       \E r \in Succeeds(m, service[c].seen) \cup Fails(m) :
         service' = [service EXCEPT ![c].pc = "done", ![c].answer = r]
  /\ UNCHANGED <<gateway, wire>>

\* The handler has returned, and its answer is sent.
Answer(c) ==
  /\ service[c].pc = "done"
  /\ service' = [service EXCEPT ![c].pc = "answered"]
  /\ wire' = [wire EXCEPT ![c] = Wire(Method(gateway[c].method).resp, service[c].answer)]
  /\ UNCHANGED gateway

-----------------------------------------------------------------------------
(* From the wire to the browser: the data of the JSON, or the body of a download. *)

signinData(r) == [Username |-> r.username, Token |-> r.token]

infoData(r) == [Username |-> r.username, SignupAt |-> r.signup_at]

fileQueryData(r) ==
  [i \in DOMAIN r.items |->
     [FileHash |-> r.items[i].file_hash, FileName |-> r.items[i].file_name,
      FileSize |-> r.items[i].file_size, UploadAt |-> r.items[i].upload_at,
      LastUpdated |-> r.items[i].last_updated]]

fileUploadData(r) ==
  [FileHash |-> r.file_hash, FileName |-> r.file_name, FileSize |-> r.file_size]

uploadInitData(r) ==
  [UploadID |-> r.upload_id, TotalChunks |-> r.total_chunks, TotalSize |-> r.total_size]

uploadChunkData(r) ==
  [UploadID |-> r.upload_id, ChunkIndex |-> r.chunk_index, ChunkSize |-> r.chunk_size]

uploadCompleteData(r) ==
  [FileHash |-> r.file_hash, FileName |-> r.file_name, FileSize |-> r.file_size]

uploadStatusData(r) ==
  [UploadID |-> r.upload_id, FileName |-> r.file_name, TotalChunks |-> r.total_chunks,
   ReceivedChunks |-> r.received_chunks]

fileDownloadData(r) == [name |-> r.filename, body |-> r.content]

Data(m, r) ==
  CASE m = "Signin"         -> signinData(r)
    [] m = "GetUserInfo"    -> infoData(r)
    [] m = "FileQuery"      -> fileQueryData(r)
    [] m = "FileUpload"     -> fileUploadData(r)
    [] m = "UploadInit"     -> uploadInitData(r)
    [] m = "UploadChunk"    -> uploadChunkData(r)
    [] m = "UploadComplete" -> uploadCompleteData(r)
    [] m = "UploadStatus"   -> uploadStatusData(r)
    [] m = "FileDownload"   -> fileDownloadData(r)
    [] OTHER                -> None

Reply(c, code, data) ==
  gateway' = [gateway EXCEPT ![c].pc = "answered", ![c].reply = [code |-> code, data |-> data]]

\* The answer has come, and can be read.
Receive(c) ==
  /\ gateway[c].pc = "waiting" /\ service[c].pc = "answered" /\ wire[c] # None
  /\ LET m == gateway[c].method
         r == MessageOf(Method(m).resp, wire[c]) IN
       /\ Parses(Method(m).resp, wire[c])
       /\ Reply(c, r.code, IF r.code = 0 THEN Data(m, r) ELSE None)
  /\ wire' = [wire EXCEPT ![c] = None]
  /\ UNCHANGED service

\* Mutant of RpcFailed: the handler reads rpc_resp without looking at ctx.success.
RpcFailedUnseen(c) ==
  /\ gateway[c].pc = "waiting"
  /\ LET m == gateway[c].method
         r == Cleared(Method(m).resp) IN Reply(c, r.code, Data(m, r))
  /\ wire' = [wire EXCEPT ![c] = IF service[c].pc = "answered" THEN None ELSE @]
  /\ UNCHANGED service

\* ctx.success is false: the service has rejected the call or is gone, or the answer is
\* lost, unreadable or too late.  A service that has the call goes on with it.
RpcFailed(c) ==
  /\ gateway[c].pc = "waiting"
  /\ Reply(c, 1, None)
  /\ wire' = [wire EXCEPT ![c] = IF service[c].pc = "answered" THEN None ELSE @]
  /\ UNCHANGED service

\* The service dies, with all calls that are in it or under way to it.
Crash(methods) ==
  LET in == {c \in Calls : /\ gateway[c].method \in methods
                           /\ service[c].pc \in {"called", "check", "work", "done"}} IN
    /\ in # {}
    /\ service' = [c \in Calls |-> IF c \in in THEN [service[c] EXCEPT !.pc = "gone"]
                                                ELSE service[c]]
    /\ wire' = [c \in Calls |-> IF c \in in THEN None ELSE wire[c]]
    /\ UNCHANGED gateway

Handle(c) ==
  \/ signup(c) \/ signin(c) \/ info(c)
  \/ fileQuery(c) \/ fileUpload(c) \/ uploadInit(c) \/ uploadChunk(c) \/ uploadComplete(c)
  \/ uploadStatus(c) \/ fileDownload(c) \/ fileDelete(c) \/ fileRename(c)

Next ==
  \/ \E c \in Calls :
       \/ Handle(c) \/ Receive(c) \/ RpcFailed(c)
       \/ Dispatch(c) \/ CheckToken(c) \/ Work(c) \/ Answer(c)
  \/ Crash(DOMAIN UserService) \/ Crash(DOMAIN FileService)

Spec == Init /\ [][Next]_vars

-----------------------------------------------------------------------------
(* What holds. *)

Methods == DOMAIN Request

\* Objects are of their messages' classes, and no handler of a service runs without a
\* request it could read.
TypeOK ==
  \A c \in Calls :
    LET g == gateway[c]
        s == service[c] IN
      /\ g.pc \in {"idle", "waiting", "answered"}
      /\ g.pc # "idle" => g.method \in Methods
      /\ g.sent # None => g.sent \in Request[g.method]
      /\ g.pc = "answered" => g.reply.code \in Int32
      /\ s.pc \in {"idle", "called", "rejected", "check", "work", "done", "answered", "gone"}
      /\ s.pc \in {"check", "work", "done", "answered"} => s.seen \in Request[g.method]
      /\ s.pc \in {"done", "answered"} => s.answer \in Response[g.method]
      /\ s.uid \in Int32

\* A browser that is told code 0 is told so by a handler that did its work, about its
\* own request, and what it is shown is what that handler answered.  Code 0 is also the
\* default of every answer, so a call that failed looks like a success if nobody checks.
OkMeansDone ==
  \A c \in Calls :
    gateway[c].pc = "answered" /\ gateway[c].reply.code = 0 =>
      /\ service[c].pc = "answered" /\ service[c].answer.code = 0
      /\ gateway[c].reply.data = Data(gateway[c].method, service[c].answer)

NumberFields == {"limit", "offset", "total_chunks", "total_size", "chunk_index"}

Width(f) == IF f = "total_size" THEN Int64 ELSE Int32

\* A handler of a service sees the request as the browser made it, through messages in
\* which an empty text or a 0 is not written at all.  Texts are UTF-8; a number that
\* does not fit or cannot be read is 0, but never the index of a chunk, which would
\* overwrite chunk 0.
SeenAsAsked ==
  \A c \in Calls :
    service[c].seen # None =>
      \A f \in DOMAIN service[c].seen :
        LET a == gateway[c].asked[f]
            v == service[c].seen[f] IN
          IF f \in NumberFields
          THEN IF Fits(a, Width(f)) THEN v = Value[a] ELSE v = 0 /\ f # "chunk_index"
          ELSE v = a /\ (a \in Utf8 \/ f \in {"content", "chunk_data"})

\* A handler of the file service goes past its token check only under the uid that the
\* user service named in an answer to this call: a lost answer is no one.
OnlyTokenHolders ==
  \A c \in Calls :
    /\ gateway[c].method \in DOMAIN FileService
    /\ \/ service[c].pc = "work"
       \/ service[c].pc \in {"done", "answered"} /\ service[c].answer.code = 0
    => service[c].holder \in Uids /\ service[c].uid = service[c].holder

\* What a service answers can be read by the gateway: a failure is not made up of work
\* that was done, on top of calls lost or late.
AnswersAreReadable ==
  \A c \in Calls :
    service[c].pc = "answered" /\ wire[c] # None =>
      Parses(Method(gateway[c].method).resp, wire[c])
============================================================================
