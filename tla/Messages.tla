------------------------------ MODULE Messages ------------------------------
(***************************************************************************)
(* The messages of file.proto and user.proto, as the generated classes     *)
(* keep them and put them on the wire.                                     *)
(*                                                                         *)
(* For each message M there is the set M of its objects and the sequence   *)
(* MFields of its fields in the order of their numbers, which are 1, 2,    *)
(* ... in every message.  Reading and writing are the same code for every  *)
(* message, run over its fields.                                           *)
(*                                                                         *)
(* A wire is a function from field numbers to values: the serializers      *)
(* write each number at most once, a repeated field's elements together.   *)
(* Varints, tags and lengths are left out.  Both ends are built from the   *)
(* same files, so no number is unknown to the reader.                      *)
(***************************************************************************)
EXTENDS Integers, Sequences

CONSTANTS
  Text,          \* the std::strings there are
  Utf8,          \* those that are valid UTF-8
  Blobs,         \* values of bytes fields
  Int32, Int64   \* the integers a field of that width holds

ASSUME TextAssumption == {"", "SUCCESS"} \subseteq Utf8 /\ Utf8 \subseteq Text /\ "" \in Blobs
ASSUME IntAssumption == {0, 1} \subseteq Int32 /\ Int32 \subseteq Int64 /\ Int64 \subseteq Int

-----------------------------------------------------------------------------
(* Fields, and what they hold in an object nobody has set. *)

string(n) == [name |-> n, kind |-> "string"]
bytes(n)  == [name |-> n, kind |-> "bytes"]
int(n)    == [name |-> n, kind |-> "int"]
ints(n)   == [name |-> n, kind |-> "ints"]      \* repeated int32
items(n)  == [name |-> n, kind |-> "items"]     \* repeated FileItem

DefaultOf == [string |-> "", bytes |-> "", int |-> 0, ints |-> << >>, items |-> << >>]

Names(fields) == {fields[i].name : i \in DOMAIN fields}

\* The number of the field called n.
Number(fields, n) == CHOOSE i \in DOMAIN fields : fields[i].name = n

\* A message as its constructor leaves it.
Cleared(fields) == [n \in Names(fields) |-> DefaultOf[fields[Number(fields, n)].kind]]

-----------------------------------------------------------------------------
(* Accounts. *)

SignupReq == [username : Text, password : Text]
SignupReqFields == <<string("username"), string("password")>>

SignupResp == [code : Int32, msg : Text]
SignupRespFields == <<int("code"), string("msg")>>

SigninReq == [username : Text, password : Text]
SigninReqFields == <<string("username"), string("password")>>

SigninResp == [code : Int32, msg : Text, token : Text, username : Text]
SigninRespFields == <<int("code"), string("msg"), string("token"), string("username")>>

GetUserInfoReq == [username : Text, token : Text]
GetUserInfoReqFields == <<string("username"), string("token")>>

GetUserInfoResp == [code : Int32, msg : Text, username : Text, signup_at : Text]
GetUserInfoRespFields == <<int("code"), string("msg"), string("username"), string("signup_at")>>

CheckTokenReq == [username : Text, token : Text]
CheckTokenReqFields == <<string("username"), string("token")>>

CheckTokenResp == [code : Int32, msg : Text, uid : Int32]
CheckTokenRespFields == <<int("code"), string("msg"), int("uid")>>

-----------------------------------------------------------------------------
(* Files. *)

FileQueryReq == [username : Text, token : Text, limit : Int32, offset : Int32, keyword : Text]
FileQueryReqFields ==
  <<string("username"), string("token"), int("limit"), int("offset"), string("keyword")>>

FileItem ==
  [file_hash : Text, file_name : Text, file_size : Int64, upload_at : Text, last_updated : Text]
FileItemFields ==
  <<string("file_hash"), string("file_name"), int("file_size"), string("upload_at"),
    string("last_updated")>>

FileQueryResp == [code : Int32, msg : Text, items : Seq(FileItem)]
FileQueryRespFields == <<int("code"), string("msg"), items("items")>>

FileUploadReq == [username : Text, token : Text, filename : Text, content : Blobs]

\* Mutant of FileUploadReqFields: filename is a bytes field, whose text nobody checks.
FileUploadReqFieldsRaw == <<string("username"), string("token"), bytes("filename"), bytes("content")>>

FileUploadReqFields == <<string("username"), string("token"), string("filename"), bytes("content")>>

FileUploadResp == [code : Int32, msg : Text, file_hash : Text, file_name : Text, file_size : Int64]
FileUploadRespFields ==
  <<int("code"), string("msg"), string("file_hash"), string("file_name"), int("file_size")>>

FileDownloadReq == [username : Text, token : Text, filename : Text, file_hash : Text]
FileDownloadReqFields ==
  <<string("username"), string("token"), string("filename"), string("file_hash")>>

FileDownloadResp ==
  [code : Int32, msg : Text, content : Blobs, filename : Text, file_size : Int64]
FileDownloadRespFields ==
  <<int("code"), string("msg"), bytes("content"), string("filename"), int("file_size")>>

FileDeleteReq == [username : Text, token : Text, filename : Text, file_hash : Text]
FileDeleteReqFields ==
  <<string("username"), string("token"), string("filename"), string("file_hash")>>

FileDeleteResp == [code : Int32, msg : Text]
FileDeleteRespFields == <<int("code"), string("msg")>>

FileRenameReq ==
  [username : Text, token : Text, old_filename : Text, new_filename : Text, file_hash : Text]
FileRenameReqFields ==
  <<string("username"), string("token"), string("old_filename"), string("new_filename"),
    string("file_hash")>>

FileRenameResp == [code : Int32, msg : Text]
FileRenameRespFields == <<int("code"), string("msg")>>

-----------------------------------------------------------------------------
(* Uploads in chunks. *)

UploadInitReq ==
  [username : Text, token : Text, filename : Text, total_chunks : Int32, total_size : Int64]
UploadInitReqFields ==
  <<string("username"), string("token"), string("filename"), int("total_chunks"),
    int("total_size")>>

UploadInitResp ==
  [code : Int32, msg : Text, upload_id : Text, total_chunks : Int32, total_size : Int64]
UploadInitRespFields ==
  <<int("code"), string("msg"), string("upload_id"), int("total_chunks"), int("total_size")>>

UploadChunkReq ==
  [username : Text, token : Text, upload_id : Text, chunk_index : Int32, chunk_data : Blobs]
UploadChunkReqFields ==
  <<string("username"), string("token"), string("upload_id"), int("chunk_index"),
    bytes("chunk_data")>>

UploadChunkResp ==
  [code : Int32, msg : Text, upload_id : Text, chunk_index : Int32, chunk_size : Int64]
UploadChunkRespFields ==
  <<int("code"), string("msg"), string("upload_id"), int("chunk_index"), int("chunk_size")>>

UploadCompleteReq == [username : Text, token : Text, upload_id : Text]
UploadCompleteReqFields == <<string("username"), string("token"), string("upload_id")>>

UploadCompleteResp ==
  [code : Int32, msg : Text, file_hash : Text, file_name : Text, file_size : Int64]
UploadCompleteRespFields ==
  <<int("code"), string("msg"), string("file_hash"), string("file_name"), int("file_size")>>

UploadStatusReq == [username : Text, token : Text, upload_id : Text]
UploadStatusReqFields == <<string("username"), string("token"), string("upload_id")>>

UploadStatusResp ==
  [code : Int32, msg : Text, upload_id : Text, file_name : Text, total_chunks : Int32,
   received_chunks : Seq(Int32)]
UploadStatusRespFields ==
  <<int("code"), string("msg"), string("upload_id"), string("file_name"), int("total_chunks"),
    ints("received_chunks")>>

-----------------------------------------------------------------------------
(* Writing and reading. *)

\* What _InternalSerialize makes of one field's value.
Written(kind, v, writeItem(_)) ==
  IF kind = "items" THEN [i \in DOMAIN v |-> writeItem(v[i])] ELSE v

\* _InternalSerialize: a field that holds its default is not written.  writeItem is
\* the serializer of the nested messages.
Serialize(fields, m, writeItem(_)) ==
  [i \in {j \in DOMAIN fields : m[fields[j].name] # DefaultOf[fields[j].kind]} |->
     Written(fields[i].kind, m[fields[i].name], writeItem)]

ItemWire(m) == Serialize(FileItemFields, m, LAMBDA x : x)

Wire(fields, m) == Serialize(fields, m, ItemWire)

\* _InternalParse gives up at a string that is not UTF-8.
Accepts(fields, wire, acceptsItem(_)) ==
  \A i \in DOMAIN wire :
    /\ fields[i].kind = "string" => wire[i] \in Utf8
    /\ fields[i].kind = "items" => \A k \in DOMAIN wire[i] : acceptsItem(wire[i][k])

AcceptsItem(wire) == Accepts(FileItemFields, wire, LAMBDA x : TRUE)

Parses(fields, wire) == Accepts(fields, wire, AcceptsItem)

\* The message that ParseFromArray leaves: Clear, then the fields that were written.
Parse(fields, wire, readItem(_)) ==
  [n \in Names(fields) |->
     LET i == Number(fields, n) IN
       IF i \notin DOMAIN wire THEN DefaultOf[fields[i].kind]
       ELSE IF fields[i].kind = "items" THEN [k \in DOMAIN wire[i] |-> readItem(wire[i][k])]
       ELSE wire[i]]

ItemOf(wire) == Parse(FileItemFields, wire, LAMBDA x : x)

MessageOf(fields, wire) == Parse(fields, wire, ItemOf)
============================================================================
