--------------------------- MODULE GatewayProofs ---------------------------
(***************************************************************************)
(* Proofs about GatewayRpc, for every number of calls, every alphabet of   *)
(* texts and every width of the integers: a message survives the wire, a   *)
(* browser that is told of success is told by the handler that did the     *)
(* work, and no handler of the file service goes past its token check in   *)
(* another one's name.                                                     *)
(***************************************************************************)
EXTENDS GatewayRpc, TLAPS

-----------------------------------------------------------------------------
(* What the writers and the readers of messages do. *)

\* No two fields share a name.
Distinct(fields) == \A i, j \in DOMAIN fields : fields[i].name = fields[j].name => i = j

\* A function on exactly the names of the fields.
Over(fields, m) == m = [n \in Names(fields) |-> m[n]]

\* An object of a message with these fields, whose items are objects too.
Object(fields, m) ==
  /\ Over(fields, m)
  /\ \A i \in DOMAIN fields :
       fields[i].kind = "items" =>
         /\ m[fields[i].name] = [k \in DOMAIN m[fields[i].name] |-> m[fields[i].name][k]]
         /\ \A k \in DOMAIN m[fields[i].name] : Over(FileItemFields, m[fields[i].name][k])

\* A field is found by its name.
LEMMA NumberOfName ==
  ASSUME NEW fields, Distinct(fields), NEW n \in Names(fields)
  PROVE  /\ Number(fields, n) \in DOMAIN fields
         /\ fields[Number(fields, n)].name = n
  <1>1. \E i \in DOMAIN fields : fields[i].name = n BY DEF Names
  <1> QED BY <1>1 DEF Number

\* The names of an item's fields.
LEMMA ItemNames ==
  /\ DOMAIN FileItemFields = 1 .. 5
  /\ Distinct(FileItemFields)
  /\ \A i \in DOMAIN FileItemFields : FileItemFields[i].kind \in {"string", "int"}
  /\ Names(FileItemFields) = {"file_hash", "file_name", "file_size", "upload_at", "last_updated"}
  <1>1. FileItemFields = <<string("file_hash"), string("file_name"), int("file_size"),
                           string("upload_at"), string("last_updated")>>
    BY DEF FileItemFields
  <1>2. DOMAIN FileItemFields = {1, 2, 3, 4, 5} BY <1>1
  <1>3. /\ FileItemFields[1].name = "file_hash" /\ FileItemFields[2].name = "file_name"
        /\ FileItemFields[3].name = "file_size" /\ FileItemFields[4].name = "upload_at"
        /\ FileItemFields[5].name = "last_updated"
        /\ FileItemFields[1].kind = "string" /\ FileItemFields[2].kind = "string"
        /\ FileItemFields[3].kind = "int" /\ FileItemFields[4].kind = "string"
        /\ FileItemFields[5].kind = "string"
    BY <1>1 DEF string, int
  <1>4. Distinct(FileItemFields) BY <1>2, <1>3 DEF Distinct
  <1>5. \A i \in DOMAIN FileItemFields : FileItemFields[i].kind \in {"string", "int"} BY <1>2, <1>3
  <1>6. Names(FileItemFields) = {"file_hash", "file_name", "file_size", "upload_at", "last_updated"}
    BY <1>2, <1>3 DEF Names
  <1> QED BY <1>2, <1>4, <1>5, <1>6

\* An item that was written is read as it was.
LEMMA ItemRoundTrip ==
  ASSUME NEW m, Over(FileItemFields, m)
  PROVE  ItemOf(ItemWire(m)) = m
  <1> DEFINE F == FileItemFields
             w == ItemWire(m)
  <1>1. w = [i \in {j \in DOMAIN F : m[F[j].name] # DefaultOf[F[j].kind]} |-> m[F[i].name]]
    BY ItemNames DEF ItemWire, Serialize, Written
  <1>2. ItemOf(w) = [n \in Names(F) |->
                       IF Number(F, n) \notin DOMAIN w THEN DefaultOf[F[Number(F, n)].kind]
                       ELSE w[Number(F, n)]]
    <2>1. \A n \in Names(F) : Number(F, n) \in DOMAIN F BY NumberOfName, ItemNames
    <2> QED BY <2>1, ItemNames DEF ItemOf, Parse
  <1>3. ASSUME NEW n \in Names(F)
        PROVE  (IF Number(F, n) \notin DOMAIN w THEN DefaultOf[F[Number(F, n)].kind]
                ELSE w[Number(F, n)]) = m[n]
    <2>1. Number(F, n) \in DOMAIN F /\ F[Number(F, n)].name = n BY NumberOfName, ItemNames
    <2> QED BY <2>1, <1>1
  <1>4. m = [n \in Names(F) |-> m[n]] BY DEF Over
  <1> HIDE DEF w, F
  <1>5. ItemOf(w) = [n \in Names(F) |-> m[n]] BY <1>2, <1>3
  <1> QED BY <1>4, <1>5 DEF w

\* The parser leaves the message that was serialized: what is not written is what the
\* constructor puts there.
THEOREM RoundTrip ==
  ASSUME NEW fields, Distinct(fields), NEW m, Object(fields, m)
  PROVE  MessageOf(fields, Wire(fields, m)) = m
  <1> DEFINE w == Wire(fields, m)
             at(n) == Number(fields, n)
  <1>1. DOMAIN w = {j \in DOMAIN fields : m[fields[j].name] # DefaultOf[fields[j].kind]}
    BY DEF Wire, Serialize
  <1>2. ASSUME NEW i \in DOMAIN w
        PROVE  w[i] = IF fields[i].kind = "items"
                      THEN [k \in DOMAIN m[fields[i].name] |-> ItemWire(m[fields[i].name][k])]
                      ELSE m[fields[i].name]
    BY DEF Wire, Serialize, Written
  <1>3. MessageOf(fields, w) =
          [n \in Names(fields) |->
             IF at(n) \notin DOMAIN w THEN DefaultOf[fields[at(n)].kind]
             ELSE IF fields[at(n)].kind = "items"
                  THEN [k \in DOMAIN w[at(n)] |-> ItemOf(w[at(n)][k])]
             ELSE w[at(n)]]
    BY DEF MessageOf, Parse
  <1>4. ASSUME NEW n \in Names(fields)
        PROVE  (IF at(n) \notin DOMAIN w THEN DefaultOf[fields[at(n)].kind]
                ELSE IF fields[at(n)].kind = "items"
                     THEN [k \in DOMAIN w[at(n)] |-> ItemOf(w[at(n)][k])]
                ELSE w[at(n)]) = m[n]
    <2>1. at(n) \in DOMAIN fields /\ fields[at(n)].name = n BY NumberOfName
    <2> HIDE DEF w, at
    <2>2. CASE at(n) \notin DOMAIN w BY <2>1, <2>2, <1>1
    <2>3. CASE at(n) \in DOMAIN w /\ fields[at(n)].kind # "items" BY <2>1, <2>3, <1>2
    <2>4. CASE at(n) \in DOMAIN w /\ fields[at(n)].kind = "items"
      <3> DEFINE v == m[n]
      <3>1. w[at(n)] = [k \in DOMAIN v |-> ItemWire(v[k])] BY <2>1, <2>4, <1>2
      <3>2. v = [k \in DOMAIN v |-> v[k]] /\ \A k \in DOMAIN v : Over(FileItemFields, v[k])
        BY <2>1, <2>4 DEF Object
      <3> HIDE DEF v
      <3>3. \A k \in DOMAIN v : ItemOf(ItemWire(v[k])) = v[k] BY <3>2, ItemRoundTrip
      <3>4. DOMAIN w[at(n)] = DOMAIN v /\ \A k \in DOMAIN v : w[at(n)][k] = ItemWire(v[k]) BY <3>1
      <3>5. [k \in DOMAIN w[at(n)] |-> ItemOf(w[at(n)][k])] = [k \in DOMAIN v |-> v[k]]
        BY <3>3, <3>4
      <3>6. [k \in DOMAIN w[at(n)] |-> ItemOf(w[at(n)][k])] = m[n] BY <3>2, <3>5 DEF v
      <3> QED BY <2>4, <3>6
    <2> QED BY <2>2, <2>3, <2>4
  <1>5. m = [n \in Names(fields) |-> m[n]] BY DEF Object, Over
  <1> HIDE DEF w
  <1>6. MessageOf(fields, w) = [n \in Names(fields) |-> m[n]] BY <1>3, <1>4
  <1> QED BY <1>5, <1>6 DEF w

-----------------------------------------------------------------------------
(* The classes of the messages are over their fields. *)

\* The objects in a set can be written and read with these fields, and none of them
\* has items.
Plain(fields, set) ==
  /\ Distinct(fields)
  /\ \A i \in DOMAIN fields : fields[i].kind # "items"
  /\ \A m \in set : Over(fields, m)

\* Every field of a request that is neither a number nor a file's bytes is text.
TextFields(fields) ==
  \A i \in DOMAIN fields :
    fields[i].kind = "string" \/ fields[i].name \in NumberFields \cup {"content", "chunk_data"}

\* The objects of SignupReq are over its fields.
LEMMA SignupReqPlain == Plain(SignupReqFields, SignupReq) /\ TextFields(SignupReqFields)
  <1>1. Distinct(SignupReqFields)
    BY DEF Distinct, SignupReqFields, string, bytes, int, ints
  <1>2. Names(SignupReqFields) = {"username", "password"}
    BY DEF Names, SignupReqFields, string, bytes, int, ints
  <1>3. \A i \in DOMAIN SignupReqFields : SignupReqFields[i].kind # "items"
    BY DEF SignupReqFields, string, bytes, int, ints
  <1>4. \A m \in SignupReq : Over(SignupReqFields, m) BY <1>2 DEF SignupReq, Over
  <1>5. TextFields(SignupReqFields)
    BY DEF TextFields, NumberFields, SignupReqFields, string, bytes, int
  <1> QED BY <1>1, <1>3, <1>4, <1>5 DEF Plain

\* The objects of SigninReq are over its fields.
LEMMA SigninReqPlain == Plain(SigninReqFields, SigninReq) /\ TextFields(SigninReqFields)
  <1>1. Distinct(SigninReqFields)
    BY DEF Distinct, SigninReqFields, string, bytes, int, ints
  <1>2. Names(SigninReqFields) = {"username", "password"}
    BY DEF Names, SigninReqFields, string, bytes, int, ints
  <1>3. \A i \in DOMAIN SigninReqFields : SigninReqFields[i].kind # "items"
    BY DEF SigninReqFields, string, bytes, int, ints
  <1>4. \A m \in SigninReq : Over(SigninReqFields, m) BY <1>2 DEF SigninReq, Over
  <1>5. TextFields(SigninReqFields)
    BY DEF TextFields, NumberFields, SigninReqFields, string, bytes, int
  <1> QED BY <1>1, <1>3, <1>4, <1>5 DEF Plain

\* The objects of GetUserInfoReq are over its fields.
LEMMA GetUserInfoReqPlain == Plain(GetUserInfoReqFields, GetUserInfoReq) /\ TextFields(GetUserInfoReqFields)
  <1>1. Distinct(GetUserInfoReqFields)
    BY DEF Distinct, GetUserInfoReqFields, string, bytes, int, ints
  <1>2. Names(GetUserInfoReqFields) = {"username", "token"}
    BY DEF Names, GetUserInfoReqFields, string, bytes, int, ints
  <1>3. \A i \in DOMAIN GetUserInfoReqFields : GetUserInfoReqFields[i].kind # "items"
    BY DEF GetUserInfoReqFields, string, bytes, int, ints
  <1>4. \A m \in GetUserInfoReq : Over(GetUserInfoReqFields, m) BY <1>2 DEF GetUserInfoReq, Over
  <1>5. TextFields(GetUserInfoReqFields)
    BY DEF TextFields, NumberFields, GetUserInfoReqFields, string, bytes, int
  <1> QED BY <1>1, <1>3, <1>4, <1>5 DEF Plain

\* The objects of FileQueryReq are over its fields.
LEMMA FileQueryReqPlain == Plain(FileQueryReqFields, FileQueryReq) /\ TextFields(FileQueryReqFields)
  <1>1. Distinct(FileQueryReqFields)
    BY DEF Distinct, FileQueryReqFields, string, bytes, int, ints
  <1>2. Names(FileQueryReqFields) = {"username", "token", "limit", "offset", "keyword"}
    BY DEF Names, FileQueryReqFields, string, bytes, int, ints
  <1>3. \A i \in DOMAIN FileQueryReqFields : FileQueryReqFields[i].kind # "items"
    BY DEF FileQueryReqFields, string, bytes, int, ints
  <1>4. \A m \in FileQueryReq : Over(FileQueryReqFields, m) BY <1>2 DEF FileQueryReq, Over
  <1>5. TextFields(FileQueryReqFields)
    BY DEF TextFields, NumberFields, FileQueryReqFields, string, bytes, int
  <1> QED BY <1>1, <1>3, <1>4, <1>5 DEF Plain

\* The objects of FileUploadReq are over its fields.
LEMMA FileUploadReqPlain == Plain(FileUploadReqFields, FileUploadReq) /\ TextFields(FileUploadReqFields)
  <1>1. Distinct(FileUploadReqFields)
    BY DEF Distinct, FileUploadReqFields, string, bytes, int, ints
  <1>2. Names(FileUploadReqFields) = {"username", "token", "filename", "content"}
    BY DEF Names, FileUploadReqFields, string, bytes, int, ints
  <1>3. \A i \in DOMAIN FileUploadReqFields : FileUploadReqFields[i].kind # "items"
    BY DEF FileUploadReqFields, string, bytes, int, ints
  <1>4. \A m \in FileUploadReq : Over(FileUploadReqFields, m) BY <1>2 DEF FileUploadReq, Over
  <1>5. TextFields(FileUploadReqFields)
    BY DEF TextFields, NumberFields, FileUploadReqFields, string, bytes, int
  <1> QED BY <1>1, <1>3, <1>4, <1>5 DEF Plain

\* The objects of UploadInitReq are over its fields.
LEMMA UploadInitReqPlain == Plain(UploadInitReqFields, UploadInitReq) /\ TextFields(UploadInitReqFields)
  <1>1. Distinct(UploadInitReqFields)
    BY DEF Distinct, UploadInitReqFields, string, bytes, int, ints
  <1>2. Names(UploadInitReqFields) = {"username", "token", "filename", "total_chunks", "total_size"}
    BY DEF Names, UploadInitReqFields, string, bytes, int, ints
  <1>3. \A i \in DOMAIN UploadInitReqFields : UploadInitReqFields[i].kind # "items"
    BY DEF UploadInitReqFields, string, bytes, int, ints
  <1>4. \A m \in UploadInitReq : Over(UploadInitReqFields, m) BY <1>2 DEF UploadInitReq, Over
  <1>5. TextFields(UploadInitReqFields)
    BY DEF TextFields, NumberFields, UploadInitReqFields, string, bytes, int
  <1> QED BY <1>1, <1>3, <1>4, <1>5 DEF Plain

\* The objects of UploadChunkReq are over its fields.
LEMMA UploadChunkReqPlain == Plain(UploadChunkReqFields, UploadChunkReq) /\ TextFields(UploadChunkReqFields)
  <1>1. Distinct(UploadChunkReqFields)
    BY DEF Distinct, UploadChunkReqFields, string, bytes, int, ints
  <1>2. Names(UploadChunkReqFields) = {"username", "token", "upload_id", "chunk_index", "chunk_data"}
    BY DEF Names, UploadChunkReqFields, string, bytes, int, ints
  <1>3. \A i \in DOMAIN UploadChunkReqFields : UploadChunkReqFields[i].kind # "items"
    BY DEF UploadChunkReqFields, string, bytes, int, ints
  <1>4. \A m \in UploadChunkReq : Over(UploadChunkReqFields, m) BY <1>2 DEF UploadChunkReq, Over
  <1>5. TextFields(UploadChunkReqFields)
    BY DEF TextFields, NumberFields, UploadChunkReqFields, string, bytes, int
  <1> QED BY <1>1, <1>3, <1>4, <1>5 DEF Plain

\* The objects of UploadCompleteReq are over its fields.
LEMMA UploadCompleteReqPlain == Plain(UploadCompleteReqFields, UploadCompleteReq) /\ TextFields(UploadCompleteReqFields)
  <1>1. Distinct(UploadCompleteReqFields)
    BY DEF Distinct, UploadCompleteReqFields, string, bytes, int, ints
  <1>2. Names(UploadCompleteReqFields) = {"username", "token", "upload_id"}
    BY DEF Names, UploadCompleteReqFields, string, bytes, int, ints
  <1>3. \A i \in DOMAIN UploadCompleteReqFields : UploadCompleteReqFields[i].kind # "items"
    BY DEF UploadCompleteReqFields, string, bytes, int, ints
  <1>4. \A m \in UploadCompleteReq : Over(UploadCompleteReqFields, m) BY <1>2 DEF UploadCompleteReq, Over
  <1>5. TextFields(UploadCompleteReqFields)
    BY DEF TextFields, NumberFields, UploadCompleteReqFields, string, bytes, int
  <1> QED BY <1>1, <1>3, <1>4, <1>5 DEF Plain

\* The objects of UploadStatusReq are over its fields.
LEMMA UploadStatusReqPlain == Plain(UploadStatusReqFields, UploadStatusReq) /\ TextFields(UploadStatusReqFields)
  <1>1. Distinct(UploadStatusReqFields)
    BY DEF Distinct, UploadStatusReqFields, string, bytes, int, ints
  <1>2. Names(UploadStatusReqFields) = {"username", "token", "upload_id"}
    BY DEF Names, UploadStatusReqFields, string, bytes, int, ints
  <1>3. \A i \in DOMAIN UploadStatusReqFields : UploadStatusReqFields[i].kind # "items"
    BY DEF UploadStatusReqFields, string, bytes, int, ints
  <1>4. \A m \in UploadStatusReq : Over(UploadStatusReqFields, m) BY <1>2 DEF UploadStatusReq, Over
  <1>5. TextFields(UploadStatusReqFields)
    BY DEF TextFields, NumberFields, UploadStatusReqFields, string, bytes, int
  <1> QED BY <1>1, <1>3, <1>4, <1>5 DEF Plain

\* The objects of FileDownloadReq are over its fields.
LEMMA FileDownloadReqPlain == Plain(FileDownloadReqFields, FileDownloadReq) /\ TextFields(FileDownloadReqFields)
  <1>1. Distinct(FileDownloadReqFields)
    BY DEF Distinct, FileDownloadReqFields, string, bytes, int, ints
  <1>2. Names(FileDownloadReqFields) = {"username", "token", "filename", "file_hash"}
    BY DEF Names, FileDownloadReqFields, string, bytes, int, ints
  <1>3. \A i \in DOMAIN FileDownloadReqFields : FileDownloadReqFields[i].kind # "items"
    BY DEF FileDownloadReqFields, string, bytes, int, ints
  <1>4. \A m \in FileDownloadReq : Over(FileDownloadReqFields, m) BY <1>2 DEF FileDownloadReq, Over
  <1>5. TextFields(FileDownloadReqFields)
    BY DEF TextFields, NumberFields, FileDownloadReqFields, string, bytes, int
  <1> QED BY <1>1, <1>3, <1>4, <1>5 DEF Plain

\* The objects of FileDeleteReq are over its fields.
LEMMA FileDeleteReqPlain == Plain(FileDeleteReqFields, FileDeleteReq) /\ TextFields(FileDeleteReqFields)
  <1>1. Distinct(FileDeleteReqFields)
    BY DEF Distinct, FileDeleteReqFields, string, bytes, int, ints
  <1>2. Names(FileDeleteReqFields) = {"username", "token", "filename", "file_hash"}
    BY DEF Names, FileDeleteReqFields, string, bytes, int, ints
  <1>3. \A i \in DOMAIN FileDeleteReqFields : FileDeleteReqFields[i].kind # "items"
    BY DEF FileDeleteReqFields, string, bytes, int, ints
  <1>4. \A m \in FileDeleteReq : Over(FileDeleteReqFields, m) BY <1>2 DEF FileDeleteReq, Over
  <1>5. TextFields(FileDeleteReqFields)
    BY DEF TextFields, NumberFields, FileDeleteReqFields, string, bytes, int
  <1> QED BY <1>1, <1>3, <1>4, <1>5 DEF Plain

\* The objects of FileRenameReq are over its fields.
LEMMA FileRenameReqPlain == Plain(FileRenameReqFields, FileRenameReq) /\ TextFields(FileRenameReqFields)
  <1>1. Distinct(FileRenameReqFields)
    BY DEF Distinct, FileRenameReqFields, string, bytes, int, ints
  <1>2. Names(FileRenameReqFields) = {"username", "token", "old_filename", "new_filename", "file_hash"}
    BY DEF Names, FileRenameReqFields, string, bytes, int, ints
  <1>3. \A i \in DOMAIN FileRenameReqFields : FileRenameReqFields[i].kind # "items"
    BY DEF FileRenameReqFields, string, bytes, int, ints
  <1>4. \A m \in FileRenameReq : Over(FileRenameReqFields, m) BY <1>2 DEF FileRenameReq, Over
  <1>5. TextFields(FileRenameReqFields)
    BY DEF TextFields, NumberFields, FileRenameReqFields, string, bytes, int
  <1> QED BY <1>1, <1>3, <1>4, <1>5 DEF Plain

\* The objects of SignupResp are over its fields.
LEMMA SignupRespPlain == Plain(SignupRespFields, SignupResp)
  <1>1. Distinct(SignupRespFields)
    BY DEF Distinct, SignupRespFields, string, bytes, int, ints
  <1>2. Names(SignupRespFields) = {"code", "msg"}
    BY DEF Names, SignupRespFields, string, bytes, int, ints
  <1>3. \A i \in DOMAIN SignupRespFields : SignupRespFields[i].kind # "items"
    BY DEF SignupRespFields, string, bytes, int, ints
  <1>4. \A m \in SignupResp : Over(SignupRespFields, m) BY <1>2 DEF SignupResp, Over
  <1> QED BY <1>1, <1>3, <1>4 DEF Plain

\* The objects of SigninResp are over its fields.
LEMMA SigninRespPlain == Plain(SigninRespFields, SigninResp)
  <1>1. Distinct(SigninRespFields)
    BY DEF Distinct, SigninRespFields, string, bytes, int, ints
  <1>2. Names(SigninRespFields) = {"code", "msg", "token", "username"}
    BY DEF Names, SigninRespFields, string, bytes, int, ints
  <1>3. \A i \in DOMAIN SigninRespFields : SigninRespFields[i].kind # "items"
    BY DEF SigninRespFields, string, bytes, int, ints
  <1>4. \A m \in SigninResp : Over(SigninRespFields, m) BY <1>2 DEF SigninResp, Over
  <1> QED BY <1>1, <1>3, <1>4 DEF Plain

\* The objects of GetUserInfoResp are over its fields.
LEMMA GetUserInfoRespPlain == Plain(GetUserInfoRespFields, GetUserInfoResp)
  <1>1. Distinct(GetUserInfoRespFields)
    BY DEF Distinct, GetUserInfoRespFields, string, bytes, int, ints
  <1>2. Names(GetUserInfoRespFields) = {"code", "msg", "username", "signup_at"}
    BY DEF Names, GetUserInfoRespFields, string, bytes, int, ints
  <1>3. \A i \in DOMAIN GetUserInfoRespFields : GetUserInfoRespFields[i].kind # "items"
    BY DEF GetUserInfoRespFields, string, bytes, int, ints
  <1>4. \A m \in GetUserInfoResp : Over(GetUserInfoRespFields, m) BY <1>2 DEF GetUserInfoResp, Over
  <1> QED BY <1>1, <1>3, <1>4 DEF Plain

\* The objects of FileUploadResp are over its fields.
LEMMA FileUploadRespPlain == Plain(FileUploadRespFields, FileUploadResp)
  <1>1. Distinct(FileUploadRespFields)
    BY DEF Distinct, FileUploadRespFields, string, bytes, int, ints
  <1>2. Names(FileUploadRespFields) = {"code", "msg", "file_hash", "file_name", "file_size"}
    BY DEF Names, FileUploadRespFields, string, bytes, int, ints
  <1>3. \A i \in DOMAIN FileUploadRespFields : FileUploadRespFields[i].kind # "items"
    BY DEF FileUploadRespFields, string, bytes, int, ints
  <1>4. \A m \in FileUploadResp : Over(FileUploadRespFields, m) BY <1>2 DEF FileUploadResp, Over
  <1> QED BY <1>1, <1>3, <1>4 DEF Plain

\* The objects of UploadInitResp are over its fields.
LEMMA UploadInitRespPlain == Plain(UploadInitRespFields, UploadInitResp)
  <1>1. Distinct(UploadInitRespFields)
    BY DEF Distinct, UploadInitRespFields, string, bytes, int, ints
  <1>2. Names(UploadInitRespFields) = {"code", "msg", "upload_id", "total_chunks", "total_size"}
    BY DEF Names, UploadInitRespFields, string, bytes, int, ints
  <1>3. \A i \in DOMAIN UploadInitRespFields : UploadInitRespFields[i].kind # "items"
    BY DEF UploadInitRespFields, string, bytes, int, ints
  <1>4. \A m \in UploadInitResp : Over(UploadInitRespFields, m) BY <1>2 DEF UploadInitResp, Over
  <1> QED BY <1>1, <1>3, <1>4 DEF Plain

\* The objects of UploadChunkResp are over its fields.
LEMMA UploadChunkRespPlain == Plain(UploadChunkRespFields, UploadChunkResp)
  <1>1. Distinct(UploadChunkRespFields)
    BY DEF Distinct, UploadChunkRespFields, string, bytes, int, ints
  <1>2. Names(UploadChunkRespFields) = {"code", "msg", "upload_id", "chunk_index", "chunk_size"}
    BY DEF Names, UploadChunkRespFields, string, bytes, int, ints
  <1>3. \A i \in DOMAIN UploadChunkRespFields : UploadChunkRespFields[i].kind # "items"
    BY DEF UploadChunkRespFields, string, bytes, int, ints
  <1>4. \A m \in UploadChunkResp : Over(UploadChunkRespFields, m) BY <1>2 DEF UploadChunkResp, Over
  <1> QED BY <1>1, <1>3, <1>4 DEF Plain

\* The objects of UploadCompleteResp are over its fields.
LEMMA UploadCompleteRespPlain == Plain(UploadCompleteRespFields, UploadCompleteResp)
  <1>1. Distinct(UploadCompleteRespFields)
    BY DEF Distinct, UploadCompleteRespFields, string, bytes, int, ints
  <1>2. Names(UploadCompleteRespFields) = {"code", "msg", "file_hash", "file_name", "file_size"}
    BY DEF Names, UploadCompleteRespFields, string, bytes, int, ints
  <1>3. \A i \in DOMAIN UploadCompleteRespFields : UploadCompleteRespFields[i].kind # "items"
    BY DEF UploadCompleteRespFields, string, bytes, int, ints
  <1>4. \A m \in UploadCompleteResp : Over(UploadCompleteRespFields, m) BY <1>2 DEF UploadCompleteResp, Over
  <1> QED BY <1>1, <1>3, <1>4 DEF Plain

\* The objects of UploadStatusResp are over its fields.
LEMMA UploadStatusRespPlain == Plain(UploadStatusRespFields, UploadStatusResp)
  <1>1. Distinct(UploadStatusRespFields)
    BY DEF Distinct, UploadStatusRespFields, string, bytes, int, ints
  <1>2. Names(UploadStatusRespFields) = {"code", "msg", "upload_id", "file_name", "total_chunks", "received_chunks"}
    BY DEF Names, UploadStatusRespFields, string, bytes, int, ints
  <1>3. \A i \in DOMAIN UploadStatusRespFields : UploadStatusRespFields[i].kind # "items"
    BY DEF UploadStatusRespFields, string, bytes, int, ints
  <1>4. \A m \in UploadStatusResp : Over(UploadStatusRespFields, m) BY <1>2 DEF UploadStatusResp, Over
  <1> QED BY <1>1, <1>3, <1>4 DEF Plain

\* The objects of FileDownloadResp are over its fields.
LEMMA FileDownloadRespPlain == Plain(FileDownloadRespFields, FileDownloadResp)
  <1>1. Distinct(FileDownloadRespFields)
    BY DEF Distinct, FileDownloadRespFields, string, bytes, int, ints
  <1>2. Names(FileDownloadRespFields) = {"code", "msg", "content", "filename", "file_size"}
    BY DEF Names, FileDownloadRespFields, string, bytes, int, ints
  <1>3. \A i \in DOMAIN FileDownloadRespFields : FileDownloadRespFields[i].kind # "items"
    BY DEF FileDownloadRespFields, string, bytes, int, ints
  <1>4. \A m \in FileDownloadResp : Over(FileDownloadRespFields, m) BY <1>2 DEF FileDownloadResp, Over
  <1> QED BY <1>1, <1>3, <1>4 DEF Plain

\* The objects of FileDeleteResp are over its fields.
LEMMA FileDeleteRespPlain == Plain(FileDeleteRespFields, FileDeleteResp)
  <1>1. Distinct(FileDeleteRespFields)
    BY DEF Distinct, FileDeleteRespFields, string, bytes, int, ints
  <1>2. Names(FileDeleteRespFields) = {"code", "msg"}
    BY DEF Names, FileDeleteRespFields, string, bytes, int, ints
  <1>3. \A i \in DOMAIN FileDeleteRespFields : FileDeleteRespFields[i].kind # "items"
    BY DEF FileDeleteRespFields, string, bytes, int, ints
  <1>4. \A m \in FileDeleteResp : Over(FileDeleteRespFields, m) BY <1>2 DEF FileDeleteResp, Over
  <1> QED BY <1>1, <1>3, <1>4 DEF Plain

\* The objects of FileRenameResp are over its fields.
LEMMA FileRenameRespPlain == Plain(FileRenameRespFields, FileRenameResp)
  <1>1. Distinct(FileRenameRespFields)
    BY DEF Distinct, FileRenameRespFields, string, bytes, int, ints
  <1>2. Names(FileRenameRespFields) = {"code", "msg"}
    BY DEF Names, FileRenameRespFields, string, bytes, int, ints
  <1>3. \A i \in DOMAIN FileRenameRespFields : FileRenameRespFields[i].kind # "items"
    BY DEF FileRenameRespFields, string, bytes, int, ints
  <1>4. \A m \in FileRenameResp : Over(FileRenameRespFields, m) BY <1>2 DEF FileRenameResp, Over
  <1> QED BY <1>1, <1>3, <1>4 DEF Plain

\* The objects of CheckTokenResp are over its fields.
LEMMA CheckTokenRespPlain == Plain(CheckTokenRespFields, CheckTokenResp)
  <1>1. Distinct(CheckTokenRespFields)
    BY DEF Distinct, CheckTokenRespFields, string, bytes, int, ints
  <1>2. Names(CheckTokenRespFields) = {"code", "msg", "uid"}
    BY DEF Names, CheckTokenRespFields, string, bytes, int, ints
  <1>3. \A i \in DOMAIN CheckTokenRespFields : CheckTokenRespFields[i].kind # "items"
    BY DEF CheckTokenRespFields, string, bytes, int, ints
  <1>4. \A m \in CheckTokenResp : Over(CheckTokenRespFields, m) BY <1>2 DEF CheckTokenResp, Over
  <1> QED BY <1>1, <1>3, <1>4 DEF Plain

\* The one message with items in it.
LEMMA FileQueryRespObjects ==
  /\ Distinct(FileQueryRespFields)
  /\ \A m \in FileQueryResp : Object(FileQueryRespFields, m)
  <1>1. Distinct(FileQueryRespFields)
    BY DEF Distinct, FileQueryRespFields, string, int, items
  <1>2. Names(FileQueryRespFields) = {"code", "msg", "items"}
    BY DEF Names, FileQueryRespFields, string, int, items
  <1>3. \A i \in DOMAIN FileQueryRespFields :
          FileQueryRespFields[i].kind = "items" => FileQueryRespFields[i].name = "items"
    BY DEF FileQueryRespFields, string, int, items
  <1>4. ASSUME NEW m \in FileQueryResp PROVE Object(FileQueryRespFields, m)
    <2>1. Over(FileQueryRespFields, m) BY <1>2 DEF FileQueryResp, Over
    <2>2. m.items \in Seq(FileItem) BY DEF FileQueryResp
    <2>3. \A x \in FileItem : Over(FileItemFields, x) BY ItemNames DEF FileItem, Over
    <2>4. /\ m.items = [k \in DOMAIN m.items |-> m.items[k]]
          /\ \A k \in DOMAIN m.items : Over(FileItemFields, m.items[k])
      BY <2>2, <2>3
    <2> QED BY <1>3, <2>1, <2>4 DEF Object
  <1> QED BY <1>1, <1>4

\* The requests of all methods can be written and read.
LEMMA RequestsPlain ==
  ASSUME NEW m \in Methods
  PROVE  Plain(Method(m).req, Request[m]) /\ TextFields(Method(m).req)
  <1>1. m \in {"Signup", "Signin", "GetUserInfo", "FileQuery", "FileUpload", "UploadInit",
               "UploadChunk", "UploadComplete", "UploadStatus", "FileDownload", "FileDelete",
               "FileRename"}
    BY DEF Methods, Request
  <1>2. CASE m = "Signup"
    BY <1>2, SignupReqPlain DEF Method, UserService, FileService, Rpc, Request
  <1>3. CASE m = "Signin"
    BY <1>3, SigninReqPlain DEF Method, UserService, FileService, Rpc, Request
  <1>4. CASE m = "GetUserInfo"
    BY <1>4, GetUserInfoReqPlain DEF Method, UserService, FileService, Rpc, Request
  <1>5. CASE m = "FileQuery"
    BY <1>5, FileQueryReqPlain DEF Method, FileService, Rpc, Request
  <1>6. CASE m = "FileUpload"
    BY <1>6, FileUploadReqPlain DEF Method, FileService, Rpc, Request
  <1>7. CASE m = "UploadInit"
    BY <1>7, UploadInitReqPlain DEF Method, FileService, Rpc, Request
  <1>8. CASE m = "UploadChunk"
    BY <1>8, UploadChunkReqPlain DEF Method, FileService, Rpc, Request
  <1>9. CASE m = "UploadComplete"
    BY <1>9, UploadCompleteReqPlain DEF Method, FileService, Rpc, Request
  <1>10. CASE m = "UploadStatus"
    BY <1>10, UploadStatusReqPlain DEF Method, FileService, Rpc, Request
  <1>11. CASE m = "FileDownload"
    BY <1>11, FileDownloadReqPlain DEF Method, FileService, Rpc, Request
  <1>12. CASE m = "FileDelete"
    BY <1>12, FileDeleteReqPlain DEF Method, FileService, Rpc, Request
  <1>13. CASE m = "FileRename"
    BY <1>13, FileRenameReqPlain DEF Method, FileService, Rpc, Request
  <1> QED BY <1>1, <1>2, <1>3, <1>4, <1>5, <1>6, <1>7, <1>8, <1>9, <1>10, <1>11, <1>12, <1>13

\* So can their responses.
LEMMA ResponseObjects ==
  ASSUME NEW m \in Methods
  PROVE  /\ Distinct(Method(m).resp)
         /\ \A r \in Response[m] : Object(Method(m).resp, r)
  <1>1. m \in {"Signup", "Signin", "GetUserInfo", "FileQuery", "FileUpload", "UploadInit",
               "UploadChunk", "UploadComplete", "UploadStatus", "FileDownload", "FileDelete",
               "FileRename"}
    BY DEF Methods, Request
  <1>2. CASE m = "Signup"
    BY <1>2, SignupRespPlain DEF Method, UserService, FileService, Rpc, Response, Plain, Object
  <1>3. CASE m = "Signin"
    BY <1>3, SigninRespPlain DEF Method, UserService, FileService, Rpc, Response, Plain, Object
  <1>4. CASE m = "GetUserInfo"
    BY <1>4, GetUserInfoRespPlain DEF Method, UserService, FileService, Rpc, Response, Plain, Object
  <1>5. CASE m = "FileQuery"
    BY <1>5, FileQueryRespObjects DEF Method, FileService, Rpc, Response
  <1>6. CASE m = "FileUpload"
    BY <1>6, FileUploadRespPlain DEF Method, FileService, Rpc, Response, Plain, Object
  <1>7. CASE m = "UploadInit"
    BY <1>7, UploadInitRespPlain DEF Method, FileService, Rpc, Response, Plain, Object
  <1>8. CASE m = "UploadChunk"
    BY <1>8, UploadChunkRespPlain DEF Method, FileService, Rpc, Response, Plain, Object
  <1>9. CASE m = "UploadComplete"
    BY <1>9, UploadCompleteRespPlain DEF Method, FileService, Rpc, Response, Plain, Object
  <1>10. CASE m = "UploadStatus"
    BY <1>10, UploadStatusRespPlain DEF Method, FileService, Rpc, Response, Plain, Object
  <1>11. CASE m = "FileDownload"
    BY <1>11, FileDownloadRespPlain DEF Method, FileService, Rpc, Response, Plain, Object
  <1>12. CASE m = "FileDelete"
    BY <1>12, FileDeleteRespPlain DEF Method, FileService, Rpc, Response, Plain, Object
  <1>13. CASE m = "FileRename"
    BY <1>13, FileRenameRespPlain DEF Method, FileService, Rpc, Response, Plain, Object
  <1> QED BY <1>1, <1>2, <1>3, <1>4, <1>5, <1>6, <1>7, <1>8, <1>9, <1>10, <1>11, <1>12, <1>13

-----------------------------------------------------------------------------
(* Text on the wire. *)

\* Every text in an object is UTF-8, those of its items too.
Texts(fields, m) ==
  \A i \in DOMAIN fields :
    /\ fields[i].kind = "string" => m[fields[i].name] \in Utf8
    /\ fields[i].kind = "items" =>
         \A k \in DOMAIN m[fields[i].name], j \in DOMAIN FileItemFields :
           FileItemFields[j].kind = "string" =>
             m[fields[i].name][k][FileItemFields[j].name] \in Utf8

\* Such an object is accepted by the parser.
LEMMA TextsParse ==
  ASSUME NEW fields, NEW m, Texts(fields, m)
  PROVE  Parses(fields, Wire(fields, m))
  <1> DEFINE w == Wire(fields, m)
  <1>1. DOMAIN w = {j \in DOMAIN fields : m[fields[j].name] # DefaultOf[fields[j].kind]}
    BY DEF Wire, Serialize
  <1>2. ASSUME NEW i \in DOMAIN w
        PROVE  w[i] = IF fields[i].kind = "items"
                      THEN [k \in DOMAIN m[fields[i].name] |-> ItemWire(m[fields[i].name][k])]
                      ELSE m[fields[i].name]
    BY DEF Wire, Serialize, Written
  <1> HIDE DEF w
  <1>3. ASSUME NEW i \in DOMAIN w, fields[i].kind = "string"
        PROVE  w[i] \in Utf8
    BY <1>1, <1>2, <1>3 DEF Texts
  <1>4. ASSUME NEW i \in DOMAIN w, fields[i].kind = "items", NEW k \in DOMAIN w[i]
        PROVE  AcceptsItem(w[i][k])
    <2> DEFINE x == m[fields[i].name][k]
    <2>1. k \in DOMAIN m[fields[i].name] /\ w[i][k] = ItemWire(x) BY <1>2, <1>4
    <2>2. \A j \in DOMAIN FileItemFields :
            FileItemFields[j].kind = "string" => x[FileItemFields[j].name] \in Utf8
      BY <1>1, <1>4, <2>1 DEF Texts
    <2> HIDE DEF x
    <2>3. AcceptsItem(ItemWire(x))
      BY <2>2, ItemNames DEF AcceptsItem, Accepts, ItemWire, Serialize, Written
    <2> QED BY <2>1, <2>3
  <1>5. Parses(fields, w) BY <1>3, <1>4 DEF Parses, Accepts
  <1> QED BY <1>5 DEF w

\* What the parser accepts was text to begin with; what is not on the wire is "".
LEMMA ParsedTexts ==
  ASSUME NEW fields, NEW m, \A i \in DOMAIN fields : fields[i].kind # "items",
         Parses(fields, Wire(fields, m))
  PROVE  Texts(fields, m)
  <1> SUFFICES ASSUME NEW i \in DOMAIN fields, fields[i].kind = "string"
               PROVE  m[fields[i].name] \in Utf8
    BY DEF Texts
  <1> DEFINE w == Wire(fields, m)
  <1>1. DOMAIN w = {j \in DOMAIN fields : m[fields[j].name] # DefaultOf[fields[j].kind]}
    BY DEF Wire, Serialize
  <1>2. i \in DOMAIN w => w[i] = m[fields[i].name] BY DEF Wire, Serialize, Written
  <1>3. i \in DOMAIN w => w[i] \in Utf8 BY DEF Parses, Accepts
  <1> HIDE DEF w
  <1>4. CASE i \in DOMAIN w BY <1>2, <1>3, <1>4
  <1>5. CASE i \notin DOMAIN w
    <2>1. m[fields[i].name] = DefaultOf["string"] BY <1>1, <1>5
    <2> QED BY <2>1, TextAssumption DEF DefaultOf
  <1> QED BY <1>4, <1>5

\* With no items, it is enough that an object is over the fields.
LEMMA PlainObject ==
  ASSUME NEW fields, NEW set, Plain(fields, set), NEW m \in set
  PROVE  Object(fields, m)
  BY DEF Plain, Object

-----------------------------------------------------------------------------
(* What handlers answer. *)

\* The methods that browsers reach.
LEMMA MethodNames ==
  Methods = {"Signup", "Signin", "GetUserInfo", "FileQuery", "FileUpload", "UploadInit",
             "UploadChunk", "UploadComplete", "UploadStatus", "FileDownload", "FileDelete",
             "FileRename"}
  BY DEF Methods, Request

\* An answer of a method that the gateway can read.
Readable(m, r) == r \in Response[m] /\ r.code \in Int32 /\ Texts(Method(m).resp, r)

\* A field that nobody has set holds the default of its kind.
LEMMA ClearedAt ==
  ASSUME NEW fields, Distinct(fields)
  PROVE  /\ DOMAIN Cleared(fields) = Names(fields)
         /\ \A i \in DOMAIN fields : Cleared(fields)[fields[i].name] = DefaultOf[fields[i].kind]
  <1>1. ASSUME NEW i \in DOMAIN fields PROVE Cleared(fields)[fields[i].name] = DefaultOf[fields[i].kind]
    <2>1. fields[i].name \in Names(fields) BY DEF Names
    <2>2. Number(fields, fields[i].name) = i BY <2>1, NumberOfName DEF Distinct
    <2> QED BY <2>1, <2>2 DEF Cleared
  <1> QED BY <1>1 DEF Cleared

\* An answer of Signup that nobody has filled in.
LEMMA SignupCleared ==
  Cleared(Method("Signup").resp) =
    [code |-> 0, msg |-> ""]
  <1> DEFINE F == SignupRespFields
  <1>1. Method("Signup").resp = F BY DEF Method, UserService, FileService, Rpc
  <1>2. Distinct(F) BY SignupRespPlain DEF Plain
  <1>3. Names(F) = {"code", "msg"}
    BY DEF Names, SignupRespFields, int, string
  <1>4. DOMAIN F = 1 .. 2 BY DEF SignupRespFields
  <1>5. /\ F[1] = int("code")
        /\ F[2] = string("msg")
    BY DEF SignupRespFields
  <1> HIDE DEF F
  <1>6. /\ Cleared(F).code = 0
        /\ Cleared(F).msg = ""
    <2>1. \A i \in DOMAIN F : Cleared(F)[F[i].name] = DefaultOf[F[i].kind] BY <1>2, ClearedAt
    <2>2. /\ Cleared(F).code = DefaultOf["int"]
          /\ Cleared(F).msg = DefaultOf["string"]
      BY <1>4, <1>5, <2>1 DEF int, string
    <2> QED BY <2>2 DEF DefaultOf
  <1>7. Cleared(F) = [n \in Names(F) |-> Cleared(F)[n]] BY DEF Cleared
  <1> QED BY <1>1, <1>3, <1>6, <1>7

\* An answer of Signin that nobody has filled in.
LEMMA SigninCleared ==
  Cleared(Method("Signin").resp) =
    [code |-> 0, msg |-> "", token |-> "", username |-> ""]
  <1> DEFINE F == SigninRespFields
  <1>1. Method("Signin").resp = F BY DEF Method, UserService, FileService, Rpc
  <1>2. Distinct(F) BY SigninRespPlain DEF Plain
  <1>3. Names(F) = {"code", "msg", "token", "username"}
    BY DEF Names, SigninRespFields, int, string
  <1>4. DOMAIN F = 1 .. 4 BY DEF SigninRespFields
  <1>5. /\ F[1] = int("code")
        /\ F[2] = string("msg")
        /\ F[3] = string("token")
        /\ F[4] = string("username")
    BY DEF SigninRespFields
  <1> HIDE DEF F
  <1>6. /\ Cleared(F).code = 0
        /\ Cleared(F).msg = ""
        /\ Cleared(F).token = ""
        /\ Cleared(F).username = ""
    <2>1. \A i \in DOMAIN F : Cleared(F)[F[i].name] = DefaultOf[F[i].kind] BY <1>2, ClearedAt
    <2>2. /\ Cleared(F).code = DefaultOf["int"]
          /\ Cleared(F).msg = DefaultOf["string"]
          /\ Cleared(F).token = DefaultOf["string"]
          /\ Cleared(F).username = DefaultOf["string"]
      BY <1>4, <1>5, <2>1 DEF int, string
    <2> QED BY <2>2 DEF DefaultOf
  <1>7. Cleared(F) = [n \in Names(F) |-> Cleared(F)[n]] BY DEF Cleared
  <1> QED BY <1>1, <1>3, <1>6, <1>7

\* An answer of GetUserInfo that nobody has filled in.
LEMMA GetUserInfoCleared ==
  Cleared(Method("GetUserInfo").resp) =
    [code |-> 0, msg |-> "", username |-> "", signup_at |-> ""]
  <1> DEFINE F == GetUserInfoRespFields
  <1>1. Method("GetUserInfo").resp = F BY DEF Method, UserService, FileService, Rpc
  <1>2. Distinct(F) BY GetUserInfoRespPlain DEF Plain
  <1>3. Names(F) = {"code", "msg", "username", "signup_at"}
    BY DEF Names, GetUserInfoRespFields, int, string
  <1>4. DOMAIN F = 1 .. 4 BY DEF GetUserInfoRespFields
  <1>5. /\ F[1] = int("code")
        /\ F[2] = string("msg")
        /\ F[3] = string("username")
        /\ F[4] = string("signup_at")
    BY DEF GetUserInfoRespFields
  <1> HIDE DEF F
  <1>6. /\ Cleared(F).code = 0
        /\ Cleared(F).msg = ""
        /\ Cleared(F).username = ""
        /\ Cleared(F).signup_at = ""
    <2>1. \A i \in DOMAIN F : Cleared(F)[F[i].name] = DefaultOf[F[i].kind] BY <1>2, ClearedAt
    <2>2. /\ Cleared(F).code = DefaultOf["int"]
          /\ Cleared(F).msg = DefaultOf["string"]
          /\ Cleared(F).username = DefaultOf["string"]
          /\ Cleared(F).signup_at = DefaultOf["string"]
      BY <1>4, <1>5, <2>1 DEF int, string
    <2> QED BY <2>2 DEF DefaultOf
  <1>7. Cleared(F) = [n \in Names(F) |-> Cleared(F)[n]] BY DEF Cleared
  <1> QED BY <1>1, <1>3, <1>6, <1>7

\* An answer of FileQuery that nobody has filled in.
LEMMA FileQueryCleared ==
  Cleared(Method("FileQuery").resp) =
    [code |-> 0, msg |-> "", items |-> << >>]
  <1> DEFINE F == FileQueryRespFields
  <1>1. Method("FileQuery").resp = F BY DEF Method, FileService, Rpc
  <1>2. Distinct(F) BY FileQueryRespObjects DEF Plain
  <1>3. Names(F) = {"code", "msg", "items"}
    BY DEF Names, FileQueryRespFields, int, items, string
  <1>4. DOMAIN F = 1 .. 3 BY DEF FileQueryRespFields
  <1>5. /\ F[1] = int("code")
        /\ F[2] = string("msg")
        /\ F[3] = items("items")
    BY DEF FileQueryRespFields
  <1> HIDE DEF F
  <1>6. /\ Cleared(F).code = 0
        /\ Cleared(F).msg = ""
        /\ Cleared(F).items = << >>
    <2>1. \A i \in DOMAIN F : Cleared(F)[F[i].name] = DefaultOf[F[i].kind] BY <1>2, ClearedAt
    <2>2. /\ Cleared(F).code = DefaultOf["int"]
          /\ Cleared(F).msg = DefaultOf["string"]
          /\ Cleared(F).items = DefaultOf["items"]
      BY <1>4, <1>5, <2>1 DEF int, items, string
    <2> QED BY <2>2 DEF DefaultOf
  <1>7. Cleared(F) = [n \in Names(F) |-> Cleared(F)[n]] BY DEF Cleared
  <1> QED BY <1>1, <1>3, <1>6, <1>7

\* An answer of FileUpload that nobody has filled in.
LEMMA FileUploadCleared ==
  Cleared(Method("FileUpload").resp) =
    [code |-> 0, msg |-> "", file_hash |-> "", file_name |-> "", file_size |-> 0]
  <1> DEFINE F == FileUploadRespFields
  <1>1. Method("FileUpload").resp = F BY DEF Method, FileService, Rpc
  <1>2. Distinct(F) BY FileUploadRespPlain DEF Plain
  <1>3. Names(F) = {"code", "msg", "file_hash", "file_name", "file_size"}
    BY DEF Names, FileUploadRespFields, int, string
  <1>4. DOMAIN F = 1 .. 5 BY DEF FileUploadRespFields
  <1>5. /\ F[1] = int("code")
        /\ F[2] = string("msg")
        /\ F[3] = string("file_hash")
        /\ F[4] = string("file_name")
        /\ F[5] = int("file_size")
    BY DEF FileUploadRespFields
  <1> HIDE DEF F
  <1>6. /\ Cleared(F).code = 0
        /\ Cleared(F).msg = ""
        /\ Cleared(F).file_hash = ""
        /\ Cleared(F).file_name = ""
        /\ Cleared(F).file_size = 0
    <2>1. \A i \in DOMAIN F : Cleared(F)[F[i].name] = DefaultOf[F[i].kind] BY <1>2, ClearedAt
    <2>2. /\ Cleared(F).code = DefaultOf["int"]
          /\ Cleared(F).msg = DefaultOf["string"]
          /\ Cleared(F).file_hash = DefaultOf["string"]
          /\ Cleared(F).file_name = DefaultOf["string"]
          /\ Cleared(F).file_size = DefaultOf["int"]
      BY <1>4, <1>5, <2>1 DEF int, string
    <2> QED BY <2>2 DEF DefaultOf
  <1>7. Cleared(F) = [n \in Names(F) |-> Cleared(F)[n]] BY DEF Cleared
  <1> QED BY <1>1, <1>3, <1>6, <1>7

\* An answer of UploadInit that nobody has filled in.
LEMMA UploadInitCleared ==
  Cleared(Method("UploadInit").resp) =
    [code |-> 0, msg |-> "", upload_id |-> "", total_chunks |-> 0, total_size |-> 0]
  <1> DEFINE F == UploadInitRespFields
  <1>1. Method("UploadInit").resp = F BY DEF Method, FileService, Rpc
  <1>2. Distinct(F) BY UploadInitRespPlain DEF Plain
  <1>3. Names(F) = {"code", "msg", "upload_id", "total_chunks", "total_size"}
    BY DEF Names, UploadInitRespFields, int, string
  <1>4. DOMAIN F = 1 .. 5 BY DEF UploadInitRespFields
  <1>5. /\ F[1] = int("code")
        /\ F[2] = string("msg")
        /\ F[3] = string("upload_id")
        /\ F[4] = int("total_chunks")
        /\ F[5] = int("total_size")
    BY DEF UploadInitRespFields
  <1> HIDE DEF F
  <1>6. /\ Cleared(F).code = 0
        /\ Cleared(F).msg = ""
        /\ Cleared(F).upload_id = ""
        /\ Cleared(F).total_chunks = 0
        /\ Cleared(F).total_size = 0
    <2>1. \A i \in DOMAIN F : Cleared(F)[F[i].name] = DefaultOf[F[i].kind] BY <1>2, ClearedAt
    <2>2. /\ Cleared(F).code = DefaultOf["int"]
          /\ Cleared(F).msg = DefaultOf["string"]
          /\ Cleared(F).upload_id = DefaultOf["string"]
          /\ Cleared(F).total_chunks = DefaultOf["int"]
          /\ Cleared(F).total_size = DefaultOf["int"]
      BY <1>4, <1>5, <2>1 DEF int, string
    <2> QED BY <2>2 DEF DefaultOf
  <1>7. Cleared(F) = [n \in Names(F) |-> Cleared(F)[n]] BY DEF Cleared
  <1> QED BY <1>1, <1>3, <1>6, <1>7

\* An answer of UploadChunk that nobody has filled in.
LEMMA UploadChunkCleared ==
  Cleared(Method("UploadChunk").resp) =
    [code |-> 0, msg |-> "", upload_id |-> "", chunk_index |-> 0, chunk_size |-> 0]
  <1> DEFINE F == UploadChunkRespFields
  <1>1. Method("UploadChunk").resp = F BY DEF Method, FileService, Rpc
  <1>2. Distinct(F) BY UploadChunkRespPlain DEF Plain
  <1>3. Names(F) = {"code", "msg", "upload_id", "chunk_index", "chunk_size"}
    BY DEF Names, UploadChunkRespFields, int, string
  <1>4. DOMAIN F = 1 .. 5 BY DEF UploadChunkRespFields
  <1>5. /\ F[1] = int("code")
        /\ F[2] = string("msg")
        /\ F[3] = string("upload_id")
        /\ F[4] = int("chunk_index")
        /\ F[5] = int("chunk_size")
    BY DEF UploadChunkRespFields
  <1> HIDE DEF F
  <1>6. /\ Cleared(F).code = 0
        /\ Cleared(F).msg = ""
        /\ Cleared(F).upload_id = ""
        /\ Cleared(F).chunk_index = 0
        /\ Cleared(F).chunk_size = 0
    <2>1. \A i \in DOMAIN F : Cleared(F)[F[i].name] = DefaultOf[F[i].kind] BY <1>2, ClearedAt
    <2>2. /\ Cleared(F).code = DefaultOf["int"]
          /\ Cleared(F).msg = DefaultOf["string"]
          /\ Cleared(F).upload_id = DefaultOf["string"]
          /\ Cleared(F).chunk_index = DefaultOf["int"]
          /\ Cleared(F).chunk_size = DefaultOf["int"]
      BY <1>4, <1>5, <2>1 DEF int, string
    <2> QED BY <2>2 DEF DefaultOf
  <1>7. Cleared(F) = [n \in Names(F) |-> Cleared(F)[n]] BY DEF Cleared
  <1> QED BY <1>1, <1>3, <1>6, <1>7

\* An answer of UploadComplete that nobody has filled in.
LEMMA UploadCompleteCleared ==
  Cleared(Method("UploadComplete").resp) =
    [code |-> 0, msg |-> "", file_hash |-> "", file_name |-> "", file_size |-> 0]
  <1> DEFINE F == UploadCompleteRespFields
  <1>1. Method("UploadComplete").resp = F BY DEF Method, FileService, Rpc
  <1>2. Distinct(F) BY UploadCompleteRespPlain DEF Plain
  <1>3. Names(F) = {"code", "msg", "file_hash", "file_name", "file_size"}
    BY DEF Names, UploadCompleteRespFields, int, string
  <1>4. DOMAIN F = 1 .. 5 BY DEF UploadCompleteRespFields
  <1>5. /\ F[1] = int("code")
        /\ F[2] = string("msg")
        /\ F[3] = string("file_hash")
        /\ F[4] = string("file_name")
        /\ F[5] = int("file_size")
    BY DEF UploadCompleteRespFields
  <1> HIDE DEF F
  <1>6. /\ Cleared(F).code = 0
        /\ Cleared(F).msg = ""
        /\ Cleared(F).file_hash = ""
        /\ Cleared(F).file_name = ""
        /\ Cleared(F).file_size = 0
    <2>1. \A i \in DOMAIN F : Cleared(F)[F[i].name] = DefaultOf[F[i].kind] BY <1>2, ClearedAt
    <2>2. /\ Cleared(F).code = DefaultOf["int"]
          /\ Cleared(F).msg = DefaultOf["string"]
          /\ Cleared(F).file_hash = DefaultOf["string"]
          /\ Cleared(F).file_name = DefaultOf["string"]
          /\ Cleared(F).file_size = DefaultOf["int"]
      BY <1>4, <1>5, <2>1 DEF int, string
    <2> QED BY <2>2 DEF DefaultOf
  <1>7. Cleared(F) = [n \in Names(F) |-> Cleared(F)[n]] BY DEF Cleared
  <1> QED BY <1>1, <1>3, <1>6, <1>7

\* An answer of UploadStatus that nobody has filled in.
LEMMA UploadStatusCleared ==
  Cleared(Method("UploadStatus").resp) =
    [code |-> 0, msg |-> "", upload_id |-> "", file_name |-> "", total_chunks |-> 0, received_chunks |-> << >>]
  <1> DEFINE F == UploadStatusRespFields
  <1>1. Method("UploadStatus").resp = F BY DEF Method, FileService, Rpc
  <1>2. Distinct(F) BY UploadStatusRespPlain DEF Plain
  <1>3. Names(F) = {"code", "msg", "upload_id", "file_name", "total_chunks", "received_chunks"}
    BY DEF Names, UploadStatusRespFields, int, ints, string
  <1>4. DOMAIN F = 1 .. 6 BY DEF UploadStatusRespFields
  <1>5. /\ F[1] = int("code")
        /\ F[2] = string("msg")
        /\ F[3] = string("upload_id")
        /\ F[4] = string("file_name")
        /\ F[5] = int("total_chunks")
        /\ F[6] = ints("received_chunks")
    BY DEF UploadStatusRespFields
  <1> HIDE DEF F
  <1>6. /\ Cleared(F).code = 0
        /\ Cleared(F).msg = ""
        /\ Cleared(F).upload_id = ""
        /\ Cleared(F).file_name = ""
        /\ Cleared(F).total_chunks = 0
        /\ Cleared(F).received_chunks = << >>
    <2>1. \A i \in DOMAIN F : Cleared(F)[F[i].name] = DefaultOf[F[i].kind] BY <1>2, ClearedAt
    <2>2. /\ Cleared(F).code = DefaultOf["int"]
          /\ Cleared(F).msg = DefaultOf["string"]
          /\ Cleared(F).upload_id = DefaultOf["string"]
          /\ Cleared(F).file_name = DefaultOf["string"]
          /\ Cleared(F).total_chunks = DefaultOf["int"]
          /\ Cleared(F).received_chunks = DefaultOf["ints"]
      BY <1>4, <1>5, <2>1 DEF int, ints, string
    <2> QED BY <2>2 DEF DefaultOf
  <1>7. Cleared(F) = [n \in Names(F) |-> Cleared(F)[n]] BY DEF Cleared
  <1> QED BY <1>1, <1>3, <1>6, <1>7

\* An answer of FileDownload that nobody has filled in.
LEMMA FileDownloadCleared ==
  Cleared(Method("FileDownload").resp) =
    [code |-> 0, msg |-> "", content |-> "", filename |-> "", file_size |-> 0]
  <1> DEFINE F == FileDownloadRespFields
  <1>1. Method("FileDownload").resp = F BY DEF Method, FileService, Rpc
  <1>2. Distinct(F) BY FileDownloadRespPlain DEF Plain
  <1>3. Names(F) = {"code", "msg", "content", "filename", "file_size"}
    BY DEF Names, FileDownloadRespFields, bytes, int, string
  <1>4. DOMAIN F = 1 .. 5 BY DEF FileDownloadRespFields
  <1>5. /\ F[1] = int("code")
        /\ F[2] = string("msg")
        /\ F[3] = bytes("content")
        /\ F[4] = string("filename")
        /\ F[5] = int("file_size")
    BY DEF FileDownloadRespFields
  <1> HIDE DEF F
  <1>6. /\ Cleared(F).code = 0
        /\ Cleared(F).msg = ""
        /\ Cleared(F).content = ""
        /\ Cleared(F).filename = ""
        /\ Cleared(F).file_size = 0
    <2>1. \A i \in DOMAIN F : Cleared(F)[F[i].name] = DefaultOf[F[i].kind] BY <1>2, ClearedAt
    <2>2. /\ Cleared(F).code = DefaultOf["int"]
          /\ Cleared(F).msg = DefaultOf["string"]
          /\ Cleared(F).content = DefaultOf["bytes"]
          /\ Cleared(F).filename = DefaultOf["string"]
          /\ Cleared(F).file_size = DefaultOf["int"]
      BY <1>4, <1>5, <2>1 DEF bytes, int, string
    <2> QED BY <2>2 DEF DefaultOf
  <1>7. Cleared(F) = [n \in Names(F) |-> Cleared(F)[n]] BY DEF Cleared
  <1> QED BY <1>1, <1>3, <1>6, <1>7

\* An answer of FileDelete that nobody has filled in.
LEMMA FileDeleteCleared ==
  Cleared(Method("FileDelete").resp) =
    [code |-> 0, msg |-> ""]
  <1> DEFINE F == FileDeleteRespFields
  <1>1. Method("FileDelete").resp = F BY DEF Method, FileService, Rpc
  <1>2. Distinct(F) BY FileDeleteRespPlain DEF Plain
  <1>3. Names(F) = {"code", "msg"}
    BY DEF Names, FileDeleteRespFields, int, string
  <1>4. DOMAIN F = 1 .. 2 BY DEF FileDeleteRespFields
  <1>5. /\ F[1] = int("code")
        /\ F[2] = string("msg")
    BY DEF FileDeleteRespFields
  <1> HIDE DEF F
  <1>6. /\ Cleared(F).code = 0
        /\ Cleared(F).msg = ""
    <2>1. \A i \in DOMAIN F : Cleared(F)[F[i].name] = DefaultOf[F[i].kind] BY <1>2, ClearedAt
    <2>2. /\ Cleared(F).code = DefaultOf["int"]
          /\ Cleared(F).msg = DefaultOf["string"]
      BY <1>4, <1>5, <2>1 DEF int, string
    <2> QED BY <2>2 DEF DefaultOf
  <1>7. Cleared(F) = [n \in Names(F) |-> Cleared(F)[n]] BY DEF Cleared
  <1> QED BY <1>1, <1>3, <1>6, <1>7

\* An answer of FileRename that nobody has filled in.
LEMMA FileRenameCleared ==
  Cleared(Method("FileRename").resp) =
    [code |-> 0, msg |-> ""]
  <1> DEFINE F == FileRenameRespFields
  <1>1. Method("FileRename").resp = F BY DEF Method, FileService, Rpc
  <1>2. Distinct(F) BY FileRenameRespPlain DEF Plain
  <1>3. Names(F) = {"code", "msg"}
    BY DEF Names, FileRenameRespFields, int, string
  <1>4. DOMAIN F = 1 .. 2 BY DEF FileRenameRespFields
  <1>5. /\ F[1] = int("code")
        /\ F[2] = string("msg")
    BY DEF FileRenameRespFields
  <1> HIDE DEF F
  <1>6. /\ Cleared(F).code = 0
        /\ Cleared(F).msg = ""
    <2>1. \A i \in DOMAIN F : Cleared(F)[F[i].name] = DefaultOf[F[i].kind] BY <1>2, ClearedAt
    <2>2. /\ Cleared(F).code = DefaultOf["int"]
          /\ Cleared(F).msg = DefaultOf["string"]
      BY <1>4, <1>5, <2>1 DEF int, string
    <2> QED BY <2>2 DEF DefaultOf
  <1>7. Cleared(F) = [n \in Names(F) |-> Cleared(F)[n]] BY DEF Cleared
  <1> QED BY <1>1, <1>3, <1>6, <1>7

\* An answer of CheckToken that nobody has filled in.
LEMMA CheckTokenCleared ==
  Cleared(Method("CheckToken").resp) =
    [code |-> 0, msg |-> "", uid |-> 0]
  <1> DEFINE F == CheckTokenRespFields
  <1>1. Method("CheckToken").resp = F BY DEF Method, UserService, FileService, Rpc
  <1>2. Distinct(F) BY CheckTokenRespPlain DEF Plain
  <1>3. Names(F) = {"code", "msg", "uid"}
    BY DEF Names, CheckTokenRespFields, int, string
  <1>4. DOMAIN F = 1 .. 3 BY DEF CheckTokenRespFields
  <1>5. /\ F[1] = int("code")
        /\ F[2] = string("msg")
        /\ F[3] = int("uid")
    BY DEF CheckTokenRespFields
  <1> HIDE DEF F
  <1>6. /\ Cleared(F).code = 0
        /\ Cleared(F).msg = ""
        /\ Cleared(F).uid = 0
    <2>1. \A i \in DOMAIN F : Cleared(F)[F[i].name] = DefaultOf[F[i].kind] BY <1>2, ClearedAt
    <2>2. /\ Cleared(F).code = DefaultOf["int"]
          /\ Cleared(F).msg = DefaultOf["string"]
          /\ Cleared(F).uid = DefaultOf["int"]
      BY <1>4, <1>5, <2>1 DEF int, string
    <2> QED BY <2>2 DEF DefaultOf
  <1>7. Cleared(F) = [n \in Names(F) |-> Cleared(F)[n]] BY DEF Cleared
  <1> QED BY <1>1, <1>3, <1>6, <1>7

\* The values that answers are made of.
LEMMA Values ==
  /\ "" \in Utf8 /\ "SUCCESS" \in Utf8 /\ "" \in Blobs
  /\ 0 \in Int32 /\ 1 \in Int32 /\ 0 \in Int64
  /\ << >> \in Seq(Int32) /\ <<0>> \in Seq(Int32) /\ <<0, 1>> \in Seq(Int32)
  <1>1. "" \in Utf8 /\ "SUCCESS" \in Utf8 /\ "" \in Blobs BY TextAssumption
  <1>2. 0 \in Int32 /\ 1 \in Int32 /\ 0 \in Int64 BY IntAssumption
  <1>3. << >> \in Seq(Int32) OBVIOUS
  <1>4. <<0>> \in Seq(Int32) BY <1>2
  <1>5. <<0, 1>> \in Seq(Int32) BY <1>2
  <1> QED BY <1>1, <1>2, <1>3, <1>4, <1>5

\* What is said of the answers of a method to a request.
Answers(m, q) ==
  /\ \A t \in Utf8 : Readable(m, Failed(m, t)) /\ Failed(m, t).code = 1
  /\ \A r \in Succeeds(m, q) : Readable(m, r)

\* What Signup answers can be read, and its failures are not code 0.
LEMMA SignupAnswers ==
  ASSUME NEW q \in SignupReq, Texts(SignupReqFields, q)
  PROVE  Answers("Signup", q)
  <1> DEFINE R == [code : Int32, msg : Utf8]
             C == Cleared(Method("Signup").resp)
  <1>1. ASSUME NEW r \in R PROVE Readable("Signup", r)
    <2>1. r \in SignupResp BY TextAssumption DEF SignupResp
    <2>2. Texts(SignupRespFields, r) BY DEF Texts, SignupRespFields, int, string
    <2>3. Method("Signup").resp = SignupRespFields BY DEF Method, UserService, FileService, Rpc
    <2>4. Response["Signup"] = SignupResp BY DEF Response
    <2>5. r.code \in Int32 OBVIOUS
    <2> QED BY <2>1, <2>2, <2>3, <2>4, <2>5 DEF Readable
  <1>2. C \in R
    <2>1. C = [code |-> 0, msg |-> ""] BY SignupCleared
    <2> HIDE DEF C
    <2> QED BY <2>1, Values
  <1>3. ASSUME NEW t \in Utf8 PROVE Failed("Signup", t) \in R /\ Failed("Signup", t).code = 1
    <2>1. Failed("Signup", t) = [C EXCEPT !.code = 1, !.msg = t] BY DEF Failed
    <2> HIDE DEF C
    <2> QED BY <1>2, <2>1, Values
  <1>4. Ok("Signup") \in R
    <2>1. Ok("Signup") = [C EXCEPT !.msg = "SUCCESS"] BY DEF Ok
    <2> HIDE DEF C
    <2> QED BY <1>2, <2>1, Values
  <1>5. Succeeds("Signup", q) = {Ok("Signup")} BY DEF Succeeds
  <1> QED BY <1>1, <1>3, <1>4, <1>5 DEF Answers

\* What Signin answers can be read, and its failures are not code 0.
LEMMA SigninAnswers ==
  ASSUME NEW q \in SigninReq, Texts(SigninReqFields, q)
  PROVE  Answers("Signin", q)
  <1> DEFINE R == [code : Int32, msg : Utf8, token : Utf8, username : Utf8]
             C == Cleared(Method("Signin").resp)
  <1>1. ASSUME NEW r \in R PROVE Readable("Signin", r)
    <2>1. r \in SigninResp BY TextAssumption DEF SigninResp
    <2>2. Texts(SigninRespFields, r) BY DEF Texts, SigninRespFields, int, string
    <2>3. Method("Signin").resp = SigninRespFields BY DEF Method, UserService, FileService, Rpc
    <2>4. Response["Signin"] = SigninResp BY DEF Response
    <2>5. r.code \in Int32 OBVIOUS
    <2> QED BY <2>1, <2>2, <2>3, <2>4, <2>5 DEF Readable
  <1>2. C \in R
    <2>1. C = [code |-> 0, msg |-> "", token |-> "", username |-> ""] BY SigninCleared
    <2> HIDE DEF C
    <2> QED BY <2>1, Values
  <1>3. ASSUME NEW t \in Utf8 PROVE Failed("Signin", t) \in R /\ Failed("Signin", t).code = 1
    <2>1. Failed("Signin", t) = [C EXCEPT !.code = 1, !.msg = t] BY DEF Failed
    <2> HIDE DEF C
    <2> QED BY <1>2, <2>1, Values
  <1>5. q.username \in Utf8
    BY DEF SigninReq, Texts, SigninReqFields, string, int
  <1>6. Succeeds("Signin", q) = signinOk(q) BY DEF Succeeds
  <1>7. ASSUME NEW r \in signinOk(q) PROVE r \in R
    BY <1>5, Values DEF signinOk
  <1> QED BY <1>1, <1>3, <1>6, <1>7 DEF Answers

\* What GetUserInfo answers can be read, and its failures are not code 0.
LEMMA GetUserInfoAnswers ==
  ASSUME NEW q \in GetUserInfoReq, Texts(GetUserInfoReqFields, q)
  PROVE  Answers("GetUserInfo", q)
  <1> DEFINE R == [code : Int32, msg : Utf8, username : Utf8, signup_at : Utf8]
             C == Cleared(Method("GetUserInfo").resp)
  <1>1. ASSUME NEW r \in R PROVE Readable("GetUserInfo", r)
    <2>1. r \in GetUserInfoResp BY TextAssumption DEF GetUserInfoResp
    <2>2. Texts(GetUserInfoRespFields, r) BY DEF Texts, GetUserInfoRespFields, int, string
    <2>3. Method("GetUserInfo").resp = GetUserInfoRespFields BY DEF Method, UserService, FileService, Rpc
    <2>4. Response["GetUserInfo"] = GetUserInfoResp BY DEF Response
    <2>5. r.code \in Int32 OBVIOUS
    <2> QED BY <2>1, <2>2, <2>3, <2>4, <2>5 DEF Readable
  <1>2. C \in R
    <2>1. C = [code |-> 0, msg |-> "", username |-> "", signup_at |-> ""] BY GetUserInfoCleared
    <2> HIDE DEF C
    <2> QED BY <2>1, Values
  <1>3. ASSUME NEW t \in Utf8 PROVE Failed("GetUserInfo", t) \in R /\ Failed("GetUserInfo", t).code = 1
    <2>1. Failed("GetUserInfo", t) = [C EXCEPT !.code = 1, !.msg = t] BY DEF Failed
    <2> HIDE DEF C
    <2> QED BY <1>2, <2>1, Values
  <1>5. q.username \in Utf8
    BY DEF GetUserInfoReq, Texts, GetUserInfoReqFields, string, int
  <1>6. Succeeds("GetUserInfo", q) = getUserInfoOk(q) BY DEF Succeeds
  <1>7. ASSUME NEW r \in getUserInfoOk(q) PROVE r \in R
    BY <1>5, Values DEF getUserInfoOk
  <1> QED BY <1>1, <1>3, <1>6, <1>7 DEF Answers

\* What FileUpload answers can be read, and its failures are not code 0.
LEMMA FileUploadAnswers ==
  ASSUME NEW q \in FileUploadReq, Texts(FileUploadReqFields, q)
  PROVE  Answers("FileUpload", q)
  <1> DEFINE R == [code : Int32, msg : Utf8, file_hash : Utf8, file_name : Utf8, file_size : Int64]
             C == Cleared(Method("FileUpload").resp)
  <1>1. ASSUME NEW r \in R PROVE Readable("FileUpload", r)
    <2>1. r \in FileUploadResp BY TextAssumption DEF FileUploadResp
    <2>2. Texts(FileUploadRespFields, r) BY DEF Texts, FileUploadRespFields, int, string
    <2>3. Method("FileUpload").resp = FileUploadRespFields BY DEF Method, FileService, Rpc
    <2>4. Response["FileUpload"] = FileUploadResp BY DEF Response
    <2>5. r.code \in Int32 OBVIOUS
    <2> QED BY <2>1, <2>2, <2>3, <2>4, <2>5 DEF Readable
  <1>2. C \in R
    <2>1. C = [code |-> 0, msg |-> "", file_hash |-> "", file_name |-> "", file_size |-> 0] BY FileUploadCleared
    <2> HIDE DEF C
    <2> QED BY <2>1, Values
  <1>3. ASSUME NEW t \in Utf8 PROVE Failed("FileUpload", t) \in R /\ Failed("FileUpload", t).code = 1
    <2>1. Failed("FileUpload", t) = [C EXCEPT !.code = 1, !.msg = t] BY DEF Failed
    <2> HIDE DEF C
    <2> QED BY <1>2, <2>1, Values
  <1>5. q.filename \in Utf8
    BY DEF FileUploadReq, Texts, FileUploadReqFields, string, int, bytes
  <1>6. Succeeds("FileUpload", q) = fileUploadOk(q) BY DEF Succeeds
  <1>7. ASSUME NEW r \in fileUploadOk(q) PROVE r \in R
    BY <1>5, Values DEF fileUploadOk
  <1> QED BY <1>1, <1>3, <1>6, <1>7 DEF Answers

\* What UploadInit answers can be read, and its failures are not code 0.
LEMMA UploadInitAnswers ==
  ASSUME NEW q \in UploadInitReq, Texts(UploadInitReqFields, q)
  PROVE  Answers("UploadInit", q)
  <1> DEFINE R == [code : Int32, msg : Utf8, upload_id : Utf8, total_chunks : Int32, total_size : Int64]
             C == Cleared(Method("UploadInit").resp)
  <1>1. ASSUME NEW r \in R PROVE Readable("UploadInit", r)
    <2>1. r \in UploadInitResp BY TextAssumption DEF UploadInitResp
    <2>2. Texts(UploadInitRespFields, r) BY DEF Texts, UploadInitRespFields, int, string
    <2>3. Method("UploadInit").resp = UploadInitRespFields BY DEF Method, FileService, Rpc
    <2>4. Response["UploadInit"] = UploadInitResp BY DEF Response
    <2>5. r.code \in Int32 OBVIOUS
    <2> QED BY <2>1, <2>2, <2>3, <2>4, <2>5 DEF Readable
  <1>2. C \in R
    <2>1. C = [code |-> 0, msg |-> "", upload_id |-> "", total_chunks |-> 0, total_size |-> 0] BY UploadInitCleared
    <2> HIDE DEF C
    <2> QED BY <2>1, Values
  <1>3. ASSUME NEW t \in Utf8 PROVE Failed("UploadInit", t) \in R /\ Failed("UploadInit", t).code = 1
    <2>1. Failed("UploadInit", t) = [C EXCEPT !.code = 1, !.msg = t] BY DEF Failed
    <2> HIDE DEF C
    <2> QED BY <1>2, <2>1, Values
  <1>5. q.total_chunks \in Int32 /\ q.total_size \in Int64
    BY DEF UploadInitReq, Texts, UploadInitReqFields, string, int
  <1>6. Succeeds("UploadInit", q) = uploadInitOk(q) BY DEF Succeeds
  <1>7. ASSUME NEW r \in uploadInitOk(q) PROVE r \in R
    BY <1>5, Values DEF uploadInitOk
  <1> QED BY <1>1, <1>3, <1>6, <1>7 DEF Answers

\* What UploadChunk answers can be read, and its failures are not code 0.
LEMMA UploadChunkAnswers ==
  ASSUME NEW q \in UploadChunkReq, Texts(UploadChunkReqFields, q)
  PROVE  Answers("UploadChunk", q)
  <1> DEFINE R == [code : Int32, msg : Utf8, upload_id : Utf8, chunk_index : Int32, chunk_size : Int64]
             C == Cleared(Method("UploadChunk").resp)
  <1>1. ASSUME NEW r \in R PROVE Readable("UploadChunk", r)
    <2>1. r \in UploadChunkResp BY TextAssumption DEF UploadChunkResp
    <2>2. Texts(UploadChunkRespFields, r) BY DEF Texts, UploadChunkRespFields, int, string
    <2>3. Method("UploadChunk").resp = UploadChunkRespFields BY DEF Method, FileService, Rpc
    <2>4. Response["UploadChunk"] = UploadChunkResp BY DEF Response
    <2>5. r.code \in Int32 OBVIOUS
    <2> QED BY <2>1, <2>2, <2>3, <2>4, <2>5 DEF Readable
  <1>2. C \in R
    <2>1. C = [code |-> 0, msg |-> "", upload_id |-> "", chunk_index |-> 0, chunk_size |-> 0] BY UploadChunkCleared
    <2> HIDE DEF C
    <2> QED BY <2>1, Values
  <1>3. ASSUME NEW t \in Utf8 PROVE Failed("UploadChunk", t) \in R /\ Failed("UploadChunk", t).code = 1
    <2>1. Failed("UploadChunk", t) = [C EXCEPT !.code = 1, !.msg = t] BY DEF Failed
    <2> HIDE DEF C
    <2> QED BY <1>2, <2>1, Values
  <1>5. q.upload_id \in Utf8 /\ q.chunk_index \in Int32
    BY DEF UploadChunkReq, Texts, UploadChunkReqFields, string, int, bytes
  <1>6. Succeeds("UploadChunk", q) = uploadChunkOk(q) BY DEF Succeeds
  <1>7. ASSUME NEW r \in uploadChunkOk(q) PROVE r \in R
    BY <1>5, Values DEF uploadChunkOk
  <1> QED BY <1>1, <1>3, <1>6, <1>7 DEF Answers

\* What UploadComplete answers can be read, and its failures are not code 0.
LEMMA UploadCompleteAnswers ==
  ASSUME NEW q \in UploadCompleteReq, Texts(UploadCompleteReqFields, q)
  PROVE  Answers("UploadComplete", q)
  <1> DEFINE R == [code : Int32, msg : Utf8, file_hash : Utf8, file_name : Utf8, file_size : Int64]
             C == Cleared(Method("UploadComplete").resp)
  <1>1. ASSUME NEW r \in R PROVE Readable("UploadComplete", r)
    <2>1. r \in UploadCompleteResp BY TextAssumption DEF UploadCompleteResp
    <2>2. Texts(UploadCompleteRespFields, r) BY DEF Texts, UploadCompleteRespFields, int, string
    <2>3. Method("UploadComplete").resp = UploadCompleteRespFields BY DEF Method, FileService, Rpc
    <2>4. Response["UploadComplete"] = UploadCompleteResp BY DEF Response
    <2>5. r.code \in Int32 OBVIOUS
    <2> QED BY <2>1, <2>2, <2>3, <2>4, <2>5 DEF Readable
  <1>2. C \in R
    <2>1. C = [code |-> 0, msg |-> "", file_hash |-> "", file_name |-> "", file_size |-> 0] BY UploadCompleteCleared
    <2> HIDE DEF C
    <2> QED BY <2>1, Values
  <1>3. ASSUME NEW t \in Utf8 PROVE Failed("UploadComplete", t) \in R /\ Failed("UploadComplete", t).code = 1
    <2>1. Failed("UploadComplete", t) = [C EXCEPT !.code = 1, !.msg = t] BY DEF Failed
    <2> HIDE DEF C
    <2> QED BY <1>2, <2>1, Values
  <1>6. Succeeds("UploadComplete", q) = uploadCompleteOk BY DEF Succeeds
  <1>7. ASSUME NEW r \in uploadCompleteOk PROVE r \in R
    BY Values DEF uploadCompleteOk
  <1> QED BY <1>1, <1>3, <1>6, <1>7 DEF Answers

\* What UploadStatus answers can be read, and its failures are not code 0.
LEMMA UploadStatusAnswers ==
  ASSUME NEW q \in UploadStatusReq, Texts(UploadStatusReqFields, q)
  PROVE  Answers("UploadStatus", q)
  <1> DEFINE R == [code : Int32, msg : Utf8, upload_id : Utf8, file_name : Utf8, total_chunks : Int32, received_chunks : Seq(Int32)]
             C == Cleared(Method("UploadStatus").resp)
  <1>1. ASSUME NEW r \in R PROVE Readable("UploadStatus", r)
    <2>1. r \in UploadStatusResp BY TextAssumption DEF UploadStatusResp
    <2>2. Texts(UploadStatusRespFields, r) BY DEF Texts, UploadStatusRespFields, int, ints, string
    <2>3. Method("UploadStatus").resp = UploadStatusRespFields BY DEF Method, FileService, Rpc
    <2>4. Response["UploadStatus"] = UploadStatusResp BY DEF Response
    <2>5. r.code \in Int32 OBVIOUS
    <2> QED BY <2>1, <2>2, <2>3, <2>4, <2>5 DEF Readable
  <1>2. C \in R
    <2>1. C = [code |-> 0, msg |-> "", upload_id |-> "", file_name |-> "", total_chunks |-> 0, received_chunks |-> << >>] BY UploadStatusCleared
    <2> HIDE DEF C
    <2> QED BY <2>1, Values
  <1>3. ASSUME NEW t \in Utf8 PROVE Failed("UploadStatus", t) \in R /\ Failed("UploadStatus", t).code = 1
    <2>1. Failed("UploadStatus", t) = [C EXCEPT !.code = 1, !.msg = t] BY DEF Failed
    <2> HIDE DEF C
    <2> QED BY <1>2, <2>1, Values
  <1>5. q.upload_id \in Utf8
    BY DEF UploadStatusReq, Texts, UploadStatusReqFields, string, int
  <1>6. Succeeds("UploadStatus", q) = uploadStatusOk(q) BY DEF Succeeds
  <1>7. ASSUME NEW r \in uploadStatusOk(q) PROVE r \in R
    BY <1>5, Values DEF uploadStatusOk
  <1> QED BY <1>1, <1>3, <1>6, <1>7 DEF Answers

\* What FileDownload answers can be read, and its failures are not code 0.
LEMMA FileDownloadAnswers ==
  ASSUME NEW q \in FileDownloadReq, Texts(FileDownloadReqFields, q)
  PROVE  Answers("FileDownload", q)
  <1> DEFINE R == [code : Int32, msg : Utf8, content : Blobs, filename : Utf8, file_size : Int64]
             C == Cleared(Method("FileDownload").resp)
  <1>1. ASSUME NEW r \in R PROVE Readable("FileDownload", r)
    <2>1. r \in FileDownloadResp BY TextAssumption DEF FileDownloadResp
    <2>2. Texts(FileDownloadRespFields, r) BY DEF Texts, FileDownloadRespFields, bytes, int, string
    <2>3. Method("FileDownload").resp = FileDownloadRespFields BY DEF Method, FileService, Rpc
    <2>4. Response["FileDownload"] = FileDownloadResp BY DEF Response
    <2>5. r.code \in Int32 OBVIOUS
    <2> QED BY <2>1, <2>2, <2>3, <2>4, <2>5 DEF Readable
  <1>2. C \in R
    <2>1. C = [code |-> 0, msg |-> "", content |-> "", filename |-> "", file_size |-> 0] BY FileDownloadCleared
    <2> HIDE DEF C
    <2> QED BY <2>1, Values
  <1>3. ASSUME NEW t \in Utf8 PROVE Failed("FileDownload", t) \in R /\ Failed("FileDownload", t).code = 1
    <2>1. Failed("FileDownload", t) = [C EXCEPT !.code = 1, !.msg = t] BY DEF Failed
    <2> HIDE DEF C
    <2> QED BY <1>2, <2>1, Values
  <1>5. q.filename \in Utf8
    BY DEF FileDownloadReq, Texts, FileDownloadReqFields, string, int
  <1>6. Succeeds("FileDownload", q) = fileDownloadOk(q) BY DEF Succeeds
  <1>7. ASSUME NEW r \in fileDownloadOk(q) PROVE r \in R
    BY <1>5, Values DEF fileDownloadOk
  <1> QED BY <1>1, <1>3, <1>6, <1>7 DEF Answers

\* What FileDelete answers can be read, and its failures are not code 0.
LEMMA FileDeleteAnswers ==
  ASSUME NEW q \in FileDeleteReq, Texts(FileDeleteReqFields, q)
  PROVE  Answers("FileDelete", q)
  <1> DEFINE R == [code : Int32, msg : Utf8]
             C == Cleared(Method("FileDelete").resp)
  <1>1. ASSUME NEW r \in R PROVE Readable("FileDelete", r)
    <2>1. r \in FileDeleteResp BY TextAssumption DEF FileDeleteResp
    <2>2. Texts(FileDeleteRespFields, r) BY DEF Texts, FileDeleteRespFields, int, string
    <2>3. Method("FileDelete").resp = FileDeleteRespFields BY DEF Method, FileService, Rpc
    <2>4. Response["FileDelete"] = FileDeleteResp BY DEF Response
    <2>5. r.code \in Int32 OBVIOUS
    <2> QED BY <2>1, <2>2, <2>3, <2>4, <2>5 DEF Readable
  <1>2. C \in R
    <2>1. C = [code |-> 0, msg |-> ""] BY FileDeleteCleared
    <2> HIDE DEF C
    <2> QED BY <2>1, Values
  <1>3. ASSUME NEW t \in Utf8 PROVE Failed("FileDelete", t) \in R /\ Failed("FileDelete", t).code = 1
    <2>1. Failed("FileDelete", t) = [C EXCEPT !.code = 1, !.msg = t] BY DEF Failed
    <2> HIDE DEF C
    <2> QED BY <1>2, <2>1, Values
  <1>4. Ok("FileDelete") \in R
    <2>1. Ok("FileDelete") = [C EXCEPT !.msg = "SUCCESS"] BY DEF Ok
    <2> HIDE DEF C
    <2> QED BY <1>2, <2>1, Values
  <1>5. Succeeds("FileDelete", q) = {Ok("FileDelete")} BY DEF Succeeds
  <1> QED BY <1>1, <1>3, <1>4, <1>5 DEF Answers

\* What FileRename answers can be read, and its failures are not code 0.
LEMMA FileRenameAnswers ==
  ASSUME NEW q \in FileRenameReq, Texts(FileRenameReqFields, q)
  PROVE  Answers("FileRename", q)
  <1> DEFINE R == [code : Int32, msg : Utf8]
             C == Cleared(Method("FileRename").resp)
  <1>1. ASSUME NEW r \in R PROVE Readable("FileRename", r)
    <2>1. r \in FileRenameResp BY TextAssumption DEF FileRenameResp
    <2>2. Texts(FileRenameRespFields, r) BY DEF Texts, FileRenameRespFields, int, string
    <2>3. Method("FileRename").resp = FileRenameRespFields BY DEF Method, FileService, Rpc
    <2>4. Response["FileRename"] = FileRenameResp BY DEF Response
    <2>5. r.code \in Int32 OBVIOUS
    <2> QED BY <2>1, <2>2, <2>3, <2>4, <2>5 DEF Readable
  <1>2. C \in R
    <2>1. C = [code |-> 0, msg |-> ""] BY FileRenameCleared
    <2> HIDE DEF C
    <2> QED BY <2>1, Values
  <1>3. ASSUME NEW t \in Utf8 PROVE Failed("FileRename", t) \in R /\ Failed("FileRename", t).code = 1
    <2>1. Failed("FileRename", t) = [C EXCEPT !.code = 1, !.msg = t] BY DEF Failed
    <2> HIDE DEF C
    <2> QED BY <1>2, <2>1, Values
  <1>4. Ok("FileRename") \in R
    <2>1. Ok("FileRename") = [C EXCEPT !.msg = "SUCCESS"] BY DEF Ok
    <2> HIDE DEF C
    <2> QED BY <1>2, <2>1, Values
  <1>5. Succeeds("FileRename", q) = {Ok("FileRename")} BY DEF Succeeds
  <1> QED BY <1>1, <1>3, <1>4, <1>5 DEF Answers

\* What FileQuery answers can be read, and its failures are not code 0.
LEMMA FileQueryAnswers ==
  ASSUME NEW q
  PROVE  /\ Answers("FileQuery", q)
         /\ \A r \in Fails("FileQuery") : Readable("FileQuery", r) /\ r.code = 1
  <1> DEFINE I == {<< >>} \cup {<<x>> : x \in Rows}
             R == [code : Int32, msg : Utf8, items : I]
             C == Cleared(Method("FileQuery").resp)
  <1>1. ASSUME NEW v \in I
        PROVE  /\ v \in Seq(FileItem)
               /\ \A k \in DOMAIN v, j \in DOMAIN FileItemFields :
                    FileItemFields[j].kind = "string" => v[k][FileItemFields[j].name] \in Utf8
    <2>1. \A x \in Rows : x \in FileItem BY TextAssumption DEF Rows, FileItem
    <2>2. ASSUME NEW x \in Rows, NEW j \in DOMAIN FileItemFields,
                 FileItemFields[j].kind = "string"
          PROVE  x[FileItemFields[j].name] \in Utf8
      <3>1. /\ x.file_hash \in Utf8 /\ x.file_name \in Utf8 /\ x.upload_at \in Utf8
            /\ x.last_updated \in Utf8
        BY TextAssumption DEF Rows
      <3>2. FileItemFields[j].name \in {"file_hash", "file_name", "upload_at", "last_updated"}
        BY <2>2 DEF FileItemFields, string, int
      <3> QED BY <3>1, <3>2
    <2>3. CASE v = << >> BY <2>3
    <2>4. CASE \E x \in Rows : v = <<x>> BY <2>1, <2>2, <2>4
    <2> QED BY <2>3, <2>4
  <1>2. << >> \in I OBVIOUS
  <1>3. ASSUME NEW r \in fileQueryOk PROVE r \in [code : {0}, msg : {"SUCCESS"}, items : I]
    BY DEF fileQueryOk
  <1> HIDE DEF I
  <1>4. ASSUME NEW r \in R PROVE Readable("FileQuery", r)
    <2>1. r \in FileQueryResp BY <1>1, TextAssumption DEF FileQueryResp
    <2>2. \A i \in DOMAIN FileQueryRespFields :
            /\ FileQueryRespFields[i].kind = "string" => FileQueryRespFields[i].name = "msg"
            /\ FileQueryRespFields[i].kind = "items" => FileQueryRespFields[i].name = "items"
      BY DEF FileQueryRespFields, string, int, items
    <2>3. Texts(FileQueryRespFields, r) BY <1>1, <2>2 DEF Texts
    <2>4. Method("FileQuery").resp = FileQueryRespFields BY DEF Method, FileService, Rpc
    <2>5. Response["FileQuery"] = FileQueryResp BY DEF Response
    <2>6. r.code \in Int32 OBVIOUS
    <2> QED BY <2>1, <2>3, <2>4, <2>5, <2>6 DEF Readable
  <1>5. C \in R
    <2>1. C = [code |-> 0, msg |-> "", items |-> << >>] BY FileQueryCleared
    <2> HIDE DEF C
    <2> QED BY <1>2, <2>1, Values
  <1>6. ASSUME NEW t \in Utf8 PROVE Failed("FileQuery", t) \in R /\ Failed("FileQuery", t).code = 1
    <2>1. Failed("FileQuery", t) = [C EXCEPT !.code = 1, !.msg = t] BY DEF Failed
    <2> HIDE DEF C
    <2> QED BY <1>5, <2>1, Values
  <1>8. ASSUME NEW r \in fileQueryOk PROVE r \in R BY <1>3, Values
  <1>9. Succeeds("FileQuery", q) = fileQueryOk BY DEF Succeeds
  <1>10. Answers("FileQuery", q) BY <1>4, <1>6, <1>8, <1>9 DEF Answers
  <1>11. ASSUME NEW r2 \in fileQueryOk
         PROVE  /\ [r2 EXCEPT !.code = 1, !.msg = ""] \in R
                /\ [r2 EXCEPT !.code = 1, !.msg = ""].code = 1
    BY <1>8, Values
  <1>12. Fails("FileQuery") = {Failed("FileQuery", t) : t \in Utf8}
                                \cup {[r2 EXCEPT !.code = 1, !.msg = ""] : r2 \in fileQueryOk}
    BY DEF Fails
  <1> HIDE DEF R
  <1>13. ASSUME NEW r \in Fails("FileQuery") PROVE Readable("FileQuery", r) /\ r.code = 1
    <2>1. CASE \E t \in Utf8 : r = Failed("FileQuery", t) BY <1>4, <1>6, <2>1
    <2>2. CASE \E r2 \in fileQueryOk : r = [r2 EXCEPT !.code = 1, !.msg = ""]
      BY <1>4, <1>11, <2>2
    <2> QED BY <1>12, <2>1, <2>2
  <1> QED BY <1>10, <1>13

\* A handler that fails says so, and all answers can be read by the gateway.
LEMMA MethodAnswers ==
  ASSUME NEW m \in Methods, NEW q \in Request[m], Texts(Method(m).req, q)
  PROVE  /\ Answers(m, q)
         /\ \A r \in Fails(m) : Readable(m, r) /\ r.code = 1
  <1>1. ASSUME m # "FileQuery", Answers(m, q)
        PROVE  \A r \in Fails(m) : Readable(m, r) /\ r.code = 1
    BY <1>1 DEF Fails, Answers
  <1>2. CASE m = "Signup"
    <2>1. Request["Signup"] = SignupReq BY DEF Request
    <2>2. Method("Signup").req = SignupReqFields BY DEF Method, UserService, FileService, Rpc
    <2>3. Answers("Signup", q) BY <1>2, <2>1, <2>2, SignupAnswers
    <2> QED BY <1>1, <1>2, <2>3
  <1>3. CASE m = "Signin"
    <2>1. Request["Signin"] = SigninReq BY DEF Request
    <2>2. Method("Signin").req = SigninReqFields BY DEF Method, UserService, FileService, Rpc
    <2>3. Answers("Signin", q) BY <1>3, <2>1, <2>2, SigninAnswers
    <2> QED BY <1>1, <1>3, <2>3
  <1>4. CASE m = "GetUserInfo"
    <2>1. Request["GetUserInfo"] = GetUserInfoReq BY DEF Request
    <2>2. Method("GetUserInfo").req = GetUserInfoReqFields BY DEF Method, UserService, FileService, Rpc
    <2>3. Answers("GetUserInfo", q) BY <1>4, <2>1, <2>2, GetUserInfoAnswers
    <2> QED BY <1>1, <1>4, <2>3
  <1>5. CASE m = "FileQuery" BY <1>5, FileQueryAnswers
  <1>6. CASE m = "FileUpload"
    <2>1. Request["FileUpload"] = FileUploadReq BY DEF Request
    <2>2. Method("FileUpload").req = FileUploadReqFields BY DEF Method, FileService, Rpc
    <2>3. Answers("FileUpload", q) BY <1>6, <2>1, <2>2, FileUploadAnswers
    <2> QED BY <1>1, <1>6, <2>3
  <1>7. CASE m = "UploadInit"
    <2>1. Request["UploadInit"] = UploadInitReq BY DEF Request
    <2>2. Method("UploadInit").req = UploadInitReqFields BY DEF Method, FileService, Rpc
    <2>3. Answers("UploadInit", q) BY <1>7, <2>1, <2>2, UploadInitAnswers
    <2> QED BY <1>1, <1>7, <2>3
  <1>8. CASE m = "UploadChunk"
    <2>1. Request["UploadChunk"] = UploadChunkReq BY DEF Request
    <2>2. Method("UploadChunk").req = UploadChunkReqFields BY DEF Method, FileService, Rpc
    <2>3. Answers("UploadChunk", q) BY <1>8, <2>1, <2>2, UploadChunkAnswers
    <2> QED BY <1>1, <1>8, <2>3
  <1>9. CASE m = "UploadComplete"
    <2>1. Request["UploadComplete"] = UploadCompleteReq BY DEF Request
    <2>2. Method("UploadComplete").req = UploadCompleteReqFields BY DEF Method, FileService, Rpc
    <2>3. Answers("UploadComplete", q) BY <1>9, <2>1, <2>2, UploadCompleteAnswers
    <2> QED BY <1>1, <1>9, <2>3
  <1>10. CASE m = "UploadStatus"
    <2>1. Request["UploadStatus"] = UploadStatusReq BY DEF Request
    <2>2. Method("UploadStatus").req = UploadStatusReqFields BY DEF Method, FileService, Rpc
    <2>3. Answers("UploadStatus", q) BY <1>10, <2>1, <2>2, UploadStatusAnswers
    <2> QED BY <1>1, <1>10, <2>3
  <1>11. CASE m = "FileDownload"
    <2>1. Request["FileDownload"] = FileDownloadReq BY DEF Request
    <2>2. Method("FileDownload").req = FileDownloadReqFields BY DEF Method, FileService, Rpc
    <2>3. Answers("FileDownload", q) BY <1>11, <2>1, <2>2, FileDownloadAnswers
    <2> QED BY <1>1, <1>11, <2>3
  <1>12. CASE m = "FileDelete"
    <2>1. Request["FileDelete"] = FileDeleteReq BY DEF Request
    <2>2. Method("FileDelete").req = FileDeleteReqFields BY DEF Method, FileService, Rpc
    <2>3. Answers("FileDelete", q) BY <1>12, <2>1, <2>2, FileDeleteAnswers
    <2> QED BY <1>1, <1>12, <2>3
  <1>13. CASE m = "FileRename"
    <2>1. Request["FileRename"] = FileRenameReq BY DEF Request
    <2>2. Method("FileRename").req = FileRenameReqFields BY DEF Method, FileService, Rpc
    <2>3. Answers("FileRename", q) BY <1>13, <2>1, <2>2, FileRenameAnswers
    <2> QED BY <1>1, <1>13, <2>3
  <1> QED BY MethodNames, <1>2, <1>3, <1>4, <1>5, <1>6, <1>7, <1>8, <1>9, <1>10, <1>11, <1>12, <1>13

-----------------------------------------------------------------------------
(* The inductive invariant, call by call. *)

\* A request as a handler of the gateway makes it of what the browser asked.
AsAsked(asked, msg) ==
  \A f \in DOMAIN msg :
    IF f \in NumberFields
    THEN IF Fits(asked[f], Width(f)) THEN msg[f] = Value[asked[f]]
         ELSE msg[f] = 0 /\ f # "chunk_index"
    ELSE msg[f] = asked[f]

\* The gateway's side of a call.
GatewayInv(g) ==
  /\ g = [pc |-> g.pc, method |-> g.method, asked |-> g.asked, sent |-> g.sent,
          reply |-> g.reply]
  /\ g.pc \in {"idle", "waiting", "answered"}
  /\ g.pc # "idle" => g.method \in Methods
  /\ g.sent # None => g.sent \in Request[g.method]
  /\ g.pc = "answered" => g.reply.code \in Int32

\* The service's side of a call: what it sees is what was sent.
ServiceInv(g, s) ==
  /\ s = [pc |-> s.pc, seen |-> s.seen, uid |-> s.uid, holder |-> s.holder, answer |-> s.answer]
  /\ s.pc \in {"idle", "called", "rejected", "check", "work", "done", "answered", "gone"}
  /\ s.pc # "idle" => g.pc # "idle" /\ g.sent \in Request[g.method] /\ AsAsked(g.asked, g.sent)
  /\ s.seen # None =>
       /\ s.pc # "idle" /\ s.seen = g.sent
       /\ Texts(Method(g.method).req, s.seen)
  /\ s.pc \in {"check", "work", "done", "answered"} =>
       s.seen = g.sent /\ Texts(Method(g.method).req, s.seen)
  /\ s.pc \in {"done", "answered"} => Readable(g.method, s.answer)
  /\ s.uid \in Int32

\* The message under way is the request or the answer, as the handlers have made them.
WireInv(g, s, w) ==
  /\ s.pc = "called" => w = Wire(Method(g.method).req, g.sent)
  /\ s.pc = "answered" /\ w # None => w = Wire(Method(g.method).resp, s.answer)

\* OkMeansDone and OnlyTokenHolders of one call.
OkInv(g, s) ==
  g.pc = "answered" /\ g.reply.code = 0 =>
    /\ s.pc = "answered" /\ s.answer.code = 0
    /\ g.reply.data = Data(g.method, s.answer)

HolderInv(g, s) ==
  /\ g.method \in DOMAIN FileService
  /\ \/ s.pc = "work"
     \/ s.pc \in {"done", "answered"} /\ s.answer.code = 0
  => s.holder \in Uids /\ s.uid = s.holder

CallInv(g, s, w) ==
  GatewayInv(g) /\ ServiceInv(g, s) /\ WireInv(g, s, w) /\ OkInv(g, s) /\ HolderInv(g, s)

Shape ==
  /\ gateway = [c \in Calls |-> gateway[c]]
  /\ service = [c \in Calls |-> service[c]]
  /\ wire = [c \in Calls |-> wire[c]]

IInv == Shape /\ \A c \in Calls : CallInv(gateway[c], service[c], wire[c])

\* A step of one call leaves the others alone.
LEMMA OneCall ==
  ASSUME IInv, NEW c \in Calls, NEW g, NEW s, NEW w,
         gateway' = [gateway EXCEPT ![c] = g],
         service' = [service EXCEPT ![c] = s],
         wire' = [wire EXCEPT ![c] = w],
         CallInv(g, s, w)
  PROVE  IInv'
  <1>1. Shape' BY DEF IInv, Shape
  <1>2. ASSUME NEW d \in Calls PROVE CallInv(gateway'[d], service'[d], wire'[d])
    <2>1. CASE d = c BY <2>1 DEF IInv, Shape
    <2>2. CASE d # c
      <3>1. gateway'[d] = gateway[d] /\ service'[d] = service[d] /\ wire'[d] = wire[d]
        BY <2>2 DEF IInv, Shape
      <3> QED BY <3>1 DEF IInv
    <2> QED BY <2>1, <2>2
  <1> QED BY <1>1, <1>2 DEF IInv

\* The initial states.
LEMMA InitInv == Init => IInv
  <1> SUFFICES ASSUME Init PROVE IInv OBVIOUS
  <1>1. Shape BY DEF Init, Shape
  <1>2. ASSUME NEW c \in Calls PROVE CallInv(gateway[c], service[c], wire[c])
    <2>1. /\ gateway[c] = [pc |-> "idle", method |-> None, asked |-> None, sent |-> None,
                           reply |-> None]
          /\ service[c] = [pc |-> "idle", seen |-> None, uid |-> 0, holder |-> None,
                           answer |-> None]
      BY DEF Init
    <2>2. GatewayInv(gateway[c]) BY <2>1 DEF GatewayInv
    <2>3. ServiceInv(gateway[c], service[c])
      <3>1. /\ service[c].pc = "idle" /\ service[c].seen = None /\ service[c].uid = 0
            /\ service[c].holder = None /\ service[c].answer = None
        BY <2>1
      <3> QED BY <2>1, <3>1, Values DEF ServiceInv
    <2>4. WireInv(gateway[c], service[c], wire[c]) BY <2>1 DEF WireInv
    <2>5. OkInv(gateway[c], service[c]) BY <2>1 DEF OkInv
    <2>6. HolderInv(gateway[c], service[c])
      <3>1. service[c].pc = "idle" BY <2>1
      <3> QED BY <3>1 DEF HolderInv
    <2> QED BY <2>2, <2>3, <2>4, <2>5, <2>6 DEF CallInv
  <1> QED BY <1>1, <1>2 DEF IInv

-----------------------------------------------------------------------------
(* The steps. *)

\* A handler of the gateway that has made a message of the request.
LEMMA SendInv ==
  ASSUME IInv, NEW c \in Calls, NEW m \in Methods, NEW asked, NEW msg \in Request[m],
         AsAsked(asked, msg), Send(c, m, asked, msg)
  PROVE  IInv'
  <1> DEFINE g == [pc |-> "waiting", method |-> m, asked |-> asked, sent |-> msg, reply |-> None]
             s == [service[c] EXCEPT !.pc = "called"]
             w == Wire(Method(m).req, msg)
  <1>1. /\ gateway' = [gateway EXCEPT ![c] = g]
        /\ wire' = [wire EXCEPT ![c] = w]
        /\ service' = [service EXCEPT ![c] = s]
    BY DEF Send
  <1>2. gateway[c].pc = "idle" BY DEF Send
  <1>3. /\ ServiceInv(gateway[c], service[c]) /\ service[c].pc = "idle" /\ service[c].seen = None
    BY <1>2 DEF IInv, CallInv, ServiceInv
  <1>4. s = [pc |-> "called", seen |-> None, uid |-> service[c].uid, holder |-> service[c].holder,
             answer |-> service[c].answer]
    BY <1>3 DEF ServiceInv
  <1>5. service[c].uid \in Int32 BY <1>3 DEF ServiceInv
  <1> HIDE DEF s, w
  <1>6. GatewayInv(g) BY DEF GatewayInv
  <1>7. ServiceInv(g, s) BY <1>4, <1>5 DEF ServiceInv
  <1>8. WireInv(g, s, w) BY <1>4 DEF WireInv, w
  <1>9. OkInv(g, s) BY DEF OkInv
  <1>10. HolderInv(g, s) BY <1>4 DEF HolderInv
  <1>11. CallInv(g, s, w) BY <1>6, <1>7, <1>8, <1>9, <1>10 DEF CallInv
  <1> HIDE DEF g
  <1> QED BY <1>1, <1>11, OneCall

\* One that has answered by itself.
LEMMA DeclineInv ==
  ASSUME IInv, NEW c \in Calls, NEW m \in Methods, NEW asked, Decline(c, m, asked)
  PROVE  IInv'
  <1> DEFINE g == [pc |-> "answered", method |-> m, asked |-> asked, sent |-> None,
                   reply |-> [code |-> 1, data |-> None]]
  <1>1. /\ gateway' = [gateway EXCEPT ![c] = g]
        /\ wire' = wire /\ service' = service
    BY DEF Decline
  <1>2. gateway[c].pc = "idle" BY DEF Decline
  <1>3. CallInv(gateway[c], service[c], wire[c]) BY DEF IInv
  <1>4. service[c].pc = "idle" BY <1>2, <1>3 DEF CallInv, ServiceInv
  <1>5. service' = [service EXCEPT ![c] = service[c]] /\ wire' = [wire EXCEPT ![c] = wire[c]]
    BY <1>1 DEF IInv, Shape
  <1>6. GatewayInv(g) BY Values DEF GatewayInv
  <1>7. ServiceInv(g, service[c]) BY <1>3, <1>4 DEF CallInv, ServiceInv
  <1>8. WireInv(g, service[c], wire[c]) BY <1>4 DEF WireInv
  <1>9. OkInv(g, service[c]) BY DEF OkInv
  <1>10. HolderInv(g, service[c]) BY <1>4 DEF HolderInv
  <1>11. CallInv(g, service[c], wire[c]) BY <1>6, <1>7, <1>8, <1>9, <1>10 DEF CallInv
  <1> HIDE DEF g
  <1> QED BY <1>1, <1>5, <1>11, OneCall

\* A text that does not denote a number of the field's width leaves the field unset.
LEMMA UnsetNumber ==
  ASSUME NEW t, NEW width \in {Int32, Int64}
  PROVE  /\ OrUnset(t, width) \in width
         /\ Fits(t, width) => OrUnset(t, width) = Value[t]
         /\ ~Fits(t, width) => OrUnset(t, width) = 0
  BY Values DEF OrUnset, Fits

\* Every handler of the gateway.
LEMMA HandleInv ==
  ASSUME IInv, NEW c \in Calls, Handle(c)
  PROVE  IInv'
  <1>1. CASE signup(c)
    <2> DEFINE P == [username : Text, password : Text]
    <2>1. "Signup" \in Methods /\ Request["Signup"] = SignupReq BY MethodNames DEF Request
    <2>2. PICK p \in P : Send(c, "Signup", p, p) BY <1>1 DEF signup
    <2>3. p \in SignupReq BY DEF SignupReq
    <2>4. DOMAIN p = {"username", "password"} OBVIOUS
    <2>5. AsAsked(p, p) BY <2>4 DEF AsAsked, NumberFields
    <2> QED BY <2>1, <2>2, <2>3, <2>5, SendInv
  <1>2. CASE signin(c)
    <2> DEFINE P == [username : Text, password : Text]
    <2>1. "Signin" \in Methods /\ Request["Signin"] = SigninReq BY MethodNames DEF Request
    <2>2. PICK p \in P : Send(c, "Signin", p, p) BY <1>2 DEF signin
    <2>3. p \in SigninReq BY DEF SigninReq
    <2>4. DOMAIN p = {"username", "password"} OBVIOUS
    <2>5. AsAsked(p, p) BY <2>4 DEF AsAsked, NumberFields
    <2> QED BY <2>1, <2>2, <2>3, <2>5, SendInv
  <1>3. CASE info(c)
    <2> DEFINE P == [username : Text, token : Text]
    <2>1. "GetUserInfo" \in Methods /\ Request["GetUserInfo"] = GetUserInfoReq BY MethodNames DEF Request
    <2>2. PICK p \in P : Send(c, "GetUserInfo", p, p) BY <1>3 DEF info
    <2>3. p \in GetUserInfoReq BY DEF GetUserInfoReq
    <2>4. DOMAIN p = {"username", "token"} OBVIOUS
    <2>5. AsAsked(p, p) BY <2>4 DEF AsAsked, NumberFields
    <2> QED BY <2>1, <2>2, <2>3, <2>5, SendInv
  <1>4. CASE fileQuery(c)
    <2> DEFINE P == [username : Text, token : Text, limit : Digits, offset : Digits, keyword : Text]
    <2>1. "FileQuery" \in Methods /\ Request["FileQuery"] = FileQueryReq BY MethodNames DEF Request
    <2>2. PICK p \in P : Send(c, "FileQuery", p, [p EXCEPT !.limit = OrUnset(@, Int32), !.offset = OrUnset(@, Int32)])
      BY <1>4 DEF fileQuery
    <2> DEFINE msg == [p EXCEPT !.limit = OrUnset(@, Int32), !.offset = OrUnset(@, Int32)]
    <2>3. /\ msg.username = p.username
          /\ msg.token = p.token
          /\ msg.limit = OrUnset(p.limit, Int32)
          /\ msg.offset = OrUnset(p.offset, Int32)
          /\ msg.keyword = p.keyword
          /\ DOMAIN msg = {"username", "token", "limit", "offset", "keyword"}
      OBVIOUS
    <2>4. /\ OrUnset(p.limit, Int32) \in Int32
          /\ Fits(p.limit, Int32) => OrUnset(p.limit, Int32) = Value[p.limit]
          /\ ~Fits(p.limit, Int32) => OrUnset(p.limit, Int32) = 0
          /\ OrUnset(p.offset, Int32) \in Int32
          /\ Fits(p.offset, Int32) => OrUnset(p.offset, Int32) = Value[p.offset]
          /\ ~Fits(p.offset, Int32) => OrUnset(p.offset, Int32) = 0
      BY UnsetNumber
    <2>5. msg \in FileQueryReq BY <2>4 DEF FileQueryReq
    <2>6. Send(c, "FileQuery", p, msg) BY <2>2
    <2> HIDE DEF msg
    <2>7. AsAsked(p, msg) BY <2>3, <2>4 DEF AsAsked, NumberFields, Width
    <2> QED BY <2>1, <2>5, <2>6, <2>7, SendInv
  <1>5. CASE fileUpload(c)
    <2> DEFINE P == [username : Text, token : Text, filename : Text, content : Blobs \cup {None}]
    <2>1. "FileUpload" \in Methods /\ Request["FileUpload"] = FileUploadReq BY MethodNames DEF Request
    <2>2. PICK p \in P : IF p.content = None THEN Decline(c, "FileUpload", p) ELSE Send(c, "FileUpload", p, p)
      BY <1>5 DEF fileUpload
    <2>3. CASE p.content = None BY <2>1, <2>2, <2>3, DeclineInv
    <2>4. CASE p.content # None
      <3>1. p \in FileUploadReq BY <2>4 DEF FileUploadReq
      <3>2. DOMAIN p = {"username", "token", "filename", "content"} OBVIOUS
      <3>3. AsAsked(p, p) BY <3>2 DEF AsAsked, NumberFields
      <3> QED BY <2>1, <2>2, <2>4, <3>1, <3>3, SendInv
    <2> QED BY <2>3, <2>4
  <1>6. CASE uploadInit(c)
    <2> DEFINE P == [username : Text, token : Text, filename : Text, total_chunks : Digits,
                 total_size : Digits]
    <2>1. "UploadInit" \in Methods /\ Request["UploadInit"] = UploadInitReq BY MethodNames DEF Request
    <2>2. PICK p \in P : Send(c, "UploadInit", p, [p EXCEPT !.total_chunks = OrUnset(@, Int32), !.total_size = OrUnset(@, Int64)])
      BY <1>6 DEF uploadInit
    <2> DEFINE msg == [p EXCEPT !.total_chunks = OrUnset(@, Int32), !.total_size = OrUnset(@, Int64)]
    <2>3. /\ msg.username = p.username
          /\ msg.token = p.token
          /\ msg.filename = p.filename
          /\ msg.total_chunks = OrUnset(p.total_chunks, Int32)
          /\ msg.total_size = OrUnset(p.total_size, Int64)
          /\ DOMAIN msg = {"username", "token", "filename", "total_chunks", "total_size"}
      OBVIOUS
    <2>4. /\ OrUnset(p.total_chunks, Int32) \in Int32
          /\ Fits(p.total_chunks, Int32) => OrUnset(p.total_chunks, Int32) = Value[p.total_chunks]
          /\ ~Fits(p.total_chunks, Int32) => OrUnset(p.total_chunks, Int32) = 0
          /\ OrUnset(p.total_size, Int64) \in Int64
          /\ Fits(p.total_size, Int64) => OrUnset(p.total_size, Int64) = Value[p.total_size]
          /\ ~Fits(p.total_size, Int64) => OrUnset(p.total_size, Int64) = 0
      BY UnsetNumber
    <2>5. msg \in UploadInitReq BY <2>4 DEF UploadInitReq
    <2>6. Send(c, "UploadInit", p, msg) BY <2>2
    <2> HIDE DEF msg
    <2>7. AsAsked(p, msg) BY <2>3, <2>4 DEF AsAsked, NumberFields, Width
    <2> QED BY <2>1, <2>5, <2>6, <2>7, SendInv
  <1>7. CASE uploadChunk(c)
    <2> DEFINE P == [username : Text, token : Text, upload_id : Text, chunk_index : Digits,
                 chunk_data : Blobs \cup {None}]
    <2>1. "UploadChunk" \in Methods /\ Request["UploadChunk"] = UploadChunkReq BY MethodNames DEF Request
    <2>2. PICK p \in P :
            IF p.chunk_data = None \/ ~Fits(p.chunk_index, Int32) THEN Decline(c, "UploadChunk", p)
            ELSE Send(c, "UploadChunk", p, [p EXCEPT !.chunk_index = Value[@]])
      BY <1>7 DEF uploadChunk
    <2>3. CASE p.chunk_data = None \/ ~Fits(p.chunk_index, Int32) BY <2>1, <2>2, <2>3, DeclineInv
    <2>4. CASE ~(p.chunk_data = None \/ ~Fits(p.chunk_index, Int32))
      <3> DEFINE msg == [p EXCEPT !.chunk_index = Value[@]]
      <3>1. /\ msg.username = p.username /\ msg.token = p.token /\ msg.upload_id = p.upload_id
            /\ msg.chunk_index = Value[p.chunk_index] /\ msg.chunk_data = p.chunk_data
            /\ DOMAIN msg = {"username", "token", "upload_id", "chunk_index", "chunk_data"}
        OBVIOUS
      <3>2. msg \in UploadChunkReq BY <2>4 DEF UploadChunkReq, Fits
      <3>3. Send(c, "UploadChunk", p, msg) BY <2>2, <2>4
      <3> HIDE DEF msg
      <3>4. AsAsked(p, msg) BY <2>4, <3>1 DEF AsAsked, NumberFields, Width
      <3> QED BY <2>1, <3>2, <3>3, <3>4, SendInv
    <2> QED BY <2>3, <2>4
  <1>8. CASE uploadComplete(c)
    <2> DEFINE P == [username : Text, token : Text, upload_id : Text]
    <2>1. "UploadComplete" \in Methods /\ Request["UploadComplete"] = UploadCompleteReq BY MethodNames DEF Request
    <2>2. PICK p \in P : Send(c, "UploadComplete", p, p) BY <1>8 DEF uploadComplete
    <2>3. p \in UploadCompleteReq BY DEF UploadCompleteReq
    <2>4. DOMAIN p = {"username", "token", "upload_id"} OBVIOUS
    <2>5. AsAsked(p, p) BY <2>4 DEF AsAsked, NumberFields
    <2> QED BY <2>1, <2>2, <2>3, <2>5, SendInv
  <1>9. CASE uploadStatus(c)
    <2> DEFINE P == [username : Text, token : Text, upload_id : Text]
    <2>1. "UploadStatus" \in Methods /\ Request["UploadStatus"] = UploadStatusReq BY MethodNames DEF Request
    <2>2. PICK p \in P : Send(c, "UploadStatus", p, p) BY <1>9 DEF uploadStatus
    <2>3. p \in UploadStatusReq BY DEF UploadStatusReq
    <2>4. DOMAIN p = {"username", "token", "upload_id"} OBVIOUS
    <2>5. AsAsked(p, p) BY <2>4 DEF AsAsked, NumberFields
    <2> QED BY <2>1, <2>2, <2>3, <2>5, SendInv
  <1>10. CASE fileDownload(c)
    <2> DEFINE P == [username : Text, token : Text, filename : Text, file_hash : Text]
    <2>1. "FileDownload" \in Methods /\ Request["FileDownload"] = FileDownloadReq BY MethodNames DEF Request
    <2>2. PICK p \in P : Send(c, "FileDownload", p, p) BY <1>10 DEF fileDownload
    <2>3. p \in FileDownloadReq BY DEF FileDownloadReq
    <2>4. DOMAIN p = {"username", "token", "filename", "file_hash"} OBVIOUS
    <2>5. AsAsked(p, p) BY <2>4 DEF AsAsked, NumberFields
    <2> QED BY <2>1, <2>2, <2>3, <2>5, SendInv
  <1>11. CASE fileDelete(c)
    <2> DEFINE P == [username : Text, token : Text, filename : Text, file_hash : Text]
    <2>1. "FileDelete" \in Methods /\ Request["FileDelete"] = FileDeleteReq BY MethodNames DEF Request
    <2>2. PICK p \in P : Send(c, "FileDelete", p, p) BY <1>11 DEF fileDelete
    <2>3. p \in FileDeleteReq BY DEF FileDeleteReq
    <2>4. DOMAIN p = {"username", "token", "filename", "file_hash"} OBVIOUS
    <2>5. AsAsked(p, p) BY <2>4 DEF AsAsked, NumberFields
    <2> QED BY <2>1, <2>2, <2>3, <2>5, SendInv
  <1>12. CASE fileRename(c)
    <2> DEFINE P == [username : Text, token : Text, old_filename : Text, new_filename : Text,
                 file_hash : Text]
    <2>1. "FileRename" \in Methods /\ Request["FileRename"] = FileRenameReq BY MethodNames DEF Request
    <2>2. PICK p \in P : Send(c, "FileRename", p, p) BY <1>12 DEF fileRename
    <2>3. p \in FileRenameReq BY DEF FileRenameReq
    <2>4. DOMAIN p = {"username", "token", "old_filename", "new_filename", "file_hash"} OBVIOUS
    <2>5. AsAsked(p, p) BY <2>4 DEF AsAsked, NumberFields
    <2> QED BY <2>1, <2>2, <2>3, <2>5, SendInv
  <1> QED BY <1>1, <1>2, <1>3, <1>4, <1>5, <1>6, <1>7, <1>8, <1>9, <1>10, <1>11, <1>12 DEF Handle

\* What holds of a call in IInv, with its fields at hand.
LEMMA OfCall ==
  ASSUME IInv, NEW c \in Calls
  PROVE  /\ GatewayInv(gateway[c]) /\ ServiceInv(gateway[c], service[c])
         /\ WireInv(gateway[c], service[c], wire[c]) /\ OkInv(gateway[c], service[c])
         /\ HolderInv(gateway[c], service[c])
  BY DEF IInv, CallInv

\* A step of the service that leaves the gateway's side alone.
LEMMA ServiceStep ==
  ASSUME IInv, NEW c \in Calls, NEW s, NEW w,
         gateway' = gateway, service' = [service EXCEPT ![c] = s], wire' = [wire EXCEPT ![c] = w],
         service[c].pc # "answered",
         ServiceInv(gateway[c], s), WireInv(gateway[c], s, w), HolderInv(gateway[c], s)
  PROVE  IInv'
  <1>1. gateway' = [gateway EXCEPT ![c] = gateway[c]] BY DEF IInv, Shape
  <1>2. OkInv(gateway[c], s) BY OfCall DEF OkInv
  <1>3. CallInv(gateway[c], s, w) BY <1>2, OfCall DEF CallInv
  <1> QED BY <1>1, <1>3, OneCall

\* A handler's record after an assignment to two or three of its fields.
LEMMA PutSeen ==
  ASSUME NEW s, s = [pc |-> s.pc, seen |-> s.seen, uid |-> s.uid, holder |-> s.holder,
                     answer |-> s.answer],
         NEW at, NEW x
  PROVE  [s EXCEPT !.pc = at, !.seen = x] =
           [pc |-> at, seen |-> x, uid |-> s.uid, holder |-> s.holder, answer |-> s.answer]
  <1> DEFINE L == [s EXCEPT !.pc = at, !.seen = x]
  <1>1. /\ L.pc = at
        /\ L.seen = x
        /\ L.uid = s.uid
        /\ L.holder = s.holder
        /\ L.answer = s.answer
    OBVIOUS
  <1>2. L = [n \in {"pc", "seen", "uid", "holder", "answer"} |-> L[n]] OBVIOUS
  <1> HIDE DEF L
  <1>3. L = [pc |-> at, seen |-> x, uid |-> s.uid, holder |-> s.holder, answer |-> s.answer]
    BY <1>1, <1>2
  <1> QED BY <1>3 DEF L

\* The dispatcher reads the request that was sent, or none.
LEMMA DispatchInv ==
  ASSUME IInv, NEW c \in Calls, Dispatch(c)
  PROVE  IInv'
  <1> DEFINE m == gateway[c].method
             F == Method(m).req
             q == gateway[c].sent
  <1>1. service[c].pc = "called" BY DEF Dispatch
  <1>2. m \in Methods /\ q \in Request[m] /\ AsAsked(gateway[c].asked, q)
    BY <1>1, OfCall DEF ServiceInv, GatewayInv
  <1>3. wire[c] = Wire(F, q) BY <1>1, OfCall DEF WireInv
  <1>4. Plain(F, Request[m]) BY <1>2, RequestsPlain
  <1>5. Object(F, q) BY <1>2, <1>4, PlainObject
  <1>6. MessageOf(F, wire[c]) = q BY <1>3, <1>4, <1>5, RoundTrip DEF Plain
  <1>7. gateway' = gateway /\ wire' = [wire EXCEPT ![c] = None] BY DEF Dispatch
  <1>8. service[c] = [pc |-> service[c].pc, seen |-> service[c].seen, uid |-> service[c].uid,
                      holder |-> service[c].holder, answer |-> service[c].answer]
        /\ service[c].uid \in Int32
        /\ (service[c].seen # None => service[c].seen = q /\ Texts(F, service[c].seen))
        /\ gateway[c].pc # "idle"
    BY <1>1, OfCall DEF ServiceInv
  <1>9. CASE Parses(F, wire[c])
    <2> DEFINE s == [service[c] EXCEPT !.pc = IF m \in DOMAIN FileService THEN "check" ELSE "work",
                                       !.seen = q]
    <2>1. service' = [service EXCEPT ![c] = s] BY <1>6, <1>9 DEF Dispatch
    <2>2. Texts(F, q) BY <1>3, <1>4, <1>9, ParsedTexts DEF Plain
    <2>3. s = [pc |-> s.pc, seen |-> q, uid |-> service[c].uid, holder |-> service[c].holder,
               answer |-> service[c].answer]
          /\ s.pc \in {"check", "work"} /\ (s.pc = "work" => m \notin DOMAIN FileService)
      <3> DEFINE at == IF m \in DOMAIN FileService THEN "check" ELSE "work"
      <3>1. at \in {"check", "work"} /\ (at = "work" => m \notin DOMAIN FileService) OBVIOUS
      <3> HIDE DEF at
      <3>2. s = [pc |-> at, seen |-> q, uid |-> service[c].uid, holder |-> service[c].holder,
                 answer |-> service[c].answer]
        BY <1>8, PutSeen DEF at
      <3> HIDE DEF s
      <3> QED BY <3>1, <3>2
    <2> HIDE DEF s
    <2>4. ServiceInv(gateway[c], s) BY <1>2, <1>8, <2>2, <2>3 DEF ServiceInv
    <2>5. WireInv(gateway[c], s, None) BY <2>3 DEF WireInv
    <2>6. HolderInv(gateway[c], s) BY <2>3 DEF HolderInv
    <2> QED BY <1>1, <1>7, <2>1, <2>4, <2>5, <2>6, ServiceStep
  <1>10. CASE ~Parses(F, wire[c])
    <2> DEFINE s == [service[c] EXCEPT !.pc = "rejected"]
    <2>1. service' = [service EXCEPT ![c] = s] BY <1>10 DEF Dispatch
    <2>2. s = [pc |-> "rejected", seen |-> service[c].seen, uid |-> service[c].uid,
               holder |-> service[c].holder, answer |-> service[c].answer]
      BY <1>8
    <2> HIDE DEF s
    <2>3. ServiceInv(gateway[c], s) BY <1>2, <1>8, <2>2 DEF ServiceInv
    <2>4. WireInv(gateway[c], s, None) BY <2>2 DEF WireInv
    <2>5. HolderInv(gateway[c], s) BY <2>2 DEF HolderInv
    <2> QED BY <1>1, <1>7, <2>1, <2>3, <2>4, <2>5, ServiceStep
  <1> QED BY <1>9, <1>10

\* The file service reads the user service's answer as it was given.
LEMMA TokenAnswer ==
  ASSUME NEW answer \in checkTokenAnswers
  PROVE  /\ Received(CheckTokenRespFields, answer) = answer \/ answer = None
         /\ answer.code = 0 => answer.uid \in Uids
  <1>1. PICK k \in {0, 1}, t \in Utf8, u \in Uids \cup {0} :
          answer = [code |-> k, msg |-> t, uid |-> u] /\ (k = 0 => u \in Uids)
    <2>1. CASE \E u \in Uids : answer = [code |-> 0, msg |-> "SUCCESS", uid |-> u]
      <3>1. "SUCCESS" \in Utf8 BY TextAssumption
      <3> QED BY <2>1, <3>1
    <2>2. CASE \E t \in Utf8 : answer = [code |-> 1, msg |-> t, uid |-> 0]
      BY <2>2
    <2> QED BY <2>1, <2>2 DEF checkTokenAnswers
  <1>2. u \in Int32 /\ k \in Int32 BY Values, UidAssumption
  <1>3. answer \in CheckTokenResp BY <1>1, <1>2, TextAssumption DEF CheckTokenResp
  <1>4. Object(CheckTokenRespFields, answer) BY <1>3, CheckTokenRespPlain, PlainObject
  <1>5. answer.msg \in Utf8 BY <1>1
  <1>6. Texts(CheckTokenRespFields, answer) BY <1>5 DEF Texts, CheckTokenRespFields, string, int
  <1>7. Parses(CheckTokenRespFields, Wire(CheckTokenRespFields, answer)) BY <1>6, TextsParse
  <1>8. MessageOf(CheckTokenRespFields, Wire(CheckTokenRespFields, answer)) = answer
    BY <1>4, RoundTrip, CheckTokenRespPlain DEF Plain
  <1>9. answer.code = 0 => answer.uid \in Uids BY <1>1
  <1> QED BY <1>7, <1>8, <1>9 DEF Received

\* A handler of the file service knows who asks, or has failed.
LEMMA CheckTokenInv ==
  ASSUME IInv, NEW c \in Calls, CheckToken(c)
  PROVE  IInv'
  <1> DEFINE m == gateway[c].method
             q == gateway[c].sent
             F == Method(m).req
  <1>1. service[c].pc = "check" /\ gateway' = gateway /\ wire' = wire BY DEF CheckToken
  <1>2. /\ service[c] = [pc |-> service[c].pc, seen |-> service[c].seen, uid |-> service[c].uid,
                         holder |-> service[c].holder, answer |-> service[c].answer]
        /\ service[c].uid \in Int32 /\ gateway[c].pc # "idle"
        /\ q \in Request[m] /\ AsAsked(gateway[c].asked, q)
        /\ service[c].seen = q /\ Texts(F, q)
    BY <1>1, OfCall DEF ServiceInv
  <1>3. m \in Methods BY <1>2, OfCall DEF GatewayInv
  <1>4. wire' = [wire EXCEPT ![c] = wire[c]] BY <1>1 DEF IInv, Shape
  <1>5. PICK answer \in checkTokenAnswers \cup {None} :
          IF answer # None /\ Received(CheckTokenRespFields, answer).code = 0
          THEN service' = [service EXCEPT ![c].pc = "work",
                                          ![c].uid = Received(CheckTokenRespFields, answer).uid,
                                          ![c].holder = answer.uid]
          ELSE \E t \in Utf8 :
                 service' = [service EXCEPT ![c].pc = "done", ![c].answer = Failed(m, t)]
    BY DEF CheckToken
  <1>6. CASE answer # None /\ Received(CheckTokenRespFields, answer).code = 0
    <2> DEFINE u == answer.uid
               s == [service[c] EXCEPT !.pc = "work", !.uid = u, !.holder = u]
    <2>1. Received(CheckTokenRespFields, answer) = answer BY <1>6, TokenAnswer
    <2>2. u \in Uids BY <1>6, <2>1, TokenAnswer
    <2>3. service' = [service EXCEPT ![c] = s] BY <1>5, <1>6, <2>1 DEF IInv, Shape
    <2> HIDE DEF u
    <2>4. s = [pc |-> "work", seen |-> q, uid |-> u, holder |-> u, answer |-> service[c].answer]
      <3>1. /\ s.pc = "work" /\ s.seen = service[c].seen /\ s.uid = u
            /\ s.holder = u /\ s.answer = service[c].answer
        BY <1>2 DEF s
      <3>2. s = [n \in {"pc", "seen", "uid", "holder", "answer"} |-> s[n]] BY <1>2 DEF s
      <3> HIDE DEF s
      <3> QED BY <1>2, <3>1, <3>2
    <2>5. u \in Int32 BY <2>2, UidAssumption
    <2> HIDE DEF s
    <2>6. ServiceInv(gateway[c], s) BY <1>2, <2>4, <2>5 DEF ServiceInv
    <2>7. WireInv(gateway[c], s, wire[c]) BY <2>4 DEF WireInv
    <2>8. HolderInv(gateway[c], s) BY <2>2, <2>4 DEF HolderInv
    <2> QED BY <1>1, <1>4, <2>3, <2>6, <2>7, <2>8, ServiceStep
  <1>7. CASE ~(answer # None /\ Received(CheckTokenRespFields, answer).code = 0)
    <2>1. PICK t \in Utf8 :
            service' = [service EXCEPT ![c].pc = "done", ![c].answer = Failed(m, t)]
      BY <1>5, <1>7
    <2> DEFINE r == Failed(m, t)
               s == [service[c] EXCEPT !.pc = "done", !.answer = r]
    <2>2. Readable(m, r) /\ r.code = 1 BY <1>2, <1>3, MethodAnswers DEF Answers
    <2>3. service' = [service EXCEPT ![c] = s] BY <2>1 DEF IInv, Shape
    <2> HIDE DEF r
    <2>4. s = [pc |-> "done", seen |-> q, uid |-> service[c].uid, holder |-> service[c].holder,
               answer |-> r]
      <3>1. /\ s.pc = "done" /\ s.seen = service[c].seen /\ s.uid = service[c].uid
            /\ s.holder = service[c].holder /\ s.answer = r
        BY <1>2 DEF s
      <3>2. s = [n \in {"pc", "seen", "uid", "holder", "answer"} |-> s[n]] BY <1>2 DEF s
      <3> HIDE DEF s
      <3> QED BY <1>2, <3>1, <3>2
    <2> HIDE DEF s
    <2>5. ServiceInv(gateway[c], s) BY <1>2, <2>2, <2>4 DEF ServiceInv
    <2>6. WireInv(gateway[c], s, wire[c]) BY <2>4 DEF WireInv
    <2>7. HolderInv(gateway[c], s) BY <2>2, <2>4 DEF HolderInv
    <2> QED BY <1>1, <1>4, <2>3, <2>5, <2>6, <2>7, ServiceStep
  <1> QED BY <1>6, <1>7

\* The handler ends in an answer that can be read.
LEMMA WorkInv ==
  ASSUME IInv, NEW c \in Calls, Work(c)
  PROVE  IInv'
  <1> DEFINE m == gateway[c].method
             q == gateway[c].sent
             F == Method(m).req
  <1>1. service[c].pc = "work" /\ gateway' = gateway /\ wire' = wire BY DEF Work
  <1>2. /\ service[c] = [pc |-> service[c].pc, seen |-> service[c].seen, uid |-> service[c].uid,
                         holder |-> service[c].holder, answer |-> service[c].answer]
        /\ service[c].uid \in Int32 /\ gateway[c].pc # "idle"
        /\ q \in Request[m] /\ AsAsked(gateway[c].asked, q)
        /\ service[c].seen = q /\ Texts(F, q)
    BY <1>1, OfCall DEF ServiceInv
  <1>3. m \in Methods BY <1>2, OfCall DEF GatewayInv
  <1>4. wire' = [wire EXCEPT ![c] = wire[c]] BY <1>1 DEF IInv, Shape
  <1>5. PICK r \in Succeeds(m, service[c].seen) \cup Fails(m) :
          service' = [service EXCEPT ![c].pc = "done", ![c].answer = r]
    BY DEF Work
  <1>6. Readable(m, r) BY <1>2, <1>3, <1>5, MethodAnswers DEF Answers
  <1>7. m \in DOMAIN FileService => service[c].holder \in Uids /\ service[c].uid = service[c].holder
    BY <1>1, OfCall DEF HolderInv
  <1> DEFINE s == [service[c] EXCEPT !.pc = "done", !.answer = r]
  <1>8. service' = [service EXCEPT ![c] = s] BY <1>5 DEF IInv, Shape
  <1>9. s = [pc |-> "done", seen |-> q, uid |-> service[c].uid, holder |-> service[c].holder,
             answer |-> r]
    <2>1. /\ s.pc = "done" /\ s.seen = service[c].seen /\ s.uid = service[c].uid
          /\ s.holder = service[c].holder /\ s.answer = r
      BY <1>2 DEF s
    <2>2. s = [n \in {"pc", "seen", "uid", "holder", "answer"} |-> s[n]] BY <1>2 DEF s
    <2> HIDE DEF s
    <2> QED BY <1>2, <2>1, <2>2
  <1> HIDE DEF s
  <1>10. ServiceInv(gateway[c], s) BY <1>2, <1>6, <1>9 DEF ServiceInv
  <1>11. WireInv(gateway[c], s, wire[c]) BY <1>9 DEF WireInv
  <1>12. HolderInv(gateway[c], s) BY <1>7, <1>9 DEF HolderInv
  <1> QED BY <1>1, <1>4, <1>8, <1>10, <1>11, <1>12, ServiceStep

\* The answer is sent as it was made.
LEMMA AnswerInv ==
  ASSUME IInv, NEW c \in Calls, Answer(c)
  PROVE  IInv'
  <1> DEFINE s == [service[c] EXCEPT !.pc = "answered"]
             w == Wire(Method(gateway[c].method).resp, service[c].answer)
  <1>1. /\ service[c].pc = "done" /\ gateway' = gateway
        /\ service' = [service EXCEPT ![c] = s] /\ wire' = [wire EXCEPT ![c] = w]
    BY DEF Answer, IInv, Shape
  <1>2. ServiceInv(gateway[c], service[c]) /\ HolderInv(gateway[c], service[c]) BY OfCall
  <1>3. s = [pc |-> "answered", seen |-> service[c].seen, uid |-> service[c].uid,
             holder |-> service[c].holder, answer |-> service[c].answer]
    BY <1>2 DEF ServiceInv
  <1> HIDE DEF s, w
  <1>4. ServiceInv(gateway[c], s) BY <1>1, <1>2, <1>3 DEF ServiceInv
  <1>5. WireInv(gateway[c], s, w) BY <1>3 DEF WireInv, w
  <1>6. HolderInv(gateway[c], s) BY <1>1, <1>2, <1>3 DEF HolderInv
  <1> QED BY <1>1, <1>4, <1>5, <1>6, ServiceStep

\* The gateway's record after replyJson.
LEMMA ReplyFields ==
  ASSUME NEW g, g = [pc |-> g.pc, method |-> g.method, asked |-> g.asked, sent |-> g.sent,
                     reply |-> g.reply],
         NEW reply
  PROVE  [g EXCEPT !.pc = "answered", !.reply = reply] =
           [pc |-> "answered", method |-> g.method, asked |-> g.asked, sent |-> g.sent,
            reply |-> reply]
  <1> DEFINE L == [g EXCEPT !.pc = "answered", !.reply = reply]
  <1>1. /\ L.pc = "answered"
        /\ L.method = g.method
        /\ L.asked = g.asked
        /\ L.sent = g.sent
        /\ L.reply = reply
    OBVIOUS
  <1>2. L = [n \in {"pc", "method", "asked", "sent", "reply"} |-> L[n]] OBVIOUS
  <1> HIDE DEF L
  <1>3. L = [pc |-> "answered", method |-> g.method, asked |-> g.asked, sent |-> g.sent, reply |-> reply]
    BY <1>1, <1>2
  <1> QED BY <1>3 DEF L

\* The gateway's handler replies with code k and data d.
LEMMA ReplyInv ==
  ASSUME IInv, NEW c \in Calls, NEW k \in Int32, NEW d, NEW w,
         gateway[c].pc = "waiting", Reply(c, k, d), service' = service,
         wire' = [wire EXCEPT ![c] = w], w \in {None, wire[c]},
         k = 0 => /\ service[c].pc = "answered" /\ service[c].answer.code = 0
                  /\ d = Data(gateway[c].method, service[c].answer),
         service[c].pc = "called" => w = wire[c]
  PROVE  IInv'
  <1> DEFINE reply == [code |-> k, data |-> d]
             g == [gateway[c] EXCEPT !.pc = "answered", !.reply = reply]
  <1>1. gateway' = [gateway EXCEPT ![c] = g] BY DEF Reply, IInv, Shape
  <1>2. service' = [service EXCEPT ![c] = service[c]] BY DEF IInv, Shape
  <1>3. reply.code = k /\ reply.data = d OBVIOUS
  <1> HIDE DEF reply
  <1>4. g = [pc |-> "answered", method |-> gateway[c].method, asked |-> gateway[c].asked,
             sent |-> gateway[c].sent, reply |-> reply]
    BY ReplyFields, OfCall DEF GatewayInv
  <1> HIDE DEF g
  <1>5. GatewayInv(g) BY <1>3, <1>4, OfCall DEF GatewayInv
  <1>6. ServiceInv(g, service[c])
    <2>1. ServiceInv(gateway[c], service[c]) BY OfCall
    <2> QED BY <1>4, <2>1 DEF ServiceInv
  <1>7. WireInv(g, service[c], w)
    <2>1. WireInv(gateway[c], service[c], wire[c]) BY OfCall
    <2> QED BY <1>4, <2>1 DEF WireInv
  <1>8. OkInv(g, service[c]) BY <1>3, <1>4 DEF OkInv
  <1>9. HolderInv(g, service[c])
    <2>1. HolderInv(gateway[c], service[c]) BY OfCall
    <2> QED BY <1>4, <2>1 DEF HolderInv
  <1>10. CallInv(g, service[c], w) BY <1>5, <1>6, <1>7, <1>8, <1>9 DEF CallInv
  <1> QED BY <1>1, <1>2, <1>10, OneCall

\* The gateway shows what the handler answered.
LEMMA ReceiveInv ==
  ASSUME IInv, NEW c \in Calls, Receive(c)
  PROVE  IInv'
  <1> DEFINE m == gateway[c].method
             F == Method(m).resp
             r == MessageOf(F, wire[c])
             a == service[c].answer
  <1>1. /\ gateway[c].pc = "waiting" /\ service[c].pc = "answered" /\ wire[c] # None
        /\ Reply(c, r.code, IF r.code = 0 THEN Data(m, r) ELSE None)
        /\ wire' = [wire EXCEPT ![c] = None] /\ service' = service
    BY DEF Receive
  <1>2. m \in Methods BY <1>1, OfCall DEF GatewayInv
  <1>3. a \in Response[m] BY <1>1, OfCall DEF ServiceInv, Readable
  <1>4. wire[c] = Wire(F, a) BY <1>1, OfCall DEF WireInv
  <1>5. r = a BY <1>2, <1>3, <1>4, ResponseObjects, RoundTrip
  <1>6. a.code \in Int32 BY <1>1, OfCall DEF ServiceInv, Readable
  <1> HIDE DEF r
  <1>7. Reply(c, a.code, IF a.code = 0 THEN Data(m, a) ELSE None) BY <1>1, <1>5
  <1> DEFINE d == IF a.code = 0 THEN Data(m, a) ELSE None
  <1>8. a.code = 0 => d = Data(m, a) OBVIOUS
  <1> HIDE DEF d
  <1>9. Reply(c, a.code, d) BY <1>7 DEF d
  <1> QED BY <1>1, <1>6, <1>8, <1>9, ReplyInv

\* A call that failed is never a success.
LEMMA RpcFailedInv ==
  ASSUME IInv, NEW c \in Calls, RpcFailed(c)
  PROVE  IInv'
  <1> DEFINE w == IF service[c].pc = "answered" THEN None ELSE wire[c]
  <1>1. /\ gateway[c].pc = "waiting" /\ Reply(c, 1, None) /\ service' = service
        /\ wire' = [wire EXCEPT ![c] = w]
    BY DEF RpcFailed, IInv, Shape
  <1>2. w \in {None, wire[c]} /\ (service[c].pc = "called" => w = wire[c]) OBVIOUS
  <1> HIDE DEF w
  <1>3. 1 \in Int32 BY IntAssumption
  <1>4. ~(1 = 0) OBVIOUS
  <1> QED BY <1>1, <1>2, <1>3, <1>4, ReplyInv

\* A service that dies has answered none of the calls it had.
LEMMA CrashInv ==
  ASSUME IInv, NEW methods, Crash(methods)
  PROVE  IInv'
  <1> DEFINE in == {c \in Calls : /\ gateway[c].method \in methods
                                  /\ service[c].pc \in {"called", "check", "work", "done"}}
  <1>1. /\ service' = [c \in Calls |-> IF c \in in THEN [service[c] EXCEPT !.pc = "gone"]
                                                    ELSE service[c]]
        /\ wire' = [c \in Calls |-> IF c \in in THEN None ELSE wire[c]]
        /\ gateway' = gateway
    BY DEF Crash
  <1>2. Shape' BY <1>1 DEF IInv, Shape
  <1>3. ASSUME NEW c \in Calls PROVE CallInv(gateway'[c], service'[c], wire'[c])
    <2>1. CASE c \notin in
      <3>1. gateway'[c] = gateway[c] /\ service'[c] = service[c] /\ wire'[c] = wire[c]
        BY <1>1, <2>1
      <3> QED BY <3>1 DEF IInv
    <2>2. CASE c \in in
      <3> DEFINE g == gateway[c]
                 s == [service[c] EXCEPT !.pc = "gone"]
      <3>1. gateway'[c] = g /\ service'[c] = s /\ wire'[c] = None BY <1>1, <2>2
      <3>2. service[c].pc \in {"called", "check", "work", "done"} BY <2>2
      <3>3. ServiceInv(g, service[c]) /\ GatewayInv(g) /\ OkInv(g, service[c]) BY OfCall
      <3>4. s = [pc |-> "gone", seen |-> service[c].seen, uid |-> service[c].uid,
                 holder |-> service[c].holder, answer |-> service[c].answer]
        BY <3>3 DEF ServiceInv
      <3> HIDE DEF s, g
      <3>5. ServiceInv(g, s) BY <3>2, <3>3, <3>4 DEF ServiceInv
      <3>6. WireInv(g, s, None) BY <3>4 DEF WireInv
      <3>7. OkInv(g, s) BY <3>2, <3>3 DEF OkInv
      <3>8. HolderInv(g, s) BY <3>4 DEF HolderInv
      <3> QED BY <3>1, <3>3, <3>5, <3>6, <3>7, <3>8 DEF CallInv
    <2> QED BY <2>1, <2>2
  <1> QED BY <1>2, <1>3 DEF IInv

\* Every step, and none, keeps the invariant.
LEMMA NextInv == IInv /\ [Next]_vars => IInv'
  <1> SUFFICES ASSUME IInv, [Next]_vars PROVE IInv' OBVIOUS
  <1>1. ASSUME NEW c \in Calls, Handle(c) PROVE IInv' BY <1>1, HandleInv
  <1>2. ASSUME NEW c \in Calls, Receive(c) PROVE IInv' BY <1>2, ReceiveInv
  <1>3. ASSUME NEW c \in Calls, RpcFailed(c) PROVE IInv' BY <1>3, RpcFailedInv
  <1>4. ASSUME NEW c \in Calls, Dispatch(c) PROVE IInv' BY <1>4, DispatchInv
  <1>5. ASSUME NEW c \in Calls, CheckToken(c) PROVE IInv' BY <1>5, CheckTokenInv
  <1>6. ASSUME NEW c \in Calls, Work(c) PROVE IInv' BY <1>6, WorkInv
  <1>7. ASSUME NEW c \in Calls, Answer(c) PROVE IInv' BY <1>7, AnswerInv
  <1>8. CASE Crash(DOMAIN UserService) BY <1>8, CrashInv
  <1>9. CASE Crash(DOMAIN FileService) BY <1>9, CrashInv
  <1>10. CASE UNCHANGED vars BY <1>10 DEF vars, IInv, Shape
  <1> QED
    BY <1>1, <1>2, <1>3, <1>4, <1>5, <1>6, <1>7, <1>8, <1>9, <1>10 DEF Next

\* The invariant holds always.
LEMMA SpecInv == Spec => []IInv
  <1> QED BY InitInv, NextInv, PTL DEF Spec

-----------------------------------------------------------------------------
(* What follows. *)

\* TypeOK: the objects on both sides stay of their messages' classes, and no handler of
\* a service runs without a request that it could read.
THEOREM GatewayTypeCorrect == Spec => []TypeOK
  <1>1. IInv => TypeOK
    <2> SUFFICES ASSUME IInv, NEW c \in Calls
                 PROVE  LET g == gateway[c]
                            s == service[c] IN
                          /\ g.pc \in {"idle", "waiting", "answered"}
                          /\ g.pc # "idle" => g.method \in Methods
                          /\ g.sent # None => g.sent \in Request[g.method]
                          /\ g.pc = "answered" => g.reply.code \in Int32
                          /\ s.pc \in {"idle", "called", "rejected", "check", "work", "done",
                                       "answered", "gone"}
                          /\ s.pc \in {"check", "work", "done", "answered"} =>
                               s.seen \in Request[g.method]
                          /\ s.pc \in {"done", "answered"} => s.answer \in Response[g.method]
                          /\ s.uid \in Int32
      BY DEF TypeOK
    <2> QED BY OfCall DEF GatewayInv, ServiceInv, Readable
  <1> QED BY SpecInv, <1>1, PTL

\* OkMeansDone: code 0, which is also the default of an answer that never came, reaches
\* the browser only from a handler that did its work, with what that handler answered.
THEOREM OkAnswersAreDone == Spec => []OkMeansDone
  <1>1. IInv => OkMeansDone BY OfCall DEF OkMeansDone, OkInv
  <1> QED BY SpecInv, <1>1, PTL

\* SeenAsAsked: a handler sees the request of the browser, through a wire on which
\* defaults are not written, with numbers of its width and texts that are UTF-8.
THEOREM RequestsAreSeenAsAsked == Spec => []SeenAsAsked
  <1>1. IInv => SeenAsAsked
    <2> SUFFICES ASSUME IInv, NEW c \in Calls, service[c].seen # None,
                        NEW f \in DOMAIN service[c].seen
                 PROVE  IF f \in NumberFields
                        THEN IF Fits(gateway[c].asked[f], Width(f))
                             THEN service[c].seen[f] = Value[gateway[c].asked[f]]
                             ELSE service[c].seen[f] = 0 /\ f # "chunk_index"
                        ELSE /\ service[c].seen[f] = gateway[c].asked[f]
                             /\ gateway[c].asked[f] \in Utf8 \/ f \in {"content", "chunk_data"}
      BY DEF SeenAsAsked
    <2> DEFINE m == gateway[c].method
               q == service[c].seen
               F == Method(m).req
    <2>1. /\ q \in Request[m] /\ AsAsked(gateway[c].asked, q) /\ Texts(F, q)
          /\ m \in Methods
      BY OfCall DEF ServiceInv, GatewayInv
    <2>2. Plain(F, Request[m]) /\ TextFields(F) BY <2>1, RequestsPlain
    <2>3. DOMAIN q = Names(F) BY <2>1, <2>2 DEF Plain, Over
    <2>4. PICK i \in DOMAIN F : F[i].name = f BY <2>3 DEF Names
    <2>5. F[i].kind = "string" \/ f \in NumberFields \cup {"content", "chunk_data"}
      BY <2>2, <2>4 DEF TextFields
    <2>6. F[i].kind = "string" => q[f] \in Utf8 BY <2>1, <2>4 DEF Texts
    <2> HIDE DEF q, F
    <2>7. AsAsked(gateway[c].asked, q) /\ f \in DOMAIN q BY <2>1 DEF q
    <2>8. IF f \in NumberFields
          THEN IF Fits(gateway[c].asked[f], Width(f)) THEN q[f] = Value[gateway[c].asked[f]]
               ELSE q[f] = 0 /\ f # "chunk_index"
          ELSE q[f] = gateway[c].asked[f]
      BY <2>7 DEF AsAsked
    <2> QED BY <2>5, <2>6, <2>8 DEF q
  <1> QED BY SpecInv, <1>1, PTL

\* OnlyTokenHolders: past its token check a handler of the file service acts under the
\* uid that the user service named in an answer to this very call.
THEOREM HoldersOnly == Spec => []OnlyTokenHolders
  <1>1. IInv => OnlyTokenHolders BY OfCall DEF OnlyTokenHolders, HolderInv
  <1> QED BY SpecInv, <1>1, PTL

\* AnswersAreReadable: the gateway's parser accepts every answer of a service.
THEOREM AnswersCanBeRead == Spec => []AnswersAreReadable
  <1>1. IInv => AnswersAreReadable
    <2> SUFFICES ASSUME IInv, NEW c \in Calls, service[c].pc = "answered", wire[c] # None
                 PROVE  Parses(Method(gateway[c].method).resp, wire[c])
      BY DEF AnswersAreReadable
    <2> DEFINE F == Method(gateway[c].method).resp
    <2>1. wire[c] = Wire(F, service[c].answer) BY OfCall DEF WireInv
    <2>2. Texts(F, service[c].answer) BY OfCall DEF ServiceInv, Readable
    <2> HIDE DEF F
    <2>3. Parses(F, wire[c]) BY <2>1, <2>2, TextsParse
    <2> QED BY <2>3 DEF F
  <1> QED BY SpecInv, <1>1, PTL
============================================================================
