----------------------------- MODULE QueryClient -----------------------------
(***************************************************************************)
(* BTqueryClient: a query is packed and sealed, sent by HTTP, and the      *)
(* answer opened under the key of the query.  The client keeps one key.    *)
(* The server and HTTP are not in the repository and are modelled from     *)
(* what the client expects: an answer is sealed under the key that the     *)
(* query carries, and may be cut short on its way.                         *)
(* The sizes of the code are constants: with chars of 8 bits, words of     *)
(* Int32 chars and so on the instances keep their relations, not their     *)
(* values.                                                                 *)
(***************************************************************************)
EXTENDS ByteBuffer, Sealing, FiniteSets

CONSTANTS
    Short,           \* chars of a uint16_t, 2 in the code
    InfoIdLen,       \* PL_INFOID_LEN, an even number of digits; 40 in the code
    PeerIdLen,       \* PL_PEERID_LEN, 16 in the code
    ReserveRoom,     \* the buffer of build_reserve6x, 316 in the code
    Version,         \* XL_THUNDER_SDK_VERSION
    ProductId,       \* XL_THUNDER_SDK_PRODUCT_ID
    CipherLen,       \* RES_QUERY_AES_CIPHER_LEN, 128 in the code
    Magic, KeyVersion,
    RsaEncrypt(_),   \* RSA_public_encrypt of OpenSSL, to CipherLen chars
    RsaDecrypt(_),   \* what the server does to get the key back
    Queries,         \* the QueryParams a caller makes
    Pointers,        \* where the packed parameters are in memory
    Responses,       \* what the server answers: records of QueryResponse
    MaxQueries       \* bounds the queries of a behaviour

ASSUME ClientAssumption ==
    /\ 256 <= CharBase
    /\ Short \in Nat \ {0} /\ PeerIdLen \in Nat \ {0}
    /\ InfoIdLen \in Nat \ {0} /\ InfoIdLen % 2 = 0
    /\ ReserveRoom \in Nat /\ CipherLen \in Nat \ {0}
    /\ Version \in Seq(CharSet) /\ ProductId \in Unsigned(Int32)
    /\ Magic \in Unsigned(Int32) /\ KeyVersion \in Unsigned(Int32)
    /\ Pointers \subseteq Unsigned(Int32)

(* A length is read as an int32_t, and no packet comes near its limit.     *)
ASSUME LengthsAssumption ==
    ReserveRoom + InfoIdLen + PeerIdLen + 7 * Int32 + 2 * Short + 2 * BlockSize
      < Power(Int32) \div 2

ASSUME ParametersAssumption ==
    /\ \A q \in Queries :
          /\ q.infohash \in Seq(-1..15) /\ q.peerid \in Seq(CharSet) /\ q.channel \in Seq(CharSet)
          /\ {q.version, q.seq, q.appid, q.compress} \subseteq Unsigned(Int32)
          /\ q.cmdId \in Unsigned(Short)
    /\ \A r \in Responses :
          /\ r.base \in Seq(CharSet) /\ Len(r.base) = 7 * Int32 + 2 * Short
          /\ r.file \in Seq(CharSet)
          /\ Len(r.base) + Int32 + Len(r.file) + 2 * BlockSize < Power(Int32)

VARIABLES
    userDataAesKey,  \* user_data_aes_key_, NoKey before the first query
    sent,            \* packets given to HTTP with their parameters
    answers,         \* answers on their way back, each to a place of sent
    returned         \* what the returned call returned

clientVars == <<userDataAesKey, sent, answers, returned>>

NoKey == <<>>
NoCall == [call |-> "none"]
Shell == Int32 * 3                          \* HUB_CMD_HEADER_LEN
RsaHeader == Int32 * 4 + CipherLen          \* RSA_ENCRYPT_HEADER_LEN

-----------------------------------------------------------------------------
(* btquery_client_common.cpp.                                              *)

(* A digit is its number, NoDigit a char that is none.                     *)
NoDigit == -1
GenSHA1InfoId(infohash) ==
    IF Len(infohash) % 2 # 0 THEN [ret |-> "EC_INFOID_SIZE"]
    ELSE IF \E i \in 1..Len(infohash) : infohash[i] = NoDigit THEN [ret |-> "EC_HEX_INFOID_UNKNOW"]
    ELSE [ret |-> "EC_SUCC",
          id  |-> [i \in 1..Len(infohash) \div 2 |-> infohash[2 * i - 1] * 16 + infohash[2 * i]]]

(* sd_u32_to_str: a digit for the number and for each quotient by 10, 100  *)
(* and so on that is not 0.                                                *)
ToStr(v) ==
    LET by10[k \in 0..9] == IF k = 0 THEN v ELSE by10[k - 1] \div 10
        more == Cardinality({k \in 1..9 : by10[k] # 0})
    IN [i \in 1..more + 1 |-> 48 + (by10[more + 1 - i] % 10)]

(* Nothing looks at what a write returns.  A string that does not fit is   *)
(* left out and its length counted, so that more than the buffer is        *)
(* returned.                                                               *)
ReserveLen(params) ==
    5 * Int32 + 2 * Len(Version) + Len(ToStr(params.appid)) + Len(params.channel)
BuildReserve6x(params) ==
    LET partner == ToStr(params.appid)
        c0 == Cursor(Zeros(ReserveRoom), ReserveRoom)
        c1 == SetToLt(c0, Int32, ReserveLen(params)).c
        c2 == SetBytes(SetToLt(c1, Int32, Len(Version)).c, Version).c
        c3 == SetToLt(c2, Int32, ProductId).c
        c4 == SetBytes(SetToLt(c3, Int32, Len(partner)).c, partner).c
        c5 == SetBytes(SetToLt(c4, Int32, Len(Version)).c, Version).c
        c6 == SetBytes(SetToLt(c5, Int32, Len(params.channel)).c, params.channel).c
    IN CharsAt(c6.mem, 1, ReserveLen(params) + Int32)

(* The packed parameters, or nothing.                                      *)
CmdLen(params, reserve, id) ==
    Int32 + Short + Len(reserve) + Short + (Len(id) + Int32) + Int32 + (Len(params.peerid) + Int32)
SetQueryParams(params, id) ==
    LET reserve == BuildReserve6x(params)
        cmdLen  == CmdLen(params, reserve, id)
        size    == cmdLen + Shell
        c0 == Cursor(Zeros(size), size)
        c1 == PushValue(c0, Int32, params.version).c
        c2 == PushValue(c1, Int32, params.seq).c
        c3 == PushValue(c2, Int32, cmdLen).c
        c4 == PushValue(c3, Int32, 0).c
        c5 == PushValue(c4, Short, 0).c
        c6 == PushBytes(c5, reserve).c
        c7 == PushValue(c6, Short, params.cmdId).c
        c8 == PushCStr(c7, id).c
        c9 == PushValue(c8, Int32, params.compress).c
        c10 == PushCStr(c9, params.peerid).c
    IN IF ErrorOccur(c10) THEN <<>> ELSE c10.mem

-----------------------------------------------------------------------------
(* shub_encrypt.c: the key under RSA, for OpenSSL.                         *)

ResQueryRsaPubEncrypt(text, keyVersion) ==
    IF keyVersion # KeyVersion THEN [ret |-> "-1"]
    ELSE IF Len(text) > CipherLen THEN [ret |-> "-4"]
    ELSE [ret |-> "SUCCESS", encrypted |-> RsaEncrypt(text)]

BuildRsaEncryptHeader(key, dataLen) ==
    LET sealed == ResQueryRsaPubEncrypt(key, KeyVersion)
        c0 == Cursor(Zeros(RsaHeader), RsaHeader)
        c1 == SetToLt(c0, Int32, Magic).c
        c2 == SetToLt(c1, Int32, KeyVersion).c
        c3 == SetToLt(c2, Int32, CipherLen).c
        c4 == SetBytes(c3, sealed.encrypted).c
        c5 == SetToLt(c4, Int32, dataLen).c
    IN IF sealed.ret # "SUCCESS" \/ Len(sealed.encrypted) # CipherLen THEN [ret |-> "-1"]
       ELSE [ret |-> "SUCCESS", text |-> c5.mem]

-----------------------------------------------------------------------------
(* btquery_client.cpp.                                                     *)

Rounded(n) == ((n + BlockSize) \div BlockSize) * BlockSize

(* What packLen allows for the two paddings.                               *)
PackLen(userDataLen) == Rounded(Rounded(userDataLen - Shell) + Shell) + RsaHeader

(* The header and the sealed text, one after the other in a buffer of n.   *)
PacketOf(header, sealed, n) ==
    Overwritten(Overwritten(Zeros(n), 1, header), RsaHeader + 1, sealed)

EncodePacked(packed, key) ==
    LET sealed == AesEncryptWithKnownKey(XlAesEncrypt(packed).out, key).out
        header == BuildRsaEncryptHeader(key, Len(sealed))
        n      == PackLen(Len(packed))
    IN IF packed = <<>> THEN [ret |-> "EC_SET_QUERY_PARAMS"]
       ELSE IF header.ret # "SUCCESS" THEN [ret |-> "EC_BUILD_RSA_ENCRYPT"]
       ELSE [ret |-> "EC_SUCC", key |-> key, packet |-> PacketOf(header.text, sealed, n),
             over |-> Len(sealed) + RsaHeader - n]

EncodeQueryParams(params, ptr) ==
    LET id == GenSHA1InfoId(params.infohash)
    IN IF Len(params.infohash) # InfoIdLen \/ Len(params.peerid) # PeerIdLen
       THEN [ret |-> "EC_PARAMS"]
       ELSE IF id.ret # "EC_SUCC" THEN id
       ELSE EncodePacked(SetQueryParams(params, id.id), GenAesKeyByUserData(ptr))

(* The fixed part of a response: version, seq, len, client_ver,            *)
(* compress_flag, padding_len, cmd_id, result, compress and the length of  *)
(* the file.  Only the file is told apart from the rest.                   *)
RespBaseLen == 8 * Int32 + 2 * Short
ParserBufferToStruct(text) ==
    LET fileLen == NumberOf(SubSeq(text, RespBaseLen - Int32 + 1, RespBaseLen))
    IN IF RespBaseLen > Len(text) \/ Len(text) - RespBaseLen < fileLen
       THEN [ret |-> "EC_ERROR"]
       ELSE [ret  |-> "EC_SUCC",
             base |-> SubSeq(text, 1, RespBaseLen - Int32),
             file |-> SubSeq(text, RespBaseLen + 1, RespBaseLen + fileLen)]

(* A result shorter than a word has a body of length 0; stray is the char  *)
(* before the buffer of the decryption.                                    *)
DecodeQueryResult(result, key, stray) ==
    LET len    == GetFromLt(Cursor(result, Len(result)), Int32)
        body   == IF len.ret = "OK" THEN len.value ELSE 0
        opened == AesDecryptWithKnownKey(SubSeq(result, Int32 + 1, Int32 + body), key, stray)
        inner  == XlAesDecrypt(opened.out, stray)
        read   == ParserBufferToStruct(inner.out)
    IN IF body > len.c.left THEN [ret |-> "EC_DECODE_BODY_LEN_ERROR"]
       ELSE IF opened.ret # "SUCCESS" THEN [ret |-> "EC_AES_DECRYPT_WITH_KEY"]
       ELSE IF inner.ret # "SUCCESS" THEN [ret |-> "EC_AES_DECRYPT"]
       ELSE IF read.ret # "EC_SUCC" THEN [ret |-> "EC_PARSER_BUF_TO_STRUCT"]
       ELSE read

-----------------------------------------------------------------------------
(* The server, as the client expects it.                                   *)

PacketBody(packet) ==
    LET len == NumberOf(SubSeq(packet, RsaHeader - Int32 + 1, RsaHeader))
    IN SubSeq(packet, RsaHeader + 1, RsaHeader + len)
KeyIn(packet) == RsaDecrypt(SubSeq(packet, 3 * Int32 + 1, 3 * Int32 + CipherLen))
ServerReads(packet) ==
    XlAesDecrypt(AesDecryptWithKnownKey(PacketBody(packet), KeyIn(packet), 0).out, 0)

ResponseText(resp) == resp.base \o Chars(Len(resp.file), Int32) \o resp.file
ServerAnswers(packet, resp) ==
    LET body == AesEncryptWithKnownKey(XlAesEncrypt(ResponseText(resp)).out, KeyIn(packet)).out
    IN Chars(Len(body), Int32) \o body

-----------------------------------------------------------------------------

QueryInit ==
    /\ userDataAesKey = NoKey
    /\ sent = <<>>
    /\ answers = {}
    /\ returned = NoCall

(* Mutant of Encoded: the key of the first query stays. *)
EncodedOnce(params, r) ==
    /\ returned' = [call |-> "encode", ret |-> r.ret]
    /\ IF r.ret = "EC_SUCC"
       THEN /\ userDataAesKey' = IF userDataAesKey = NoKey THEN r.key ELSE userDataAesKey
            /\ sent' = Append(sent, [params |-> params, packet |-> r.packet, over |-> r.over])
       ELSE UNCHANGED <<userDataAesKey, sent>>

(* What becomes of the result r of encoding params.                        *)
Encoded(params, r) ==
    /\ returned' = [call |-> "encode", ret |-> r.ret]
    /\ IF r.ret = "EC_SUCC"
       THEN /\ userDataAesKey' = r.key
            /\ sent' = Append(sent, [params |-> params, packet |-> r.packet, over |-> r.over])
       ELSE UNCHANGED <<userDataAesKey, sent>>

Encode(params, ptr) ==
    /\ Len(sent) < MaxQueries
    /\ Encoded(params, EncodeQueryParams(params, ptr))
    /\ UNCHANGED answers

(* HTTP gives the client n chars less than the server sent, up to a word.  *)
Answer(i, resp, n) ==
    LET whole == ServerAnswers(sent[i].packet, resp)
    IN /\ answers = {}
       /\ answers' = {[to |-> i, resp |-> resp, cut |-> n,
                       text |-> SubSeq(whole, 1, Len(whole) - n)]}
       /\ returned' = NoCall
       /\ UNCHANGED <<userDataAesKey, sent>>

Decode(a) ==
    /\ answers' = answers \ {a}
    /\ returned' = [call |-> "decode", to |-> a.to, of |-> Len(sent), resp |-> a.resp,
                    cut |-> a.cut, read |-> DecodeQueryResult(a.text, userDataAesKey, 0)]
    /\ UNCHANGED <<userDataAesKey, sent>>

QueryNext ==
    \/ \E params \in Queries, ptr \in Pointers : Encode(params, ptr)
    \/ \E i \in 1..Len(sent), resp \in Responses, n \in 0..Int32 : Answer(i, resp, n)
    \/ \E a \in answers : Decode(a)

QuerySpec == QueryInit /\ [][QueryNext]_clientVars

-----------------------------------------------------------------------------

(* What the server reads from a packet, one after the other.  The reserve  *)
(* is a string whose length is its first word.                             *)
CarriesReserve(reserve, params) ==
    LET product == PopString(Cursor(reserve, Len(reserve)))
        id      == PopValue(product.c, Int32)
        partner == PopString(id.c)
        thunder == PopString(partner.c)
        channel == PopString(thunder.c)
    IN /\ product.value = Version /\ id.value = ProductId
       /\ partner.value = ToStr(params.appid)
       /\ thunder.value = Version /\ channel.value = params.channel
       /\ channel.c.left = 0

Carries(text, params) ==
    LET version   == PopValue(Cursor(text, Len(text)), Int32)
        seq       == PopValue(version.c, Int32)
        clientVer == PopValue(PopValue(seq.c, Int32).c, Int32)
        flag      == PopValue(clientVer.c, Short)
        reserve   == PopString(flag.c)
        cmdId     == PopValue(reserve.c, Short)
        id        == PopString(cmdId.c)
        compress  == PopValue(id.c, Int32)
        peerid    == PopString(compress.c)
    IN /\ version.value = params.version /\ seq.value = params.seq
       /\ CarriesReserve(reserve.value, params)
       /\ cmdId.value = params.cmdId /\ id.value = GenSHA1InfoId(params.infohash).id
       /\ compress.value = params.compress /\ peerid.value = params.peerid
       /\ peerid.c.left = 0

Fits(params) == Len(BuildReserve6x(params)) <= ReserveRoom

(* A query whose channel fits its buffer is packed in exactly the space    *)
(* that was taken for it, and the server that has the private key reads    *)
(* from it all the parameters of the caller: the lengths in front of the   *)
(* strings, the two paddings and the two ciphers agree.                    *)
QueriesOpen ==
    returned.call = "encode" /\ returned.ret = "EC_SUCC" =>
        LET query == sent[Len(sent)]
            read  == ServerReads(query.packet)
        IN /\ query.over = 0
           /\ Fits(query.params) => read.ret = "SUCCESS" /\ Carries(read.out, query.params)

(* The answer to the query encoded last is read as the server wrote it,    *)
(* but for the word where xl_aes_encrypt puts a length, and one that was   *)
(* cut short is refused.  (That of an earlier query may not be: its key is *)
(* gone.)                                                                  *)
LastAnswerIsRead ==
    returned.call = "decode" /\ returned.to = returned.of =>
        IF returned.cut > 0 THEN returned.read.ret # "EC_SUCC"
        ELSE /\ returned.read.ret = "EC_SUCC"
             /\ returned.read.file = returned.resp.file
             /\ \A i \in (1..Len(returned.resp.base)) \ (2 * Int32 + 1..3 * Int32) :
                    returned.read.base[i] = returned.resp.base[i]

(* A packet gives the server the query, and its answer gives the client    *)
(* the result.                                                             *)
QueriesAnswered == QueriesOpen /\ LastAnswerIsRead
=============================================================================
