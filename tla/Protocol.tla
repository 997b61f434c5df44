------------------------------ MODULE Protocol ------------------------------
(***************************************************************************)
(* One connection from its bytes to its bytes: Buffer::read_fd, the choice *)
(* of the protocol in TcpConnection::process, the framing and the dispatch *)
(* of ProtobufHandler, the HTTP parser and response, and the partial       *)
(* writes of TcpConnection::write with the end of Webserver::OnWrite_.     *)
(*                                                                         *)
(* A byte of the model is a record that stands for a run of octets which   *)
(* TCP does not cut: [digit] in a frame, [text], [eol], [header] and       *)
(* [body] in an HTTP request. The client sends a script of messages and    *)
(* the network delivers them cut at any byte. Who may touch the connection *)
(* when, and the pushes, are the subject of Connection; here one event is  *)
(* handled at a time, and a system call of the write loop is one step.     *)
(***************************************************************************)
EXTENDS Buffer, Functions

CONSTANTS
    Scripts,          \* the messages a client may send: sequences of frames or of requests
    MaxMessages,      \* the longest script
    Envelope,         \* the envelope of each payload that parses
    Resources,        \* the files under src_dir: path -> [size, public]
    is_et,            \* edge-triggered connections (main.cpp passes trig_mode 3)
    InitSize,         \* INIT_BUFFER_SIZE
    Radix,            \* digits of the length prefix
    kHeaderSize,      \* 4 in the code
    kMaxMessageSize,  \* 1 << 20
    WriteLimit        \* 10240

NoFile == ""

\* The bytes of responses: status line and headers, Content-length (or the length prefix
\* of a frame), the body of an error for which there is no page, a byte of a file, and
\* the reply to a frame.
Status(code, keep) == [code |-> code, keep |-> keep]
ContentLength(n) == [len |-> n]
ErrorBody(code) == [error |-> code]
FileByte(file, i) == [file |-> file, at |-> i]
ReplyTo(payload, reply) == [to |-> payload, reply |-> reply]

Codes == {200, 400, 403, 404}
Replies == {"empty", "CMD_UNKNOWN", "missing", "success", "failure", "unauthorized", "done"}
Lengths == {1} \cup {Resources[p].size : p \in DOMAIN Resources}

StatusBytes == {Status(c, k) : c \in Codes, k \in BOOLEAN}
FileData == UNION {{FileByte(p, i) : i \in 1 .. Resources[p].size} : p \in DOMAIN Resources}
ReplyBytes == {ReplyTo(p, r) : p \in DOMAIN Envelope, r \in Replies}

AnswerByte ==
    StatusBytes \cup {ContentLength(n) : n \in Lengths} \cup {ErrorBody(c) : c \in Codes}
    \cup FileData \cup ReplyBytes

ASSUME ProtocolAssumption ==
    /\ is_et \in BOOLEAN /\ InitSize \in Nat
    /\ \A p \in DOMAIN Resources : Resources[p].size \in Nat \ {0}
    /\ NoFile \notin DOMAIN Resources
    /\ AnswerByte \subseteq Byte

VARIABLES
    script,       \* the client's messages
    stream,       \* their bytes that are not delivered yet
    clean,        \* every message so far came whole, and after the last answer
    socket,       \* delivered, not read
    read_buff_, write_buff_,
    conn_type_,   \* "NONE" until protocol_determined_
    user_id_,     \* 0, or the user who logged in
    request_,     \* the HTTP request: method, path, version, headers and body
    iov_,         \* iov_[0] in write_buff_, iov_[1] in the mapped file
    conn,         \* the event armed: "in" or "out", or "closed"
    got,          \* the requests the handlers have taken
    answers,      \* the bytes of the responses they have made
    received      \* the bytes the client has received

vars == <<script, stream, clean, socket, read_buff_, write_buff_, conn_type_, user_id_,
          request_, iov_, conn, got, answers, received>>

Digit(d) == [digit |-> d]
Text(t) == [text |-> t]
CR == [eol |-> "CR"]
LF == [eol |-> "LF"]
CRLF == <<CR, LF>>
Get == <<Text("GE"), Text("T")>>
Post == <<Text("PO"), Text("ST")>>

----------------------------------------------------------------------------
(* What the client means, and the bytes it sends.                          *)

IsFrame(m) == "payload" \in DOMAIN m

\* The sequences of ss after the nth, one after the other.
Joined(ss, n) ==
    LET last[k \in 0 .. Len(ss)] ==
            IF k = 0 THEN <<>> ELSE ss[Len(ss) - k + 1] \o last[k - 1]
    IN  last[Len(ss) - n]

RequestLine(m) == m.method \o <<Text(m.path), Text(m.version)>>

HeaderLines(m) == [i \in 1 .. Len(m.headers) |-> <<[header |-> m.headers[i]]>> \o CRLF]

\* A request line, headers, the empty line and perhaps a body.
EncodeRequest(m) ==
    RequestLine(m) \o (CRLF \o (Joined(HeaderLines(m), 0) \o (CRLF \o m.body)))

\* [4-byte length (big-endian)] [protobuf payload]
EncodeFrame(m) ==
    <<Digit(Len(m.payload) \div Radix), Digit(Len(m.payload) % Radix)>> \o m.payload

Encode(m) == IF IsFrame(m) THEN EncodeFrame(m) ELSE EncodeRequest(m)

InBytes(m) == Encode(m) \in Seq(Byte) /\ (IsFrame(m) => m.payload \in Seq(Byte))

\* A GET or a POST whose body is one line.
IsRequest(m) ==
    /\ ~IsFrame(m) /\ m.method \in {Get, Post}
    /\ {m.path, m.version} \subseteq STRING /\ m.headers \in Seq(STRING)
    /\ m.body \in Seq(Byte) /\ \A i \in DOMAIN m.body : m.body[i] # CR

\* A client sends bytes, frames or requests, and a length has two digits here.
ASSUME ClientAssumption ==
    /\ Radix \in Nat \ {0} /\ kHeaderSize = 2
    /\ {kMaxMessageSize, MaxMessages} \subseteq Nat
    /\ \A s \in Scripts :
          /\ Len(s) \in 0 .. MaxMessages /\ DOMAIN s = 1 .. Len(s)
          /\ \A i \in DOMAIN s : InBytes(s[i])
          /\ (\A i \in DOMAIN s : IsFrame(s[i])) \/ (\A i \in DOMAIN s : IsRequest(s[i]))

\* The bytes of the messages after the nth.
EncodeFrom(ms, n) == Joined([i \in 1 .. Len(ms) |-> Encode(ms[i])], n)

----------------------------------------------------------------------------
(* HttpRequest::parse, http/httprequest.cpp.                               *)

DefaultHtml == {"/index", "/register", "/login", "/welcome", "/video", "/picture"}

InitRequest == [method |-> <<>>, path |-> "", version |-> "", headers |-> {}, body |-> <<>>]

\* Method (two bytes of the model), path and version; a trailing CR goes to the version.
IsRequestLine(line) ==
    /\ Len(line) \in {4, 5} /\ \A i \in 1 .. 4 : "text" \in DOMAIN line[i]
    /\ Len(line) = 5 => line[5] = CR

IsHeader(line) == Len(line) = 1 /\ "header" \in DOMAIN line[1]

ParsePath(path) ==
    IF path = "/" THEN "/index.html" ELSE
    IF path \in DefaultHtml THEN path \o ".html" ELSE path

\* ParsePost_: the body is a form for UserVerify, whose result decides the page.
IsForm(req) ==
    /\ req.method = Post /\ "form" \in req.headers
    /\ req.path \in {"/login.html", "/register.html"}

VerifiedPath(verified) == IF verified THEN "/welcome.html" ELSE "/error.html"

\* A parser p is at the start of a line: its state_, the buffer, what it knows of the
\* request, and whether ParsePost_ found a form.
ParseRequestLine(p, line) ==
    IF IsRequestLine(line)
    THEN [p EXCEPT !.state_ = "HEADERS",
                   !.req = [method |-> SubSeq(line, 1, 2), path |-> ParsePath(line[3].text),
                            version |-> IF Len(line) = 4 THEN line[4].text ELSE "other",
                            headers |-> {}, body |-> <<>>]]
    ELSE p

\* A plausible bug: the request ends at the empty line.
ParseHeaderEnds(p, line) ==
    IF IsHeader(line)
    THEN [p EXCEPT !.req.headers = @ \cup {line[1].header}]
    ELSE [p EXCEPT !.state_ = "FINISH"]

ParseHeader(p, line) ==
    IF IsHeader(line)
    THEN [p EXCEPT !.req.headers = @ \cup {line[1].header}]
    ELSE [p EXCEPT !.state_ = "BODY"]

ParseBody(p, line) ==
    [p EXCEPT !.state_ = "FINISH", !.req.body = line, !.form = IsForm(p.req)]

EndsAt(c, i) == i < Len(c) /\ c[i] = CR /\ c[i + 1] = LF

\* std::search: where the first CRLF is, or the end of the data.
LineEnd(c) ==
    CHOOSE i \in 1 .. Len(c) + 1 :
        (i = Len(c) + 1 \/ EndsAt(c, i)) /\ \A j \in 1 .. i - 1 : ~EndsAt(c, j)

FirstLine(b) == SubSeq(Contents(b), 1, LineEnd(Contents(b)) - 1)

\* Past the CRLF, or retrieve_all if there is none.
SkipLine(b) ==
    LET end == LineEnd(Contents(b))
    IN  IF end > Readable(b) THEN RetrieveAll(b) ELSE Retrieve(b, end + 1)

\* One turn of the loop of parse: it takes a line.  A request line that is none ends it
\* with nothing taken; the FINISH for two octets or less comes with an empty buffer.
ParseLine(p) ==
    LET line == FirstLine(p.buff)
        parsed == CASE p.state_ = "REQUEST_LINE" -> ParseRequestLine(p, line)
                    [] p.state_ = "HEADERS" -> ParseHeader(p, line)
                    [] OTHER -> ParseBody(p, line)
    IN  IF Readable(p.buff) = 0 \/ p.state_ = "FINISH" \/ parsed.state_ = "REQUEST_LINE"
        THEN p ELSE [parsed EXCEPT !.buff = SkipLine(p.buff)]

NewParser(b) == [state_ |-> "REQUEST_LINE", buff |-> b, req |-> InitRequest, form |-> FALSE]

\* The turns of the loop: each takes a byte, or none is left to take.  (With the set
\* TLC computes a turn once.)
Parse(b) ==
    LET turn[k \in 0 .. Readable(b)] ==
            IF k = 0 THEN NewParser(b)
            ELSE CHOOSE q \in {ParseLine(p) : p \in {turn[k - 1]}} : TRUE
    IN  turn[Readable(b)]

\* What parse returns.
Parsed(p) == p.state_ # "REQUEST_LINE"

IsKeepAlive(req) == "keep-alive" \in req.headers /\ req.version = " HTTP/1.1"

----------------------------------------------------------------------------
(* HttpResponse::MakeResponse, http/httpreponse.cpp.  src_dir itself, the  *)
(* path of a request that did not parse, is a directory.                   *)

CodePath(code) == CASE code = 400 -> "/400.html" [] code = 403 -> "/403.html"
                    [] code = 404 -> "/404.html" [] OTHER -> NoFile

Code(path, code) ==
    IF path \notin DOMAIN Resources THEN 404
    ELSE IF ~Resources[path].public THEN 403 ELSE code

ErrorContent(code) == [head |-> <<ContentLength(1), ErrorBody(code)>>, file |-> NoFile]

\* The file is mapped, or there is no page for the code either.
AddContent(page, code) ==
    IF page \in DOMAIN Resources
    THEN [head |-> <<ContentLength(Resources[page].size)>>, file |-> page]
    ELSE ErrorContent(code)

\* Status line, headers and content.
MakeResponse(path, keep, code0) ==
    LET code == Code(path, code0)
        content == AddContent(IF code = 200 THEN path ELSE CodePath(code), code)
    IN  [content EXCEPT !.head = <<Status(code, keep)>> \o @]

FileBytes(file, at, len) == [i \in 1 .. len |-> FileByte(file, at + i)]

FileLen(file) == IF file = NoFile THEN 0 ELSE Resources[file].size

\* What the iovecs point at.
IovBytes == SubSeq(write_buff_.buffer_, iov_.base + 1, iov_.base + iov_.len0)
            \o FileBytes(iov_.file, iov_.at, iov_.len1)

Unsent == IF conn_type_ = "HTTP" THEN IovBytes ELSE Contents(write_buff_)

----------------------------------------------------------------------------
Init ==
    /\ script \in Scripts
    /\ stream = EncodeFrom(script, 0) /\ clean = TRUE
    /\ socket = <<>>
    /\ read_buff_ = NewBuffer(InitSize) /\ write_buff_ = NewBuffer(InitSize)
    /\ conn_type_ = "NONE" /\ user_id_ = 0
    /\ request_ = InitRequest
    /\ iov_ = [base |-> 0, len0 |-> 0, file |-> NoFile, at |-> 0, len1 |-> 0]
    /\ conn = "in"
    /\ got = <<>> /\ answers = <<>> /\ received = <<>>

\* The network delivers the next n bytes.  The message is whole if they are exactly
\* the next one, and all that was sent before it has been answered.
Arrive(n) ==
    /\ conn # "closed" /\ n \in 1 .. Len(stream)
    /\ socket' = socket \o SubSeq(stream, 1, n)
    /\ stream' = SubSeq(stream, n + 1, Len(stream))
    /\ clean' = /\ clean
                /\ socket = <<>> /\ conn = "in"
                /\ \E k \in 1 .. Len(script) :
                     /\ stream = EncodeFrom(script, k - 1)
                     /\ n = Len(Encode(script[k]))
    /\ UNCHANGED <<script, read_buff_, write_buff_, conn_type_, user_id_, request_, iov_,
                   conn, got, answers, received>>

\* is_http_request: four octets, two bytes of the model, are enough to tell.
IsHttpRequest(c) ==
    Len(c) >= 2 /\ <<c[1], c[2]>> \in {Get, Post}

ConnType(c) == IF conn_type_ # "NONE" THEN conn_type_
               ELSE IF IsHttpRequest(c) THEN "HTTP" ELSE "PROTOBUF"

SetupIov(out, file) ==
    [base |-> out.readPos_, len0 |-> Readable(out), file |-> file, at |-> 0, len1 |-> FileLen(file)]

\* HttpHandler::Process for the request p: there is always a response.  UserVerify is
\* in AuthService.
RespondHttp(p, verified) ==
    LET keep == IsKeepAlive(p.req)
        path == IF p.form THEN VerifiedPath(verified) ELSE p.req.path
        resp == MakeResponse(path, keep, IF Parsed(p) THEN 200 ELSE 400)
        out == AppendBytes(write_buff_, resp.head)
    IN  /\ read_buff_' = p.buff
        /\ request_' = p.req
        /\ write_buff_' = out
        /\ iov_' = SetupIov(out, resp.file)
        /\ got' = Append(got, p.req)
        /\ answers' = answers \o resp.head \o FileBytes(resp.file, 0, FileLen(resp.file))
        /\ conn' = "out"
        /\ UNCHANGED user_id_

ProcessHttp(b) == \E p \in {Parse(b)} : \E verified \in BOOLEAN : RespondHttp(p, verified)

\* HandleRegister and HandleLogin; what the service does is in AuthService.
HandleAccount(env, success) ==
    IF ~env.has THEN "missing" ELSE IF success THEN "success" ELSE "failure"

\* HandleAddFriend, HandleHandleFriend, HandleGetFriendList, HandleP2PMsg and
\* HandleSyncMessages: the user must be logged in, and the payload must be there.
HandleForUser(env, user) ==
    IF user = 0 THEN "unauthorized" ELSE IF ~env.has THEN "missing" ELSE "done"

\* Dispatch, as far as the reply shows.
Reply(env, user, success) ==
    CASE env.cmd = "HEARTBEAT" -> "empty"
      [] env.cmd = "UNKNOWN" -> "CMD_UNKNOWN"
      [] env.cmd \in {"LOGIN", "REGISTER"} -> HandleAccount(env, success)
      [] OTHER -> HandleForUser(env, user)

\* The length prefix, big-endian.  Four octets of text make a length above 1 << 29.
FrameLength(c) ==
    IF \A i \in 1 .. kHeaderSize : "digit" \in DOMAIN c[i]
    THEN c[1].digit * Radix + c[2].digit ELSE kMaxMessageSize + 1

\* TryDecodeMessage finds no message: too few bytes, or too large a length (the
\* prefix is dropped), or a payload that does not parse (the frame is dropped).
NoMessage(b, c) ==
    LET len == FrameLength(c)
    IN  /\ read_buff_' = IF Len(c) < kHeaderSize THEN b
                         ELSE IF len > kMaxMessageSize THEN Retrieve(b, kHeaderSize)
                         ELSE IF Len(c) < kHeaderSize + len THEN b
                         ELSE Retrieve(b, kHeaderSize + len)
        /\ conn' = "in"
        /\ UNCHANGED <<write_buff_, user_id_, request_, iov_, got, answers>>

HasMessage(c) ==
    /\ Len(c) >= kHeaderSize
    /\ LET len == FrameLength(c)
       IN  /\ len <= kMaxMessageSize /\ Len(c) >= kHeaderSize + len
           /\ SubSeq(c, kHeaderSize + 1, kHeaderSize + len) \in DOMAIN Envelope

\* ProtobufHandler::Process: one message is taken, dispatched and answered.  A login
\* may succeed with id 0, when FindByUsername fails.
ProcessProtobuf(b, c) ==
    LET len == FrameLength(c)
        payload == SubSeq(c, kHeaderSize + 1, kHeaderSize + len)
        env == Envelope[payload]
    IN  IF ~HasMessage(c) THEN NoMessage(b, c) ELSE
        \E success \in BOOLEAN, id \in {0, 1} :
            LET reply == <<ContentLength(1), ReplyTo(payload, Reply(env, user_id_, success))>>
            IN  /\ read_buff_' = Retrieve(b, kHeaderSize + len)
                /\ user_id_' = IF env.cmd = "LOGIN" /\ env.has /\ success THEN id ELSE user_id_
                /\ write_buff_' = AppendBytes(write_buff_, reply)
                /\ got' = Append(got, payload)
                /\ answers' = answers \o reply
                /\ conn' = "out"
                /\ UNCHANGED <<request_, iov_>>

\* OnRead_ and OnProcess_: read until EAGAIN, fix the protocol, let its handler run.
OnRead ==
    /\ conn = "in" /\ socket # <<>>
    /\ socket' = <<>>
    /\ \E b \in {ReadFd(read_buff_, socket)} : \E c \in {Contents(b)} :
           /\ conn_type_' = ConnType(c)
           /\ IF conn_type_' = "HTTP" THEN ProcessHttp(b) ELSE ProcessProtobuf(b, c)
    /\ UNCHANGED <<script, stream, clean, received>>

\* A plausible bug: the level-triggered break in every mode.
AfterWriteBreak(left) ==
    IF left = 0
    THEN IF conn_type_ = "PROTOBUF" \/ IsKeepAlive(request_) THEN "in" ELSE "closed"
    ELSE IF left < WriteLimit THEN "closed" ELSE "out"

\* A plausible bug: after EAGAIN the connection waits for input.
AfterWriteArmsRead(left) ==
    IF left > 0 \/ conn_type_ = "PROTOBUF" \/ IsKeepAlive(request_) THEN "in" ELSE "closed"

\* OnWrite_ after a write call that left `left` bytes: all is written, and the
\* connection is kept or closed; or the loop goes on, until EAGAIN arms EPOLLOUT
\* again; or, level-triggered and with little left, the loop ends and, ret being
\* positive, OnWrite_ closes the connection.
AfterWrite(left) ==
    IF left = 0
    THEN IF conn_type_ = "PROTOBUF" \/ IsKeepAlive(request_) THEN "in" ELSE "closed"
    ELSE IF ~is_et /\ left < WriteLimit THEN "closed" ELSE "out"

\* A plausible bug: the file is not advanced by what the header did not take.
AdvanceWhole(n) ==
    IF n > iov_.len0
    THEN [iov_ EXCEPT !.at = @ + n, !.len1 = @ - (n - iov_.len0), !.len0 = 0]
    ELSE [iov_ EXCEPT !.base = @ + n, !.len0 = @ - n]

\* The iovecs after writev has sent n bytes.
Advance(n) ==
    IF n > iov_.len0
    THEN [iov_ EXCEPT !.at = @ + n - iov_.len0, !.len1 = @ - (n - iov_.len0), !.len0 = 0]
    ELSE [iov_ EXCEPT !.base = @ + n, !.len0 = @ - n]

\* writev takes n bytes of the header and the mapped file.
WriteHttp(n) ==
    /\ conn = "out" /\ conn_type_ = "HTTP" /\ n \in 1 .. Len(IovBytes)
    /\ received' = received \o SubSeq(IovBytes, 1, n)
    /\ iov_' = Advance(n)
    /\ write_buff_' = IF n <= iov_.len0 THEN Retrieve(write_buff_, n)
                      ELSE IF iov_.len0 > 0 THEN RetrieveAll(write_buff_) ELSE write_buff_
    /\ conn' = AfterWrite(Len(IovBytes) - n)
    /\ UNCHANGED <<script, stream, clean, socket, read_buff_, conn_type_, user_id_, request_,
                   got, answers>>

\* write_fd takes n bytes of the write buffer.
WriteProtobuf(n) ==
    /\ conn = "out" /\ conn_type_ = "PROTOBUF" /\ n \in 1 .. Readable(write_buff_)
    /\ received' = received \o SubSeq(Contents(write_buff_), 1, n)
    /\ write_buff_' = WriteFd(write_buff_, n)
    /\ conn' = AfterWrite(Readable(write_buff_) - n)
    /\ UNCHANGED <<script, stream, clean, socket, read_buff_, conn_type_, user_id_, request_,
                   iov_, got, answers>>

OnWrite == \E n \in 1 .. Len(Unsent) : WriteHttp(n) \/ WriteProtobuf(n)

Next == (\E n \in 1 .. Len(stream) : Arrive(n)) \/ OnRead \/ OnWrite

Spec == Init /\ [][Next]_vars

\* An event that is armed and due is delivered, and its worker runs; the socket of a
\* client that reads becomes writable again.
FairSpec == Spec /\ WF_vars(OnRead) /\ WF_vars(OnWrite)

----------------------------------------------------------------------------
(* Properties.                                                             *)

\* The bytes of the client that no handler has taken.
Unread == Contents(read_buff_) \o socket \o stream

MeantBy(m) ==
    IF IsFrame(m) THEN m.payload
    ELSE [method |-> m.method, path |-> ParsePath(m.path), version |-> m.version,
          headers |-> Range(m.headers), body |-> m.body]

\* A frame that does not parse is no request.
AndRequest(s, m) ==
    IF IsFrame(m) /\ m.payload \notin DOMAIN Envelope THEN s ELSE Append(s, MeantBy(m))

\* The requests that the first n messages stand for.
Requests(ms, n) ==
    LET first[k \in 0 .. Len(ms)] == IF k = 0 THEN <<>> ELSE AndRequest(first[k - 1], ms[k])
    IN  first[n]

\* The handlers have taken the first n messages of the script, as they were meant,
\* and exactly the bytes of those.
HasTaken(n) ==
    /\ got = Requests(script, n)
    /\ Unread = EncodeFrom(script, n)

Oversized(m) == IsFrame(m) /\ Len(m.payload) > kMaxMessageSize

FramesFit == \A i \in DOMAIN script : IsFrame(script[i]) /\ ~Oversized(script[i])

\* However TCP cuts the stream and however the buffer moves its bytes, the frames that
\* TryDecodeMessage takes are the ones that were sent, and it stays at a frame boundary:
\* also over a frame that does not parse, as long as none is above kMaxMessageSize.
FramesAsSent ==
    conn_type_ = "PROTOBUF" /\ FramesFit => \E n \in 0 .. Len(script) : HasTaken(n)

\* A client that sends each HTTP request in one piece, after the response to the one
\* before, is understood: method, path, headers and body are what it sent, and no byte
\* of it is left in the buffer for the next request (HttpRequest::parse).
RequestsAsSent ==
    conn_type_ = "HTTP" /\ clean => \E n \in 0 .. Len(script) : HasTaken(n)

\* Every byte of every response reaches the client once and in order, through partial
\* writes of the header, of the mapped file and of the write buffer: what was received,
\* and what the iovecs or the buffer still hold, is what the handlers answered.
SentInOrder == received \o Unsent = answers

\* With edge-triggered events the server closes a connection exactly when it has sent,
\* to the last byte, a response whose header says "Connection: close".
ClosedAsAnnounced ==
    is_et => (conn = "closed" <=>
        received = answers /\ \E i \in DOMAIN answers :
            answers[i] \in {Status(c, FALSE) : c \in {200, 403, 404}})

\* n messages have come, each of them whole, and none is too large.
CameWhole(n) ==
    /\ clean /\ n <= Len(script) /\ ~\E i \in 1 .. n : Oversized(script[i])
    /\ stream = EncodeFrom(script, n)

\* A message that comes whole is taken and its answer arrives, to the last byte,
\* unless the client sends the next one too early.
AnswerArrives ==
    \A n \in 1 .. MaxMessages :
        CameWhole(n) ~> ~clean \/ (CameWhole(n) /\ HasTaken(n) /\ received = answers)

=============================================================================
