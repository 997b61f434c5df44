----------------------------- MODULE MCProtocol -----------------------------
(* Protocol for TLC: up to MaxMessages frames, or requests, on one connection.  *)
EXTENDS Protocol

Digits(s) == [i \in 1 .. Len(s) |-> Digit(s[i])]

\* An empty payload, a login, a heartbeat and a friend request.
MCEnvelope ==
    LET cmds == [p \in {<<>>, <<1>>, <<2>>, <<0, 2>>} |->
                   CASE p = <<>> -> [cmd |-> "UNKNOWN", has |-> FALSE]
                     [] p = <<1>> -> [cmd |-> "LOGIN", has |-> TRUE]
                     [] p = <<2>> -> [cmd |-> "HEARTBEAT", has |-> FALSE]
                     [] p = <<0, 2>> -> [cmd |-> "ADD_FRIEND", has |-> TRUE]]
    IN  [p \in { Digits(q) : q \in DOMAIN cmds } |->
            cmds[CHOOSE q \in DOMAIN cmds : Digits(q) = p]]

\* Also one that does not parse, and one too large.
Frames == { [payload |-> Digits(p)] : p \in {<<>>, <<1>>, <<2>>, <<0, 2>>, <<3>>, <<1, 1, 1>>} }

Request(method, path, headers, body) ==
    [method |-> method, path |-> path, version |-> " HTTP/1.1", headers |-> headers,
     body |-> body]

Persistent ==
    { Request(Get, "/", <<"keep-alive">>, <<>>),
      Request(Post, "/login", <<"form", "keep-alive">>, <<[body |-> "name and password"]>>) }

Ending ==
    { Request(Get, "/gone", <<"keep-alive">>, <<>>), Request(Get, "/private", <<>>, <<>>) }

MCScripts ==
    UNION { [1 .. n -> Frames] : n \in 1 .. MaxMessages }
    \cup { Append(s, r) : s \in [1 .. MaxMessages - 1 -> Persistent], r \in Ending }

MCResources ==
    [p \in {"/index.html", "/welcome.html", "/private", "/403.html"} |->
        CASE p = "/index.html" -> [size |-> 2, public |-> TRUE]
          [] p = "/welcome.html" -> [size |-> 1, public |-> TRUE]
          [] p = "/private" -> [size |-> 2, public |-> FALSE]
          [] p = "/403.html" -> [size |-> 2, public |-> TRUE]]

\* The bytes of buffers, of responses and of what the client sends.
MCByte ==
    { Digit(d) : d \in 0 .. Radix - 1 } \cup AnswerByte
    \cup UNION { Range(EncodeFrom(s, 0)) : s \in MCScripts }
MCZero == Digit(0)
=============================================================================
