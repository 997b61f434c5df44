--------------------------- MODULE NetworkManager ---------------------------
(***************************************************************************)
(* The client's network side (client/network_manager.cpp): requests of the *)
(* user interface wait for one response slot, the listener thread fills    *)
(* it, the heartbeat thread sends on the same socket.  Requests are        *)
(* numbered; a number is not on the wire, the client matches on the        *)
(* command only.  The server is external: it answers what it gets, in the  *)
(* order it gets it, a heartbeat included (Connection).                    *)
(***************************************************************************)
EXTENDS Integers, Sequences

CONSTANTS
    Cmds,          \* commands of the requests
    LoginCmd,      \* the one that logs in
    NoCmd,         \* the command of the answer to a heartbeat: never set
    MaxRequests, MaxBeats, MaxTimeouts, MaxLosses, MaxPushes, MaxConnects

ASSUME NetworkManagerAssumption ==
    /\ NoCmd \notin Cmds /\ LoginCmd \in Cmds
    /\ {MaxRequests, MaxBeats, MaxTimeouts, MaxLosses, MaxPushes, MaxConnects} \subseteq Nat

VARIABLES
    connected_, running_, has_response_,
    response,      \* response_envelope_
    loggedIn,      \* IsLoggedIn
    link,          \* the connection: "none", "up", "lost"
    toServer, toClient,
    ui,            \* the user interface: "idle", "waiting", "joining", "crashed"
    request,       \* its last request
    listener,      \* "none": not joinable; "running"; "ended"
    heartbeat,     \* likewise
    result,        \* what the last SendRequestAndWait returned
    requests, beats, timeouts, losses, pushes, connects

flags == <<connected_, running_>>
slot == <<has_response_, response>>
wires == <<link, toServer, toClient>>
threads == <<listener, heartbeat>>
counts == <<requests, beats, timeouts, losses, pushes, connects>>
vars == <<flags, slot, loggedIn, wires, ui, request, threads, result, counts>>

Beat == [n |-> 0, cmd |-> NoCmd]
Push == [n |-> -1, cmd |-> NoCmd]

Init ==
    /\ connected_ = FALSE /\ running_ = FALSE
    /\ has_response_ = FALSE /\ response = Beat
    /\ loggedIn = FALSE
    /\ link = "none" /\ toServer = <<>> /\ toClient = <<>>
    /\ ui = "idle" /\ request = Beat
    /\ listener = "none" /\ heartbeat = "none"
    /\ result = [ok |-> FALSE, n |-> 0]
    /\ requests = 0 /\ beats = 0 /\ timeouts = 0 /\ losses = 0 /\ pushes = 0 /\ connects = 0

----------------------------------------------------------------------------
(* The user interface.                                                     *)

\* A std::thread that is joinable may not be assigned to.
Connect ==
    /\ ui = "idle" /\ ~connected_ /\ connects < MaxConnects
    /\ connects' = connects + 1
    /\ connected_' = TRUE /\ running_' = TRUE
    /\ link' = "up" /\ toServer' = <<>> /\ toClient' = <<>>
    /\ IF "ended" \in {listener, heartbeat} \/ "running" \in {listener, heartbeat}
       THEN ui' = "crashed" /\ UNCHANGED threads
       ELSE listener' = "running" /\ heartbeat' = "running" /\ UNCHANGED ui
    /\ UNCHANGED <<slot, loggedIn, request, result, requests, beats, timeouts, losses, pushes>>

\* A plausible bug: the last response is not forgotten.
KeepResponse == UNCHANGED has_response_

ClearResponse == has_response_' = FALSE

\* SendRequestAndWait, up to the wait.  Requests fail at once when not connected.
SendRequest(cmd) ==
    /\ ui = "idle" /\ requests < MaxRequests
    /\ requests' = requests + 1
    /\ ClearResponse
    /\ request' = [n |-> requests', cmd |-> cmd]
    /\ IF connected_
       THEN /\ ui' = "waiting" /\ UNCHANGED result
            /\ toServer' = Append(toServer, request')
       ELSE /\ result' = [ok |-> FALSE, n |-> 0] /\ UNCHANGED <<ui, toServer>>
    /\ UNCHANGED <<flags, response, loggedIn, link, toClient, threads, beats, timeouts,
                   losses, pushes, connects>>

\* response_envelope_.cmd() == expected_cmd
Expected == response.cmd = request.cmd

\* The wait ends because there is a response.  A successful one may log the user in.
TakeResponse ==
    /\ ui = "waiting" /\ has_response_
    /\ ui' = "idle"
    /\ result' = [ok |-> Expected, n |-> IF Expected THEN response.n ELSE 0]
    /\ loggedIn' \in IF Expected /\ request.cmd = LoginCmd THEN {loggedIn, TRUE} ELSE {loggedIn}
    /\ UNCHANGED <<flags, slot, wires, request, threads, counts>>

\* A plausible bug: wait in the place of wait_for.
NoTimeOut == FALSE /\ UNCHANGED vars

\* The wait ends after five seconds.
TimeOut ==
    /\ ui = "waiting" /\ ~has_response_ /\ timeouts < MaxTimeouts
    /\ timeouts' = timeouts + 1
    /\ ui' = "idle"
    /\ result' = [ok |-> FALSE, n |-> 0]
    /\ UNCHANGED <<flags, slot, loggedIn, wires, request, threads, requests, beats, losses,
                   pushes, connects>>

\* Logout: ClearAuth, and Disconnect up to the joins.
Logout ==
    /\ ui = "idle" /\ loggedIn
    /\ loggedIn' = FALSE /\ running_' = FALSE
    /\ link' = "none" /\ toServer' = <<>> /\ toClient' = <<>>
    /\ ui' = "joining"
    /\ UNCHANGED <<connected_, slot, request, threads, result, counts>>

\* A plausible bug: Disconnect joins the listener only.
JoinListener ==
    /\ ui = "joining" /\ listener # "running"
    /\ listener' = "none"
    /\ connected_' = FALSE /\ ui' = "idle"
    /\ UNCHANGED <<running_, slot, loggedIn, wires, request, heartbeat, result, counts>>

Join ==
    /\ ui = "joining" /\ "running" \notin {listener, heartbeat}
    /\ listener' = "none" /\ heartbeat' = "none"
    /\ connected_' = FALSE /\ ui' = "idle"
    /\ UNCHANGED <<running_, slot, loggedIn, wires, request, result, counts>>

----------------------------------------------------------------------------
(* The listener thread.                                                    *)

\* A push is handled; anything else is the response.
Receive ==
    /\ listener = "running" /\ running_ /\ toClient # <<>>
    /\ toClient' = Tail(toClient)
    /\ IF Head(toClient) = Push THEN UNCHANGED slot
       ELSE has_response_' = TRUE /\ response' = Head(toClient)
    /\ UNCHANGED <<flags, loggedIn, link, toServer, ui, request, threads, result, counts>>

\* recv ends: the connection is lost, or Disconnect has shut the socket down.
ReceiveEnd ==
    /\ listener = "running" /\ link # "up" /\ toClient = <<>>
    /\ listener' = "ended"
    /\ IF running_ THEN running_' = FALSE /\ connected_' = FALSE ELSE UNCHANGED flags
    /\ UNCHANGED <<slot, loggedIn, wires, ui, request, heartbeat, result, counts>>

----------------------------------------------------------------------------
(* The heartbeat thread, and the other side.                               *)

SendHeartbeat ==
    /\ heartbeat = "running" /\ running_ /\ connected_ /\ beats < MaxBeats
    /\ beats' = beats + 1
    /\ toServer' = Append(toServer, Beat)
    /\ UNCHANGED <<flags, slot, loggedIn, link, toClient, ui, request, threads, result,
                   requests, timeouts, losses, pushes, connects>>

HeartbeatEnd ==
    /\ heartbeat = "running" /\ ~running_
    /\ heartbeat' = "ended"
    /\ UNCHANGED <<flags, slot, loggedIn, wires, ui, request, listener, result, counts>>

ServerAnswers ==
    /\ link = "up" /\ toServer # <<>>
    /\ toClient' = Append(toClient, Head(toServer))
    /\ toServer' = Tail(toServer)
    /\ UNCHANGED <<flags, slot, loggedIn, link, ui, request, threads, result, counts>>

ServerPushes ==
    /\ link = "up" /\ pushes < MaxPushes
    /\ pushes' = pushes + 1
    /\ toClient' = Append(toClient, Push)
    /\ UNCHANGED <<flags, slot, loggedIn, link, toServer, ui, request, threads, result,
                   requests, beats, timeouts, losses, connects>>

ConnectionLost ==
    /\ link = "up" /\ losses < MaxLosses
    /\ losses' = losses + 1
    /\ link' = "lost"
    /\ UNCHANGED <<flags, slot, loggedIn, toServer, toClient, ui, request, threads, result,
                   requests, beats, timeouts, pushes, connects>>

Next ==
    \/ Connect \/ TakeResponse \/ TimeOut \/ Logout \/ Join
    \/ \E cmd \in Cmds : SendRequest(cmd)
    \/ Receive \/ ReceiveEnd \/ SendHeartbeat \/ HeartbeatEnd
    \/ ServerAnswers \/ ServerPushes \/ ConnectionLost

Spec == Init /\ [][Next]_vars

\* The threads of the client run; the server answers as long as the connection is up.
FairSpec ==
    /\ Spec
    /\ WF_vars(TakeResponse) /\ WF_vars(TimeOut) /\ WF_vars(Join)
    /\ WF_vars(Receive) /\ WF_vars(ReceiveEnd) /\ WF_vars(HeartbeatEnd)
    /\ WF_vars(ServerAnswers)

----------------------------------------------------------------------------
(* Properties.                                                             *)

Envelope == [n : -1 .. MaxRequests, cmd : Cmds \cup {NoCmd}]

\* What is in each variable; the listener takes no push for a response.
TypeOK ==
    /\ connected_ \in BOOLEAN /\ running_ \in BOOLEAN
    /\ has_response_ \in BOOLEAN /\ loggedIn \in BOOLEAN
    /\ response \in Envelope \ {Push} /\ request \in Envelope \ {Push}
    /\ link \in {"none", "up", "lost"}
    /\ toServer \in Seq(Envelope \ {Push}) /\ toClient \in Seq(Envelope)
    /\ ui \in {"idle", "waiting", "joining", "crashed"}
    /\ listener \in {"none", "running", "ended"} /\ heartbeat \in {"none", "running", "ended"}
    /\ requests \in 0 .. MaxRequests
    /\ beats \in Nat /\ timeouts \in Nat /\ losses \in Nat

\* Connect never assigns to a joinable thread: after each logout the threads of the last
\* connection are joined, whenever the heartbeat thread wakes up.  Only a connection
\* that was lost leaves threads that nobody has joined.
ReconnectIsSafe ==
    losses = 0 => ui # "crashed"

\* The envelope that ends the wait of a request is the response to it, not a push and
\* not the response to another one (SendRequestAndWait compares the commands only, and
\* the listener takes what is not a push for the response).  A heartbeat's answer and
\* a response that comes after its timeout may end the wait of another request.
ResponseIsOwn ==
    [][beats = 0 /\ timeouts' = 0 /\ ui = "waiting" /\ ui' = "idle"
           => result' = [ok |-> TRUE, n |-> request.n]]_vars

\* SendRequestAndWait returns, whatever happens to the connection, and Disconnect
\* returns: both threads notice and are joined.
CallsReturn ==
    /\ (ui = "waiting") ~> (ui # "waiting")
    /\ (ui = "joining") ~> (ui = "idle")
============================================================================
