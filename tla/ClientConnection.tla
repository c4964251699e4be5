---------------------------- MODULE ClientConnection ----------------------------
(***************************************************************************)
(* The connections between the warden daemon and its clients: the client   *)
(* library with the command-line client on top of it, the framed stream,   *)
(* the daemon's UnixSocketServer and the ClientHandler of a connection.    *)
(* What a command does, and which mutexes it waits for, is the matter of   *)
(* WardenDaemon; here a command takes one step, after any time, and the    *)
(* questions are which answer reaches which call, and what becomes of      *)
(* calls when either side goes away.                                       *)
(*                                                                         *)
(* A stream has a queue of frames in each direction.  A process that is    *)
(* killed while it writes leaves a torn frame as the last one.             *)
(***************************************************************************)
EXTENDS Naturals, Sequences

CONSTANTS
    Clients,     \* client processes, each with one WardenConnection
    Commands,    \* the commands they send
    MaxCalls,    \* bound on the commands ever sent
    MaxFaults    \* bound on failures, kills and abandoned calls

(* WardenCommand, and the response the daemon gives to it when it succeeds. *)
HandledWith ==
    [CreateRealm |-> "CreatedRealm", FetchToken |-> "AttestationToken", StartRealm |-> "Ok",
     StopRealm |-> "Ok", RebootRealm |-> "Ok", DestroyRealm |-> "Ok", InspectRealm |-> "InspectedRealm",
     ListRealms |-> "ListedRealms", CreateApplication |-> "CreatedApplication", StartApplication |-> "Ok",
     StopApplication |-> "Ok", UpdateApplication |-> "Ok"]

(* The functions of the client library: the command each sends. *)
Sends ==
    [create_realm |-> "CreateRealm", start_realm |-> "StartRealm", fetch_attestation_token |-> "FetchToken",
     stop_realm |-> "StopRealm", reboot_realm |-> "RebootRealm", destroy_realm |-> "DestroyRealm",
     inspect_realm |-> "InspectRealm", list_realms |-> "ListRealms",
     create_application |-> "CreateApplication", update_application |-> "UpdateApplication",
     start_application |-> "StartApplication", stop_application |-> "StopApplication"]

(* The response each takes for success; () is Ok. *)
Expects ==
    [create_realm |-> "CreatedRealm", start_realm |-> "Ok", fetch_attestation_token |-> "AttestationToken",
     stop_realm |-> "Ok", reboot_realm |-> "Ok", destroy_realm |-> "Ok", inspect_realm |-> "InspectedRealm",
     list_realms |-> "ListedRealms", create_application |-> "CreatedApplication",
     update_application |-> "Ok", start_application |-> "Ok", stop_application |-> "Ok"]

(* The function the command-line client calls for each of its commands. *)
Calls ==
    [CreateRealm |-> "create_realm", StartRealm |-> "start_realm",
     FetchAttestationToken |-> "fetch_attestation_token", StopRealm |-> "stop_realm",
     InspectRealm |-> "inspect_realm", ListRealms |-> "list_realms", DestroyRealm |-> "destroy_realm",
     RebootRealm |-> "reboot_realm", CreateApplication |-> "create_application",
     StartApplication |-> "start_application", StopApplication |-> "stop_application",
     UpdateApplication |-> "update_application"]

WardenCommand == DOMAIN HandledWith
WardenResponse == {HandledWith[k] : k \in WardenCommand} \cup {"Error"}

(* A command that this daemon's version of the protocol does not have. *)
Foreign == "Foreign"

ASSUME ConstantsAssumption ==
    Commands \subseteq DOMAIN Calls \cup {Foreign} /\ MaxCalls \in Nat /\ MaxFaults \in Nat

VARIABLES
    conn,        \* the client's end of its connection
    lib,         \* where communicate is
    id, cmd,     \* the number of the last command the client sent, and the command
    result,      \* what its last call returned, with the number of the command it was the answer to
    abandoned,   \* whether the client ever dropped a call that waited
    toDaemon, toClient,   \* the frames on their way
    handler,     \* where the ClientHandler of the connection is
    request, response,    \* the frame it handles, the one it sends
    taken, answered,      \* history: the last command it read, and the last it answered
    done,        \* history: the commands that succeeded, in their order
    server,      \* UnixSocketServer::listen
    graceful,    \* history: no task was aborted
    cancelled,   \* the CancellationToken
    calls, faults   \* counters for the bounds

clientVars == <<conn, lib, id, cmd, result, abandoned>>
handlerVars == <<handler, request, response, taken, answered, done>>
serverVars == <<server, graceful, cancelled>>
bounds == <<calls, faults>>
vars == <<clientVars, toDaemon, toClient, handlerVars, serverVars, bounds>>

Outcomes == {"None", "Ok", "OperationFail", "InvalidResponse", "CommunicationFail", "NotSent", "Abandoned"}
NoResult == [outcome |-> "None", of |-> 0]
Torn == "Torn"
TornRequest == [id |-> 0, cmd |-> Torn]
TornResponse == [of |-> 0, kind |-> Torn]

Init ==
    /\ conn = [c \in Clients |-> "None"] /\ lib = [c \in Clients |-> "Idle"]
    /\ id = [c \in Clients |-> 0] /\ cmd = [c \in Clients |-> Foreign]
    /\ result = [c \in Clients |-> NoResult] /\ abandoned = [c \in Clients |-> FALSE]
    /\ toDaemon = [c \in Clients |-> <<>>] /\ toClient = [c \in Clients |-> <<>>]
    /\ handler = [c \in Clients |-> "None"]
    /\ request = [c \in Clients |-> TornRequest] /\ response = [c \in Clients |-> TornResponse]
    /\ taken = [c \in Clients |-> 0] /\ answered = [c \in Clients |-> 0] /\ done = [c \in Clients |-> <<>>]
    /\ server = "Listening" /\ graceful = TRUE /\ cancelled = FALSE
    /\ calls = 0 /\ faults = 0

Fault == faults < MaxFaults /\ faults' = faults + 1
-------------------------------------------------------------------------------
(* The client                                                               *)

(* WardenConnection::connect succeeds as long as the socket is open. *)
connect(c) ==
    /\ conn[c] = "None" /\ server # "Down"
    /\ conn' = [conn EXCEPT ![c] = "Open"] /\ handler' = [handler EXCEPT ![c] = "Backlog"]
    /\ UNCHANGED <<lib, id, cmd, result, abandoned, toDaemon, toClient, request, response, taken, answered,
                   done, serverVars, bounds>>

Sent(k) == IF k = Foreign THEN Foreign ELSE Sends[Calls[k]]

(* The command-line client reads a line, or an argument, it cannot parse:   *)
(* the error is shown and nothing sent.                                     *)
parse_users_input_fails(c) ==
    /\ conn[c] = "Open" /\ lib[c] = "Idle"
    /\ result' = [result EXCEPT ![c] = [outcome |-> "NotSent", of |-> 0]]
    /\ UNCHANGED <<conn, lib, id, cmd, abandoned, toDaemon, toClient, handlerVars, serverVars, bounds>>

(* The first half of communicate sends a command, which fails if the daemon *)
(* has closed the stream.                                                   *)
send_command(c) ==
    /\ conn[c] = "Open" /\ lib[c] = "Idle"
    /\ \/ /\ handler[c] = "Ended"
          /\ result' = [result EXCEPT ![c] = [outcome |-> "CommunicationFail", of |-> 0]]
          /\ UNCHANGED <<lib, id, cmd, toDaemon, calls>>
       \/ /\ handler[c] # "Ended" /\ calls < MaxCalls /\ calls' = calls + 1
          /\ id' = [id EXCEPT ![c] = @ + 1] /\ result' = [result EXCEPT ![c] = NoResult]
          /\ lib' = [lib EXCEPT ![c] = "Recv"]
          /\ \E k \in Commands :
              /\ cmd' = [cmd EXCEPT ![c] = k]
              /\ toDaemon' = [toDaemon EXCEPT ![c] = Append(@, [id |-> id'[c], cmd |-> Sent(k)])]
    /\ UNCHANGED <<conn, abandoned, toClient, handlerVars, serverVars, faults>>

(* Mutant: the error of the daemon is returned as it is. *)
Outcome_untranslated(k, kind) ==
    IF kind = Torn THEN "CommunicationFail"
    ELSE IF k # Foreign /\ kind = Expects[Calls[k]] THEN "Ok" ELSE kind

(* How the functions of the library and handle_error_response tell the      *)
(* responses to a command apart.                                            *)
Outcome(k, kind) ==
    IF kind = Torn THEN "CommunicationFail"
    ELSE IF k # Foreign /\ kind = Expects[Calls[k]] THEN "Ok"
    ELSE IF kind = "Error" THEN "OperationFail"
    ELSE "InvalidResponse"

(* The second half of communicate receives a response, or finds the stream  *)
(* closed.                                                                  *)
recv_response(c) ==
    /\ lib[c] = "Recv" /\ lib' = [lib EXCEPT ![c] = "Idle"]
    /\ \/ /\ toClient[c] # <<>>
          /\ toClient' = [toClient EXCEPT ![c] = Tail(@)]
          /\ result' = [result EXCEPT ![c] = [outcome |-> Outcome(cmd[c], Head(toClient[c]).kind),
                                              of |-> Head(toClient[c]).of]]
       \/ /\ toClient[c] = <<>> /\ handler[c] = "Ended"
          /\ result' = [result EXCEPT ![c] = [outcome |-> "CommunicationFail", of |-> 0]]
          /\ UNCHANGED toClient
    /\ UNCHANGED <<conn, id, cmd, abandoned, toDaemon, handlerVars, serverVars, bounds>>

(* Mutant: a call that is given up is sent again. *)
abandon_resends(c) ==
    /\ lib[c] = "Recv" /\ Fault
    /\ lib' = [lib EXCEPT ![c] = "Idle"] /\ abandoned' = [abandoned EXCEPT ![c] = TRUE]
    /\ result' = [result EXCEPT ![c] = [outcome |-> "Abandoned", of |-> 0]]
    /\ toDaemon' = [toDaemon EXCEPT ![c] = Append(@, [id |-> id[c], cmd |-> Sent(cmd[c])])]
    /\ UNCHANGED <<conn, id, cmd, toClient, handlerVars, serverVars, calls>>

(* The future of a call is dropped, for instance by a timeout around it:    *)
(* the connection is kept, and the answer will still come.                  *)
abandon(c) ==
    /\ lib[c] = "Recv" /\ Fault
    /\ lib' = [lib EXCEPT ![c] = "Idle"] /\ abandoned' = [abandoned EXCEPT ![c] = TRUE]
    /\ result' = [result EXCEPT ![c] = [outcome |-> "Abandoned", of |-> 0]]
    /\ UNCHANGED <<conn, id, cmd, toDaemon, toClient, handlerVars, serverVars, calls>>

(* The client process ends, waiting for an answer or not, or is killed in   *)
(* the middle of a send.                                                    *)
disconnect(c) ==
    /\ conn[c] = "Open" /\ conn' = [conn EXCEPT ![c] = "Closed"]
    /\ lib' = [lib EXCEPT ![c] = "Idle"] /\ toClient' = [toClient EXCEPT ![c] = <<>>]
    /\ result' = [result EXCEPT ![c] = NoResult] /\ cmd' = [cmd EXCEPT ![c] = Foreign]
    /\ \/ UNCHANGED <<toDaemon, faults>>
       \/ lib[c] = "Idle" /\ Fault /\ toDaemon' = [toDaemon EXCEPT ![c] = Append(@, TornRequest)]
    /\ UNCHANGED <<id, abandoned, handlerVars, serverVars, calls>>
-------------------------------------------------------------------------------
(* ClientHandler                                                            *)

(* handle_client_requests receives a command, or something that is none. *)
recv_command(c) ==
    /\ handler[c] = "Recv" /\ toDaemon[c] # <<>>
    /\ toDaemon' = [toDaemon EXCEPT ![c] = Tail(@)]
    /\ request' = [request EXCEPT ![c] = Head(toDaemon[c])]
    /\ taken' = [taken EXCEPT ![c] = Head(toDaemon[c]).id]
    /\ \/ /\ Head(toDaemon[c]).cmd \in WardenCommand
          /\ handler' = [handler EXCEPT ![c] = "Handle"] /\ UNCHANGED response
       \/ /\ Head(toDaemon[c]).cmd \notin WardenCommand
          /\ handler' = [handler EXCEPT ![c] = "SendLast"]
          /\ response' = [response EXCEPT ![c] = [of |-> Head(toDaemon[c]).id, kind |-> "Error"]]
    /\ UNCHANGED <<clientVars, toClient, answered, done, serverVars, bounds>>

(* Mutant: the token is also awaited while a command runs. *)
exit_handler_any_time(c) ==
    /\ handler[c] \in {"Recv", "Handle"}
    /\ cancelled \/ (toDaemon[c] = <<>> /\ conn[c] = "Closed")
    /\ handler' = [handler EXCEPT ![c] = "Ended"]
    /\ UNCHANGED <<clientVars, toDaemon, toClient, request, response, taken, answered, done, serverVars, bounds>>

(* Mutant: only a client that is gone ends the handler. *)
exit_handler_only_closed(c) ==
    /\ handler[c] = "Recv" /\ toDaemon[c] = <<>> /\ conn[c] = "Closed"
    /\ handler' = [handler EXCEPT ![c] = "Ended"]
    /\ UNCHANGED <<clientVars, toDaemon, toClient, request, response, taken, answered, done, serverVars, bounds>>

(* Between two commands it finds the client gone, or the token cancelled. *)
exit_handler(c) ==
    /\ handler[c] = "Recv"
    /\ cancelled \/ (toDaemon[c] = <<>> /\ conn[c] = "Closed")
    /\ handler' = [handler EXCEPT ![c] = "Ended"]
    /\ UNCHANGED <<clientVars, toDaemon, toClient, request, response, taken, answered, done, serverVars, bounds>>

(* handle_command, and create_response of its result. *)
handle_command(c) ==
    /\ handler[c] = "Handle" /\ handler' = [handler EXCEPT ![c] = "Send"]
    /\ \/ /\ response' = [response EXCEPT ![c] = [of |-> request[c].id, kind |-> HandledWith[request[c].cmd]]]
          /\ done' = [done EXCEPT ![c] = Append(@, request[c].id)]
       \/ /\ response' = [response EXCEPT ![c] = [of |-> request[c].id, kind |-> "Error"]]
          /\ UNCHANGED done
    /\ UNCHANGED <<clientVars, toDaemon, toClient, request, taken, answered, serverVars, bounds>>

(* Mutant: an error is sent where it occurs, and once more as the result. *)
send_response_twice(c) ==
    /\ handler[c] \in {"Send", "SendLast"}
    /\ \/ /\ conn[c] = "Open"
          /\ toClient' = [toClient EXCEPT ![c] =
                @ \o (IF response[c].kind = "Error" THEN <<response[c], response[c]>> ELSE <<response[c]>>)]
          /\ answered' = [answered EXCEPT ![c] = response[c].of]
          /\ handler' = [handler EXCEPT ![c] = IF @ = "Send" THEN "Recv" ELSE "Ended"]
       \/ /\ conn[c] = "Closed" /\ handler' = [handler EXCEPT ![c] = "Ended"]
          /\ UNCHANGED <<toClient, answered>>
    /\ request' = [request EXCEPT ![c] = TornRequest] /\ response' = [response EXCEPT ![c] = TornResponse]
    /\ UNCHANGED <<clientVars, toDaemon, taken, done, serverVars, bounds>>

(* send_handle_result, or the answer to what could not be read, after which *)
(* the handler returns; a client that is gone ends it, too.                 *)
send_response(c) ==
    /\ handler[c] \in {"Send", "SendLast"}
    /\ \/ /\ conn[c] = "Open"
          /\ toClient' = [toClient EXCEPT ![c] = Append(@, response[c])]
          /\ answered' = [answered EXCEPT ![c] = response[c].of]
          /\ handler' = [handler EXCEPT ![c] = IF @ = "Send" THEN "Recv" ELSE "Ended"]
       \/ /\ conn[c] = "Closed" /\ handler' = [handler EXCEPT ![c] = "Ended"]
          /\ UNCHANGED <<toClient, answered>>
    /\ request' = [request EXCEPT ![c] = TornRequest] /\ response' = [response EXCEPT ![c] = TornResponse]
    /\ UNCHANGED <<clientVars, toDaemon, taken, done, serverVars, bounds>>
-------------------------------------------------------------------------------
(* UnixSocketServer                                                         *)

(* listen accepts a connection and spawns its handler ... *)
accept(c) ==
    /\ server = "Listening" /\ handler[c] = "Backlog"
    /\ handler' = [handler EXCEPT ![c] = "Recv"]
    /\ UNCHANGED <<clientVars, toDaemon, toClient, request, response, taken, answered, done, serverVars, bounds>>

(* The handlers stop where they are, and the streams are closed. *)
AbortAll ==
    /\ server' = "Down" /\ cancelled' = TRUE /\ graceful' = FALSE
    /\ handler' = [c \in Clients |-> IF handler[c] = "None" THEN "None" ELSE "Ended"]

(* ... returns at a failure of accept, which drops the JoinSet ... *)
accept_fails ==
    /\ server = "Listening" /\ Fault /\ AbortAll
    /\ UNCHANGED <<clientVars, toDaemon, toClient, request, response, taken, answered, done, calls>>

(* ... or stops when the token is cancelled ... *)
stop_listening ==
    /\ server = "Listening" /\ cancelled /\ server' = "Joining"
    /\ UNCHANGED <<clientVars, toDaemon, toClient, handlerVars, graceful, cancelled, bounds>>

(* Mutant: the listener outlives the server, with its backlog. *)
join_handlers_keeps_backlog ==
    /\ server = "Joining" /\ \A c \in Clients : handler[c] \in {"None", "Backlog", "Ended"}
    /\ server' = "Down"
    /\ UNCHANGED <<clientVars, toDaemon, toClient, handlerVars, graceful, cancelled, bounds>>

(* ... and joins the handlers; the connections nobody accepted are closed   *)
(* with the listener.                                                       *)
join_handlers ==
    /\ server = "Joining" /\ \A c \in Clients : handler[c] \in {"None", "Backlog", "Ended"}
    /\ server' = "Down"
    /\ handler' = [c \in Clients |-> IF handler[c] = "Backlog" THEN "Ended" ELSE handler[c]]
    /\ UNCHANGED <<clientVars, toDaemon, toClient, request, response, taken, answered, done, graceful,
                   cancelled, bounds>>

(* Daemon::run is told to stop. *)
cancel ==
    /\ ~cancelled /\ cancelled' = TRUE
    /\ UNCHANGED <<clientVars, toDaemon, toClient, handlerVars, server, graceful, bounds>>

(* The daemon is killed, possibly in the middle of a send. *)
kill ==
    /\ server # "Down" /\ Fault /\ AbortAll
    /\ \E torn \in SUBSET {c \in Clients : handler[c] \in {"Send", "SendLast"} /\ conn[c] = "Open"} :
        toClient' = [c \in Clients |-> IF c \in torn THEN Append(toClient[c], TornResponse) ELSE toClient[c]]
    /\ UNCHANGED <<clientVars, toDaemon, request, response, taken, answered, done, calls>>

Handler(c) == recv_command(c) \/ handle_command(c) \/ send_response(c)

Next ==
    \/ \E c \in Clients :
        connect(c) \/ parse_users_input_fails(c) \/ send_command(c) \/ recv_response(c) \/ abandon(c) \/ disconnect(c)
        \/ Handler(c) \/ exit_handler(c) \/ accept(c)
    \/ accept_fails \/ stop_listening \/ join_handlers \/ cancel \/ kill

(* Tasks that are ready are polled, and a command ends at last; select!     *)
(* polls its branches in a random order, so that a handler whose token is   *)
(* cancelled does not read on for ever.                                     *)
Fairness ==
    /\ \A c \in Clients : WF_vars(recv_response(c)) /\ WF_vars(Handler(c)) /\ WF_vars(accept(c))
                          /\ SF_vars(exit_handler(c))
    /\ WF_vars(stop_listening) /\ WF_vars(join_handlers)

Spec == Init /\ [][Next]_vars /\ Fairness
-------------------------------------------------------------------------------
Requests == [id : 0..MaxCalls, cmd : WardenCommand \cup {Foreign, Torn}]
Responses == [of : 0..MaxCalls, kind : WardenResponse \cup {Torn}]

(* Types. *)
TypeOK ==
    /\ conn \in [Clients -> {"None", "Open", "Closed"}] /\ lib \in [Clients -> {"Idle", "Recv"}]
    /\ id \in [Clients -> 0..MaxCalls] /\ cmd \in [Clients -> Commands \cup {Foreign}]
    /\ result \in [Clients -> [outcome : Outcomes, of : 0..MaxCalls]] /\ abandoned \in [Clients -> BOOLEAN]
    /\ toDaemon \in [Clients -> Seq(Requests)] /\ toClient \in [Clients -> Seq(Responses)]
    /\ handler \in [Clients -> {"None", "Backlog", "Recv", "Handle", "Send", "SendLast", "Ended"}]
    /\ request \in [Clients -> Requests] /\ response \in [Clients -> Responses]
    /\ taken \in [Clients -> 0..MaxCalls] /\ answered \in [Clients -> 0..MaxCalls]
    /\ done \in [Clients -> Seq(0..MaxCalls)]
    /\ server \in {"Listening", "Joining", "Down"} /\ graceful \in BOOLEAN /\ cancelled \in BOOLEAN
    /\ calls \in 0..MaxCalls /\ faults \in 0..MaxFaults

(* A call returns Ok only for a command of its own that the daemon carried  *)
(* out, reports a failure of the daemon only for its own command, and the   *)
(* library and the daemon agree on the response to every command, whatever  *)
(* calls failed before on the connection; a caller that has dropped a call  *)
(* while it waited has no such guarantee.                                   *)
AnswersMatch ==
    \A c \in Clients : ~abandoned[c] =>
        /\ result[c].outcome \in {"Ok", "OperationFail"} => result[c].of = id[c]
        /\ result[c].outcome = "Ok" => \E i \in DOMAIN done[c] : done[c][i] = id[c]
        /\ result[c].outcome # "InvalidResponse"

(* No command is carried out twice, and none before one that was sent       *)
(* earlier, also when calls were abandoned.                                 *)
OnceInOrder ==
    \A c \in Clients : \A i, j \in DOMAIN done[c] : i < j => done[c][i] < done[c][j]

(* A daemon that stops in an orderly way has answered every command it took *)
(* from a client that is still there: cancellation cuts no command off.     *)
TakenIsAnswered ==
    server = "Down" /\ graceful => \A c \in Clients : conn[c] = "Open" => taken[c] = answered[c]

(* Every call returns, if commands end: also of a connection that is never  *)
(* accepted, and when the daemon stops, is killed or fails.                 *)
EveryCallReturns == \A c \in Clients : lib[c] = "Recv" ~> lib[c] = "Idle"

(* A daemon whose token is cancelled closes its socket, whatever its        *)
(* clients send.                                                            *)
ServerStops == cancelled ~> server = "Down"
===============================================================================
