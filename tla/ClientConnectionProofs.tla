------------------------ MODULE ClientConnectionProofs ------------------------
(***************************************************************************)
(* Theorems about ClientConnection for any number of clients, all commands *)
(* and any number of calls and faults: answers reach the calls they belong *)
(* to, commands are carried out once and in order, and an orderly stop     *)
(* leaves no command of a client unanswered.                               *)
(***************************************************************************)
EXTENDS ClientConnection, TLAPS

(* The command a response has to answer, as it is on the stream. *)
Frame(c) == [id |-> id[c], cmd |-> Sent(cmd[c])]

IsDone(c, n) == \E i \in DOMAIN done[c] : done[c][i] = n

(* A response to the last command of c, or what a kill left of one. *)
Answer(c, r) ==
    \/ r.kind = Torn
    \/ r.of = id[c] /\ r.kind = "Error"
    \/ /\ r.of = id[c] /\ cmd[c] # Foreign
       /\ r.kind = HandledWith[Sent(cmd[c])] /\ IsDone(c, id[c])

(* Where the last command of a client that waits is: nowhere any more, on   *)
(* its way to the daemon, with its handler, or answered.                    *)
InFlight(c) ==
    \/ handler[c] = "Ended" /\ toClient[c] = <<>>
    \/ /\ handler[c] \in {"Backlog", "Recv"} /\ toClient[c] = <<>>
       /\ Len(toDaemon[c]) = 1 /\ Head(toDaemon[c]) = Frame(c)
    \/ /\ handler[c] = "Handle" /\ toClient[c] = <<>>
       /\ toDaemon[c] = <<>> /\ request[c] = Frame(c)
    \/ /\ handler[c] \in {"Send", "SendLast"} /\ toClient[c] = <<>>
       /\ toDaemon[c] = <<>> /\ Answer(c, response[c])
    \/ /\ handler[c] = "Ended" \/ (handler[c] = "Recv" /\ toDaemon[c] = <<>>)
       /\ Len(toClient[c]) = 1 /\ Answer(c, Head(toClient[c]))

(* Between two calls the stream is empty, or closed by the daemon. *)
AtRest(c) ==
    /\ toClient[c] = <<>>
    /\ handler[c] = "Ended" \/ (handler[c] \in {"None", "Backlog", "Recv"} /\ toDaemon[c] = <<>>)

(* Unless a call was abandoned, there is one command at most on a stream. *)
OneAtATime(c) ==
    /\ lib[c] = "Recv" => conn[c] = "Open"
    /\ conn[c] = "None" <=> handler[c] = "None"
    /\ ~abandoned[c] =>
        /\ lib[c] = "Recv" => InFlight(c)
        /\ lib[c] = "Idle" /\ conn[c] # "Closed" => AtRest(c)
        /\ conn[c] = "Closed" => result[c] = NoResult

(* What AnswersMatch says of one client. *)
Matches(c) ==
    ~abandoned[c] =>
        /\ result[c].outcome \in {"Ok", "OperationFail"} => result[c].of = id[c]
        /\ result[c].outcome = "Ok" => IsDone(c, id[c])
        /\ result[c].outcome # "InvalidResponse"

(* The commands sent, on their way, taken and done are in the same order. *)
Ordered(c) ==
    /\ \A i, j \in DOMAIN done[c] : i < j => done[c][i] < done[c][j]
    /\ \A i \in DOMAIN done[c] : done[c][i] <= id[c]
    /\ \A i \in DOMAIN toDaemon[c] : toDaemon[c][i].id <= id[c]
    /\ \A i \in DOMAIN toDaemon[c] : toDaemon[c][i].cmd # Torn =>
        /\ \A j \in DOMAIN done[c] : done[c][j] < toDaemon[c][i].id
        /\ \A j \in DOMAIN toDaemon[c] : j < i => toDaemon[c][j].id < toDaemon[c][i].id
        /\ handler[c] = "Handle" => request[c].id < toDaemon[c][i].id
    /\ handler[c] = "Handle" =>
        /\ request[c].id <= id[c]
        /\ \A j \in DOMAIN done[c] : done[c][j] < request[c].id

(* A handler that reads the next command has answered the last one. *)
Answering(c) ==
    /\ handler[c] \in {"None", "Backlog", "Recv"} => taken[c] = answered[c]
    /\ handler[c] = "Handle" => request[c].id = taken[c]
    /\ handler[c] \in {"Send", "SendLast"} => response[c].of = taken[c]
    /\ graceful /\ handler[c] = "Ended" /\ conn[c] = "Open" => taken[c] = answered[c]
    /\ graceful /\ server = "Down" => handler[c] \in {"None", "Ended"}

Counted == \A c \in Clients : id[c] <= calls

(* A handler handles only commands of the protocol. *)
Known == \A c \in Clients : handler[c] = "Handle" => request[c].cmd \in WardenCommand

IInv ==
    /\ TypeOK /\ Counted /\ Known
    /\ \A c \in Clients : OneAtATime(c) /\ Matches(c) /\ Ordered(c) /\ Answering(c)

(* The library expects of every command what the daemon answers to it, and  *)
(* what it sends is a command the daemon knows.                             *)
LEMMA Protocol ==
  ASSUME NEW k \in DOMAIN Calls
  PROVE  /\ Sent(k) \in WardenCommand /\ k # Foreign
         /\ Expects[Calls[k]] = HandledWith[Sent(k)]
         /\ HandledWith[Sent(k)] \notin {"Error", Torn}
  <1>1. k \in {"CreateRealm", "StartRealm", "FetchAttestationToken", "StopRealm", "InspectRealm", "ListRealms",
               "DestroyRealm", "RebootRealm", "CreateApplication", "StartApplication", "StopApplication",
               "UpdateApplication"}
      BY Zenon DEF Calls
  <1>2. k # Foreign
      BY <1>1, Zenon DEF Foreign
  <1>3. QED
      BY <1>1, <1>2 DEF Foreign, Torn, Sent, Sends, Calls, Expects, HandledWith, WardenCommand

(* A frame at the end and at the head of a queue. *)
LEMMA Queue ==
  ASSUME NEW S, NEW q \in Seq(S), NEW x \in S
  PROVE  /\ Append(q, x) \in Seq(S) /\ Len(Append(q, x)) = Len(q) + 1
         /\ q = <<>> => Head(Append(q, x)) = x
         /\ q # <<>> => Head(q) \in S /\ Tail(q) \in Seq(S) /\ Len(Tail(q)) = Len(q) - 1
         /\ q # <<>> <=> Len(q) # 0
         /\ Len(q) = 1 => Tail(q) = <<>>
  <1>1. Append(q, x) \in Seq(S) /\ Len(Append(q, x)) = Len(q) + 1
      OBVIOUS
  <1>2. q = <<>> => Head(Append(q, x)) = x
      OBVIOUS
  <1>3. q # <<>> => Head(q) \in S /\ Tail(q) \in Seq(S) /\ Len(Tail(q)) = Len(q) - 1
      OBVIOUS
  <1>4. q # <<>> <=> Len(q) # 0
      OBVIOUS
  <1>5. ASSUME NEW p \in Seq(S), Len(p) = 0 PROVE p = <<>>
      BY <1>5
  <1>6. ASSUME Len(q) = 1 PROVE Tail(q) = <<>>
    <2>1. PICK p : p = Tail(q)
        BY Zenon
    <2>2. q # <<>>
      <3>1. Len(q) # 0
          BY <1>6
      <3>2. QED
          BY <3>1, <1>4, Zenon
    <2>3. p \in Seq(S) /\ Len(p) = Len(q) - 1
        BY <1>3, <2>1, <2>2, Zenon
    <2>4. Len(p) = 0
        BY <1>6, <2>3
    <2>5. QED
        BY <1>5, <2>1, <2>3, <2>4, Zenon
  <1>7. QED
      BY <1>1, <1>2, <1>3, <1>4, <1>6, Zenon

(* What a queue holds, by position. *)
LEMMA Positions ==
  ASSUME NEW S, NEW q \in Seq(S), NEW x \in S
  PROVE  /\ DOMAIN q = 1..Len(q) /\ Len(q) \in Nat /\ \A i \in DOMAIN q : q[i] \in S
         /\ DOMAIN Append(q, x) = 1..(Len(q) + 1)
         /\ \A i \in 1..Len(q) : Append(q, x)[i] = q[i]
         /\ Append(q, x)[Len(q) + 1] = x
         /\ q # <<>> => /\ DOMAIN Tail(q) = 1..(Len(q) - 1) /\ Head(q) = q[1] /\ 1 \in DOMAIN q
                        /\ \A i \in 1..(Len(q) - 1) : Tail(q)[i] = q[i + 1]
  OBVIOUS

(* A frame on an empty queue. *)
LEMMA FirstFrame == \A x : Len(Append(<<>>, x)) = 1 /\ Head(Append(<<>>, x)) = x
  OBVIOUS

(* What is in a queue has its type. *)
LEMMA Element ==
  ASSUME NEW S, NEW q \in Seq(S), NEW i \in DOMAIN q
  PROVE  q[i] \in S
  OBVIOUS

(* Commands are numbered. *)
LEMMA Numbers ==
  /\ \A q \in Seq(Requests) : \A i \in DOMAIN q : q[i].id \in Nat
  /\ \A q \in Seq(0..MaxCalls) : \A i \in DOMAIN q : q[i] \in Nat
  <1>1. ASSUME NEW q \in Seq(Requests), NEW i \in DOMAIN q PROVE q[i].id \in Nat
    <2>1. q[i] \in Requests
        BY <1>1
    <2>2. QED
        BY <2>1, ConstantsAssumption DEF Requests
  <1>2. ASSUME NEW q \in Seq(0..MaxCalls), NEW i \in DOMAIN q PROVE q[i] \in Nat
    <2>1. q[i] \in 0..MaxCalls
        BY <1>2, Element, Zenon
    <2>2. QED
        BY <2>1, ConstantsAssumption
  <1>3. QED
      BY <1>1, <1>2, Zenon

(* The frames of the protocol are requests and responses. *)
LEMMA Frames ==
  /\ TornRequest \in Requests /\ TornResponse \in Responses /\ NoResult \in [outcome : Outcomes, of : 0..MaxCalls]
  /\ \A n \in 0..MaxCalls, k \in Commands : [id |-> n, cmd |-> Sent(k)] \in Requests
  /\ \A n \in 0..MaxCalls : [of |-> n, kind |-> "Error"] \in Responses
  /\ \A n \in 0..MaxCalls, w \in WardenCommand : [of |-> n, kind |-> HandledWith[w]] \in Responses
  <1>1. TornRequest \in Requests /\ TornResponse \in Responses /\ NoResult \in [outcome : Outcomes, of : 0..MaxCalls]
      BY ConstantsAssumption DEF Requests, Responses, TornRequest, TornResponse, NoResult, Outcomes
  <1>2. ASSUME NEW n \in 0..MaxCalls, NEW k \in Commands PROVE [id |-> n, cmd |-> Sent(k)] \in Requests
    <2>1. Sent(k) \in WardenCommand \cup {Foreign, Torn}
        BY ConstantsAssumption, Protocol, Zenon DEF Sent, Foreign
    <2>2. QED
        BY <2>1, Zenon DEF Requests
  <1>3. \A w \in WardenCommand : HandledWith[w] \in WardenResponse \cup {Torn}
      BY Zenon DEF WardenResponse
  <1>4. "Error" \in WardenResponse \cup {Torn}
      BY Zenon DEF WardenResponse
  <1>5. QED
      BY <1>1, <1>2, <1>3, <1>4, Zenon DEF Responses

(* The steps of one client and of its handler. *)
ClientStep(c) ==
    \/ connect(c) \/ parse_users_input_fails(c) \/ send_command(c) \/ recv_response(c) \/ abandon(c) \/ disconnect(c)
    \/ recv_command(c) \/ handle_command(c) \/ send_response(c) \/ exit_handler(c) \/ accept(c)

(* The outcome of a call, for any response. *)
LEMMA OutcomeType == \A k, r : Outcome(k, r) \in Outcomes
  BY Zenon DEF Outcome, Outcomes, Torn, Foreign

(* Every variable keeps its type: a client has sent no more commands than   *)
(* there were calls.                                                        *)
LEMMA TypesStep == TypeOK /\ Counted /\ Known /\ [Next]_vars => TypeOK' /\ Counted'
  <1> SUFFICES ASSUME TypeOK, Counted, Known, [Next]_vars PROVE TypeOK' /\ Counted'
      BY Zenon
  <1> USE DEF clientVars, handlerVars, serverVars, bounds
  <1>F. Fault => faults' \in 0..MaxFaults
      BY ConstantsAssumption DEF TypeOK, Fault
  <1>R. \A o \in Outcomes : [outcome |-> o, of |-> 0] \in [outcome : Outcomes, of : 0..MaxCalls]
      BY ConstantsAssumption
  <1>1. CASE UNCHANGED vars
      BY <1>1, Zenon DEF vars, TypeOK, Counted
  <1>2. ASSUME NEW c \in Clients, connect(c) PROVE TypeOK' /\ Counted'
      BY <1>2, Zenon DEF connect, TypeOK, Counted
  <1>3. ASSUME NEW c \in Clients, parse_users_input_fails(c) PROVE TypeOK' /\ Counted'
    <2>1. [outcome |-> "NotSent", of |-> 0] \in [outcome : Outcomes, of : 0..MaxCalls]
        BY <1>R, Zenon DEF Outcomes
    <2>2. QED
        BY <1>3, <2>1, Zenon DEF parse_users_input_fails, TypeOK, Counted
  <1>C. [outcome |-> "CommunicationFail", of |-> 0] \in [outcome : Outcomes, of : 0..MaxCalls]
      BY <1>R, Zenon DEF Outcomes
  <1>4. ASSUME NEW c \in Clients, send_command(c) PROVE TypeOK' /\ Counted'
    <2>1. CASE handler[c] = "Ended"
      <3>1. /\ result' = [result EXCEPT ![c] = [outcome |-> "CommunicationFail", of |-> 0]]
            /\ UNCHANGED <<lib, id, cmd, toDaemon, calls, conn, abandoned, toClient, handlerVars, serverVars, faults>>
          BY <1>4, <2>1, Zenon DEF send_command
      <3>2. result' \in [Clients -> [outcome : Outcomes, of : 0..MaxCalls]]
          BY <1>C, <3>1, Zenon DEF TypeOK
      <3>3. QED
          BY <3>1, <3>2, Zenon DEF TypeOK, Counted
    <2>2. CASE handler[c] # "Ended"
      <3>1. PICK k \in Commands : toDaemon' = [toDaemon EXCEPT ![c] = Append(@, [id |-> id'[c], cmd |-> Sent(k)])]
                                   /\ cmd' = [cmd EXCEPT ![c] = k]
          BY <1>4, <2>2, Zenon DEF send_command
      <3>2. /\ calls < MaxCalls /\ calls' = calls + 1 /\ id' = [id EXCEPT ![c] = @ + 1]
            /\ calls \in 0..MaxCalls /\ id \in [Clients -> 0..MaxCalls]
          BY <1>4, <2>2, Zenon DEF send_command, TypeOK
      <3>3. /\ calls' \in 0..MaxCalls /\ id' \in [Clients -> 0..MaxCalls] /\ id'[c] \in 0..MaxCalls /\ Counted'
          BY <3>2, ConstantsAssumption DEF Counted
      <3>4. [id |-> id'[c], cmd |-> Sent(k)] \in Requests
          BY <3>3, Frames, Zenon
      <3>5. Append(toDaemon[c], [id |-> id'[c], cmd |-> Sent(k)]) \in Seq(Requests)
          BY <3>4, Queue, Zenon DEF TypeOK
      <3>6. toDaemon' \in [Clients -> Seq(Requests)]
          BY <3>1, <3>5, Zenon DEF TypeOK
      <3>7. result' \in [Clients -> [outcome : Outcomes, of : 0..MaxCalls]]
          BY <1>4, <2>2, Frames, ZenonT(60) DEF send_command, TypeOK
      <3>8. QED
          BY <1>4, <2>2, <3>1, <3>3, <3>6, <3>7, Zenon DEF send_command, TypeOK
    <2>3. QED
        BY <2>1, <2>2, Zenon
  <1>5. ASSUME NEW c \in Clients, recv_response(c) PROVE TypeOK' /\ Counted'
    <2>1. CASE toClient[c] # <<>>
      <3>1. Head(toClient[c]) \in Responses /\ Tail(toClient[c]) \in Seq(Responses)
          BY <2>1, Queue, Frames, Zenon DEF TypeOK
      <3>2. toClient' \in [Clients -> Seq(Responses)]
          BY <1>5, <2>1, <3>1, ZenonT(60) DEF recv_response, TypeOK
      <3>3. [outcome |-> Outcome(cmd[c], Head(toClient[c]).kind), of |-> Head(toClient[c]).of]
                \in [outcome : Outcomes, of : 0..MaxCalls]
          BY <3>1, OutcomeType, Zenon DEF Responses
      <3>4. result' \in [Clients -> [outcome : Outcomes, of : 0..MaxCalls]]
          BY <1>5, <2>1, <3>3, ZenonT(60) DEF recv_response, TypeOK
      <3>5. QED
          BY <1>5, <3>2, <3>4, Zenon DEF recv_response, TypeOK, Counted
    <2>2. CASE toClient[c] = <<>>
      <3>1. result' = [result EXCEPT ![c] = [outcome |-> "CommunicationFail", of |-> 0]] /\ UNCHANGED toClient
          BY <1>5, <2>2, Zenon DEF recv_response
      <3>2. result' \in [Clients -> [outcome : Outcomes, of : 0..MaxCalls]]
          BY <1>C, <3>1, Zenon DEF TypeOK
      <3>3. QED
          BY <1>5, <3>1, <3>2, Zenon DEF recv_response, TypeOK, Counted
    <2>3. QED
        BY <2>1, <2>2, Zenon
  <1>6. ASSUME NEW c \in Clients, abandon(c) PROVE TypeOK' /\ Counted'
    <2>1. [outcome |-> "Abandoned", of |-> 0] \in [outcome : Outcomes, of : 0..MaxCalls]
        BY <1>R, Zenon DEF Outcomes
    <2>2. QED
        BY <1>6, <1>F, <2>1, Zenon DEF abandon, TypeOK, Counted
  <1>7. ASSUME NEW c \in Clients, disconnect(c) PROVE TypeOK' /\ Counted'
    <2>1. Append(toDaemon[c], TornRequest) \in Seq(Requests) /\ <<>> \in Seq(Responses)
        BY Frames, Queue DEF TypeOK
    <2>2. /\ faults' \in 0..MaxFaults
          /\ toDaemon' = toDaemon \/ toDaemon' = [toDaemon EXCEPT ![c] = Append(@, TornRequest)]
        BY <1>7, <1>F, Zenon DEF disconnect, TypeOK
    <2>5. toDaemon' \in [Clients -> Seq(Requests)]
        BY <2>1, <2>2, Zenon DEF TypeOK
    <2>3. toClient' \in [Clients -> Seq(Responses)]
        BY <1>7, <2>1, Zenon DEF disconnect, TypeOK
    <2>4. result' \in [Clients -> [outcome : Outcomes, of : 0..MaxCalls]]
        BY <1>7, Frames, Zenon DEF disconnect, TypeOK
    <2>6. QED
        BY <1>7, <2>2, <2>3, <2>4, <2>5, Zenon DEF disconnect, TypeOK, Counted
  <1>8. ASSUME NEW c \in Clients, recv_command(c) PROVE TypeOK' /\ Counted'
    <2>1. Head(toDaemon[c]) \in Requests /\ Tail(toDaemon[c]) \in Seq(Requests)
        BY <1>8, Queue, Frames, Zenon DEF recv_command, TypeOK
    <2>2. Head(toDaemon[c]).id \in 0..MaxCalls
        BY <2>1, Zenon DEF Requests
    <2>3. [of |-> Head(toDaemon[c]).id, kind |-> "Error"] \in Responses
        BY <2>2, Frames, Zenon
    <2>4. response' \in [Clients -> Responses]
        BY <1>8, <2>3, ZenonT(60) DEF recv_command, TypeOK
    <2>5. toDaemon' \in [Clients -> Seq(Requests)] /\ request' \in [Clients -> Requests]
        BY <1>8, <2>1, Zenon DEF recv_command, TypeOK
    <2>6. QED
        BY <1>8, <2>2, <2>4, <2>5, Zenon DEF recv_command, TypeOK, Counted
  <1>9. ASSUME NEW c \in Clients, handle_command(c) PROVE TypeOK' /\ Counted'
    <2>1. request[c].id \in 0..MaxCalls /\ request[c].cmd \in WardenCommand
        BY <1>9, Zenon DEF handle_command, TypeOK, Requests, Known
    <2>2. /\ [of |-> request[c].id, kind |-> HandledWith[request[c].cmd]] \in Responses
          /\ [of |-> request[c].id, kind |-> "Error"] \in Responses
          /\ Append(done[c], request[c].id) \in Seq(0..MaxCalls)
        BY <2>1, Frames, Queue, Zenon DEF TypeOK
    <2>T. response \in [Clients -> Responses] /\ done \in [Clients -> Seq(0..MaxCalls)]
        BY Zenon DEF TypeOK
    <2>3. response' \in [Clients -> Responses]
      <3>1. \E r \in Responses : response' = [response EXCEPT ![c] = r]
          BY <1>9, <2>2, Zenon DEF handle_command
      <3>2. QED
          BY <2>T, <3>1, Zenon
    <2>4. done' \in [Clients -> Seq(0..MaxCalls)]
      <3>1. done' = done \/ done' = [done EXCEPT ![c] = Append(done[c], request[c].id)]
          BY <1>9, Zenon DEF handle_command
      <3>2. QED
          BY <2>T, <2>2, <3>1, Zenon
    <2>5. QED
        BY <1>9, <2>3, <2>4, Zenon DEF handle_command, TypeOK, Counted
  <1>10. ASSUME NEW c \in Clients, send_response(c) PROVE TypeOK' /\ Counted'
    <2>1. response[c] \in Responses /\ toClient[c] \in Seq(Responses)
        BY Zenon DEF TypeOK
    <2>2. response[c].of \in 0..MaxCalls /\ Append(toClient[c], response[c]) \in Seq(Responses)
        BY <2>1, Queue, Zenon DEF Responses
    <2>3. /\ toClient' = toClient \/ toClient' = [toClient EXCEPT ![c] = Append(@, response[c])]
          /\ answered' = answered \/ answered' = [answered EXCEPT ![c] = response[c].of]
        BY <1>10, Zenon DEF send_response
    <2>4. toClient' \in [Clients -> Seq(Responses)]
        BY <2>2, <2>3, ZenonT(60) DEF TypeOK
    <2>5. answered' \in [Clients -> 0..MaxCalls]
        BY <2>2, <2>3, Zenon DEF TypeOK
    <2>6. request' \in [Clients -> Requests] /\ response' \in [Clients -> Responses]
        BY <1>10, Frames, Zenon DEF send_response, TypeOK
    <2>7. handler' = [handler EXCEPT ![c] = "Recv"] \/ handler' = [handler EXCEPT ![c] = "Ended"]
        BY <1>10, Zenon DEF send_response
    <2>8. handler' \in [Clients -> {"None", "Backlog", "Recv", "Handle", "Send", "SendLast", "Ended"}]
        BY <2>7, Zenon DEF TypeOK
    <2>9. QED
        BY <1>10, <2>4, <2>5, <2>6, <2>8, Zenon DEF send_response, TypeOK, Counted
  <1>11. ASSUME NEW c \in Clients, exit_handler(c) \/ accept(c) PROVE TypeOK' /\ Counted'
    <2>1. handler' = [handler EXCEPT ![c] = "Recv"] \/ handler' = [handler EXCEPT ![c] = "Ended"]
        BY <1>11, Zenon DEF exit_handler, accept
    <2>2. handler' \in [Clients -> {"None", "Backlog", "Recv", "Handle", "Send", "SendLast", "Ended"}]
        BY <2>1, Zenon DEF TypeOK
    <2>3. UNCHANGED <<clientVars, toDaemon, toClient, request, response, taken, answered, done, serverVars, bounds>>
        BY <1>11, Zenon DEF exit_handler, accept
    <2>4. QED
        BY <2>2, <2>3, Zenon DEF TypeOK, Counted
  <1>A. AbortAll \/ join_handlers =>
            handler' \in [Clients -> {"None", "Backlog", "Recv", "Handle", "Send", "SendLast", "Ended"}]
      BY ZenonT(60) DEF AbortAll, join_handlers, TypeOK
  <1>12. CASE accept_fails
      BY <1>12, <1>A, <1>F, Zenon DEF accept_fails, AbortAll, TypeOK, Counted
  <1>13. CASE stop_listening \/ join_handlers \/ cancel
      BY <1>13, <1>A, ZenonT(60) DEF stop_listening, join_handlers, cancel, TypeOK, Counted
  <1>14. CASE kill
    <2>1. ASSUME NEW c \in Clients PROVE Append(toClient[c], TornResponse) \in Seq(Responses)
        BY Frames, Queue, Zenon DEF TypeOK
    <2>2. toClient' \in [Clients -> Seq(Responses)]
        BY <1>14, <2>1 DEF kill, TypeOK
    <2>3. QED
        BY <1>14, <1>A, <1>F, <2>2, Zenon DEF kill, AbortAll, TypeOK, Counted
  <1>15. QED
      BY <1>1, <1>2, <1>3, <1>4, <1>5, <1>6, <1>7, <1>8, <1>9, <1>10, <1>11, <1>12, <1>13, <1>14, Zenon DEF Next, Handler

(* What the invariant says of a client depends on these. *)
Same(c) ==
    /\ conn'[c] = conn[c] /\ lib'[c] = lib[c] /\ id'[c] = id[c] /\ cmd'[c] = cmd[c] /\ result'[c] = result[c]
    /\ abandoned'[c] = abandoned[c] /\ toDaemon'[c] = toDaemon[c] /\ toClient'[c] = toClient[c]
    /\ request'[c] = request[c] /\ response'[c] = response[c]
    /\ taken'[c] = taken[c] /\ answered'[c] = answered[c] /\ done'[c] = done[c]

PerClient(c) == OneAtATime(c) /\ Matches(c) /\ Ordered(c) /\ Answering(c)

(* A step of one client leaves the others alone. *)
LEMMA OthersStay ==
  ASSUME TypeOK, NEW c \in Clients, NEW d \in Clients, d # c, ClientStep(c)
  PROVE  Same(d) /\ handler'[d] = handler[d] /\ UNCHANGED <<server, graceful>>
  <1>T. /\ DOMAIN conn = Clients /\ DOMAIN lib = Clients /\ DOMAIN id = Clients /\ DOMAIN cmd = Clients
        /\ DOMAIN result = Clients /\ DOMAIN abandoned = Clients /\ DOMAIN toDaemon = Clients
        /\ DOMAIN toClient = Clients /\ DOMAIN handler = Clients /\ DOMAIN request = Clients
        /\ DOMAIN response = Clients /\ DOMAIN taken = Clients /\ DOMAIN answered = Clients /\ DOMAIN done = Clients
      BY Zenon DEF TypeOK
  <1> USE <1>T DEF Same, clientVars, handlerVars, serverVars, bounds
  <1>1. CASE connect(c) \/ parse_users_input_fails(c)
      BY <1>1, Zenon DEF connect, parse_users_input_fails
  <1>2. CASE send_command(c)
      BY <1>2, ZenonT(60) DEF send_command
  <1>3. CASE recv_response(c)
      BY <1>3, Zenon DEF recv_response
  <1>4. CASE abandon(c)
      BY <1>4, Zenon DEF abandon
  <1>5. CASE disconnect(c)
      BY <1>5, Zenon DEF disconnect
  <1>6. CASE recv_command(c)
      BY <1>6, ZenonT(60) DEF recv_command
  <1>7. CASE handle_command(c)
      BY <1>7, Zenon DEF handle_command
  <1>8. CASE send_response(c)
      BY <1>8, ZenonT(60) DEF send_response
  <1>9. CASE exit_handler(c) \/ accept(c)
      BY <1>9, Zenon DEF exit_handler, accept
  <1>10. QED
      BY <1>1, <1>2, <1>3, <1>4, <1>5, <1>6, <1>7, <1>8, <1>9, Zenon DEF ClientStep

(* A client of which nothing changes keeps its part of the invariant. *)
LEMMA SameKeeps ==
  ASSUME NEW c \in Clients, PerClient(c), Same(c), handler'[c] = handler[c], UNCHANGED <<server, graceful>>
  PROVE  PerClient(c)'
  <1> USE DEF Same
  <1>1. OneAtATime(c)'
      BY DEF PerClient, OneAtATime, InFlight, AtRest, Frame, Answer, IsDone
  <1>2. Matches(c)'
      BY Zenon DEF PerClient, Matches, IsDone
  <1>3. Ordered(c)'
      BY Zenon DEF PerClient, Ordered
  <1>4. Answering(c)'
      BY Zenon DEF PerClient, Answering
  <1>5. QED
      BY <1>1, <1>2, <1>3, <1>4, Zenon DEF PerClient

(* The types of what belongs to one client. *)
LEMMA ClientTypes ==
  ASSUME TypeOK, NEW c \in Clients
  PROVE  /\ conn[c] \in {"None", "Open", "Closed"} /\ lib[c] \in {"Idle", "Recv"}
         /\ id[c] \in Nat /\ cmd[c] \in Commands \cup {Foreign} /\ toDaemon[c] \in Seq(Requests)
         /\ toClient[c] \in Seq(Responses) /\ request[c] \in Requests /\ response[c] \in Responses
         /\ handler[c] \in {"None", "Backlog", "Recv", "Handle", "Send", "SendLast", "Ended"}
         /\ done[c] \in Seq(0..MaxCalls)
  BY ConstantsAssumption DEF TypeOK

(* An update of a function is what it is at the updated argument. *)
LEMMA Domains ==
  ASSUME TypeOK
  PROVE  /\ DOMAIN conn = Clients /\ DOMAIN lib = Clients /\ DOMAIN id = Clients /\ DOMAIN cmd = Clients
         /\ DOMAIN result = Clients /\ DOMAIN abandoned = Clients /\ DOMAIN toDaemon = Clients
         /\ DOMAIN toClient = Clients /\ DOMAIN handler = Clients /\ DOMAIN request = Clients
         /\ DOMAIN response = Clients /\ DOMAIN taken = Clients /\ DOMAIN answered = Clients /\ DOMAIN done = Clients
  BY Zenon DEF TypeOK
-------------------------------------------------------------------------------

(* A new command goes on an empty stream, with a higher number. *)
LEMMA SendKeeps ==
  ASSUME TypeOK, TypeOK', NEW c \in Clients, PerClient(c), send_command(c)
  PROVE  PerClient(c)'
  <1>1. /\ conn[c] = "Open" /\ lib[c] = "Idle" /\ conn' = conn /\ abandoned' = abandoned /\ toClient' = toClient
        /\ handler' = handler /\ request' = request /\ response' = response /\ taken' = taken
        /\ answered' = answered /\ done' = done /\ server' = server /\ graceful' = graceful
      BY Zenon DEF send_command, handlerVars, serverVars
  <1>2. CASE handler[c] = "Ended"
    <2>1. /\ result'[c] = [outcome |-> "CommunicationFail", of |-> 0] /\ UNCHANGED <<lib, id, cmd, toDaemon>>
        BY <1>2, Domains, Zenon DEF send_command
    <2>2. OneAtATime(c)'
        BY <1>1, <1>2, <2>1, Zenon DEF PerClient, OneAtATime, AtRest
    <2>3. Matches(c)'
        BY <1>1, <2>1 DEF Matches
    <2>4. Ordered(c)'
        BY <1>1, <2>1, Zenon DEF PerClient, Ordered
    <2>5. Answering(c)'
        BY <1>1, <2>1, Zenon DEF PerClient, Answering
    <2>6. QED
        BY <2>2, <2>3, <2>4, <2>5, Zenon DEF PerClient
  <1>3. CASE handler[c] # "Ended"
    <2>1. PICK k \in Commands : /\ cmd' = [cmd EXCEPT ![c] = k]
                                 /\ toDaemon' = [toDaemon EXCEPT ![c] = Append(@, [id |-> id'[c], cmd |-> Sent(k)])]
        BY <1>3, Zenon DEF send_command
    <2>2. /\ id'[c] = id[c] + 1 /\ result'[c] = NoResult /\ lib'[c] = "Recv" /\ cmd'[c] = k
          /\ toDaemon'[c] = Append(toDaemon[c], Frame(c)')
        BY <1>3, <2>1, Domains, ZenonT(60) DEF send_command, Frame
    <2>3. id[c] \in Nat /\ id'[c] \in 0..MaxCalls /\ toDaemon[c] \in Seq(Requests) /\ done[c] \in Seq(0..MaxCalls)
        BY ConstantsAssumption DEF TypeOK
    <2>4. Frame(c)'.id = id[c] + 1 /\ Frame(c)' \in Requests
        BY <2>2, <2>3, Frames, Zenon DEF Frame
    <2>5. OneAtATime(c)'
      <3>1. ~abandoned[c] => /\ toClient[c] = <<>> /\ toDaemon[c] = <<>> /\ handler[c] \in {"Backlog", "Recv"}
          BY <1>1, <1>3, Zenon DEF PerClient, OneAtATime, AtRest
      <3>2. toDaemon[c] = <<>> => Len(toDaemon'[c]) = 1 /\ Head(toDaemon'[c]) = Frame(c)'
          BY <2>2, <2>3, <2>4, Queue
      <3>3. ~abandoned[c] => InFlight(c)'
          BY <1>1, <3>1, <3>2, Zenon DEF InFlight
      <3>4. QED
          BY <1>1, <2>2, <3>3, Zenon DEF PerClient, OneAtATime
    <2>6. Matches(c)'
        BY <1>1, <2>2 DEF Matches, NoResult
    <2>7. Ordered(c)'
      <3>1. /\ DOMAIN toDaemon[c] = 1..Len(toDaemon[c]) /\ Len(toDaemon[c]) \in Nat
            /\ DOMAIN toDaemon'[c] = 1..(Len(toDaemon[c]) + 1) /\ toDaemon'[c][Len(toDaemon[c]) + 1] = Frame(c)'
            /\ \A i \in 1..Len(toDaemon[c]) : toDaemon'[c][i] = toDaemon[c][i]
          BY <2>2, <2>3, <2>4, Positions
      <3>2. \A i \in DOMAIN done[c] : done[c][i] \in Nat
          BY <2>3, Numbers, Zenon
      <3>3. \A i \in DOMAIN toDaemon[c] : toDaemon[c][i].id \in Nat
          BY <2>3, Numbers, Zenon
      <3>4. \A i \in DOMAIN done[c] : done[c][i] < id[c] + 1
          BY <2>3, <3>2 DEF PerClient, Ordered
      <3>5. \A i \in DOMAIN toDaemon[c] : toDaemon[c][i].id < id[c] + 1
          BY <2>3, <3>3 DEF PerClient, Ordered
      <3>6. handler[c] = "Handle" => request[c].id < id[c] + 1 /\ request[c].id <= id[c] + 1
        <4>1. request[c].id \in Nat
            BY ConstantsAssumption DEF TypeOK, Requests
        <4>2. QED
            BY <2>3, <4>1 DEF PerClient, Ordered
      <3>7. \A i \in DOMAIN toDaemon'[c] : toDaemon'[c][i].id <= id[c] + 1
        <4>1. ASSUME NEW i \in DOMAIN toDaemon'[c] PROVE toDaemon'[c][i].id <= id[c] + 1
          <5>1. CASE i = Len(toDaemon[c]) + 1
              BY <2>3, <2>4, <3>1, <5>1
          <5>2. CASE i \in 1..Len(toDaemon[c])
            <6>1. toDaemon'[c][i] = toDaemon[c][i] /\ i \in DOMAIN toDaemon[c]
                BY <3>1, <5>2, Zenon
            <6>2. QED
                BY <2>3, <3>3, <3>5, <6>1
          <5>3. QED
              BY <3>1, <4>1, <5>1, <5>2
        <4>2. QED
            BY <4>1, Zenon
      <3>8. ASSUME NEW i \in DOMAIN toDaemon'[c], toDaemon'[c][i].cmd # Torn
            PROVE  /\ \A j \in DOMAIN done[c] : done[c][j] < toDaemon'[c][i].id
                   /\ \A j \in DOMAIN toDaemon'[c] : j < i => toDaemon'[c][j].id < toDaemon'[c][i].id
                   /\ handler[c] = "Handle" => request[c].id < toDaemon'[c][i].id
        <4>1. CASE i = Len(toDaemon[c]) + 1
            BY <2>4, <3>1, <3>4, <3>5, <3>6, <4>1
        <4>2. CASE i \in DOMAIN toDaemon[c]
          <5>1. toDaemon'[c][i] = toDaemon[c][i] /\ i \in 1..Len(toDaemon[c])
              BY <3>1, <4>2, Zenon
          <5>2. ASSUME NEW j \in DOMAIN toDaemon'[c], j < i
                PROVE  toDaemon'[c][j] = toDaemon[c][j] /\ j \in DOMAIN toDaemon[c]
              BY <3>1, <5>1, <5>2
          <5>3. QED
              BY <3>8, <4>2, <5>1, <5>2, Zenon DEF PerClient, Ordered
        <4>3. QED
            BY <3>1, <4>1, <4>2
      <3>9. QED
          BY <1>1, <2>2, <2>3, <3>2, <3>4, <3>6, <3>7, <3>8 DEF PerClient, Ordered
    <2>8. Answering(c)'
        BY <1>1, Zenon DEF PerClient, Answering
    <2>9. QED
        BY <2>5, <2>6, <2>7, <2>8, Zenon DEF PerClient
  <1>4. QED
      BY <1>2, <1>3, Zenon

(* What the library makes of the responses to a command. *)
LEMMA OutcomeOf ==
  ASSUME NEW k \in Commands \cup {Foreign}
  PROVE  /\ Outcome(k, Torn) = "CommunicationFail" /\ Outcome(k, "Error") = "OperationFail"
         /\ k # Foreign => Outcome(k, HandledWith[Sent(k)]) = "Ok"
  <1>1. k # Foreign => k \in DOMAIN Calls
      BY ConstantsAssumption, Zenon
  <1>2. k # Foreign => /\ Expects[Calls[k]] = HandledWith[Sent(k)]
                       /\ HandledWith[Sent(k)] # "Error" /\ HandledWith[Sent(k)] # Torn
      BY <1>1, Protocol, Zenon
  <1>3. QED
      BY <1>2, Zenon DEF Outcome, Torn

(* Nothing that Ordered speaks of changes. *)
LEMMA OrderStays ==
  ASSUME NEW c \in Clients, Ordered(c), id'[c] = id[c], toDaemon'[c] = toDaemon[c], done'[c] = done[c],
         request'[c] = request[c], handler'[c] = handler[c] \/ handler'[c] # "Handle"
  PROVE  Ordered(c)'
  BY Zenon DEF Ordered

(* A call takes the answer to its own command off the stream. *)
LEMMA RecvKeeps ==
  ASSUME TypeOK, NEW c \in Clients, PerClient(c), recv_response(c)
  PROVE  PerClient(c)'
  <1>1. /\ lib[c] = "Recv" /\ lib'[c] = "Idle" /\ conn' = conn /\ abandoned' = abandoned /\ id' = id /\ cmd' = cmd
        /\ toDaemon' = toDaemon /\ handler' = handler /\ request' = request /\ response' = response
        /\ taken' = taken /\ answered' = answered /\ done' = done /\ server' = server /\ graceful' = graceful
      BY Domains, Zenon DEF recv_response, handlerVars, serverVars
  <1>2. Ordered(c)'
      BY <1>1, OrderStays, Zenon DEF PerClient
  <1>3. Answering(c)'
      BY <1>1, Zenon DEF PerClient, Answering
  <1>4. conn[c] = "Open" /\ (~abandoned[c] => InFlight(c))
      BY <1>1, Zenon DEF PerClient, OneAtATime
  <1>5. CASE toClient[c] # <<>>
    <2>1. /\ toClient'[c] = Tail(toClient[c])
          /\ result'[c] = [outcome |-> Outcome(cmd[c], Head(toClient[c]).kind), of |-> Head(toClient[c]).of]
        BY <1>5, Domains, Zenon DEF recv_response
    <2>2. ~abandoned[c] =>
            /\ handler[c] = "Ended" \/ (handler[c] = "Recv" /\ toDaemon[c] = <<>>)
            /\ Len(toClient[c]) = 1 /\ Answer(c, Head(toClient[c]))
        BY <1>4, <1>5, Zenon DEF InFlight
    <2>3. ~abandoned[c] => toClient'[c] = <<>>
        BY <2>1, <2>2, Queue, ClientTypes, Frames, ZenonT(60)
    <2>4. OneAtATime(c)'
        BY <1>1, <1>4, <2>2, <2>3, Zenon DEF PerClient, OneAtATime, AtRest
    <2>5. Matches(c)'
      <3>1. cmd[c] \in Commands \cup {Foreign}
          BY ClientTypes, Zenon
      <3>2. QED
          BY <1>1, <2>1, <2>2, <3>1, OutcomeOf DEF Matches, Answer, IsDone
    <2>6. QED
        BY <1>2, <1>3, <2>4, <2>5, Zenon DEF PerClient
  <1>6. CASE toClient[c] = <<>>
    <2>1. /\ toClient' = toClient /\ handler[c] = "Ended"
          /\ result'[c] = [outcome |-> "CommunicationFail", of |-> 0]
        BY <1>6, Domains, Zenon DEF recv_response
    <2>2. OneAtATime(c)'
        BY <1>1, <1>4, <1>6, <2>1, Zenon DEF PerClient, OneAtATime, AtRest
    <2>3. Matches(c)'
        BY <2>1 DEF Matches
    <2>4. QED
        BY <1>2, <1>3, <2>2, <2>3, Zenon DEF PerClient
  <1>7. QED
      BY <1>5, <1>6, Zenon

(* Dropping a call gives up the guarantee, and connecting or a line that    *)
(* cannot be parsed sends nothing.                                          *)
LEMMA QuietKeeps ==
  ASSUME TypeOK, NEW c \in Clients, PerClient(c), abandon(c) \/ connect(c) \/ parse_users_input_fails(c)
  PROVE  PerClient(c)'
  <1>1. /\ id' = id /\ cmd' = cmd /\ toDaemon' = toDaemon /\ toClient' = toClient /\ request' = request
        /\ response' = response /\ taken' = taken /\ answered' = answered /\ done' = done
        /\ server' = server /\ graceful' = graceful
      BY Zenon DEF abandon, connect, parse_users_input_fails, handlerVars, serverVars
  <1>2. CASE abandon(c)
    <2>1. lib[c] = "Recv" /\ lib'[c] = "Idle" /\ abandoned'[c] /\ conn' = conn /\ handler' = handler
        BY <1>2, Domains, Zenon DEF abandon, handlerVars
    <2>2. Ordered(c)'
        BY <1>1, <2>1, OrderStays, Zenon DEF PerClient
    <2>3. QED
        BY <1>1, <2>1, <2>2, Zenon DEF PerClient, OneAtATime, Matches, Answering
  <1>3. CASE connect(c)
    <2>1. /\ conn[c] = "None" /\ conn'[c] = "Open" /\ handler'[c] = "Backlog" /\ server # "Down"
          /\ lib' = lib /\ result' = result /\ abandoned' = abandoned
        BY <1>3, Domains, Zenon DEF connect
    <2>2. lib[c] = "Idle" /\ handler[c] = "None"
        BY <2>1, ClientTypes, Zenon DEF PerClient, OneAtATime
    <2>3. OneAtATime(c)'
        BY <1>1, <2>1, <2>2, Zenon DEF PerClient, OneAtATime, AtRest
    <2>4. Matches(c)' /\ Answering(c)'
        BY <1>1, <2>1, <2>2, Zenon DEF PerClient, Matches, IsDone, Answering
    <2>5. Ordered(c)'
        BY <1>1, <2>1, OrderStays, Zenon DEF PerClient
    <2>6. QED
        BY <2>3, <2>4, <2>5, Zenon DEF PerClient
  <1>4. CASE parse_users_input_fails(c)
    <2>1. /\ conn[c] = "Open" /\ lib[c] = "Idle" /\ conn' = conn /\ lib' = lib /\ abandoned' = abandoned
          /\ handler' = handler /\ result'[c] = [outcome |-> "NotSent", of |-> 0]
        BY <1>4, Domains, Zenon DEF parse_users_input_fails, handlerVars
    <2>2. OneAtATime(c)'
        BY <1>1, <2>1, Zenon DEF PerClient, OneAtATime, AtRest
    <2>3. Matches(c)'
        BY <2>1 DEF Matches
    <2>4. Answering(c)'
        BY <1>1, <2>1, Zenon DEF PerClient, Answering
    <2>5. Ordered(c)'
        BY <1>1, <2>1, OrderStays, Zenon DEF PerClient
    <2>6. QED
        BY <2>2, <2>3, <2>4, <2>5, Zenon DEF PerClient
  <1>5. QED
      BY <1>2, <1>3, <1>4, Zenon

(* A client that ends gets no answer any more; a command it was killed in   *)
(* the middle of is torn, and no command to the daemon.                     *)
LEMMA DisconnectKeeps ==
  ASSUME TypeOK, NEW c \in Clients, PerClient(c), disconnect(c)
  PROVE  PerClient(c)'
  <1>1. /\ conn[c] = "Open" /\ conn'[c] = "Closed" /\ lib'[c] = "Idle" /\ result'[c] = NoResult
        /\ id' = id /\ abandoned' = abandoned /\ handler' = handler /\ request' = request /\ response' = response
        /\ taken' = taken /\ answered' = answered /\ done' = done /\ server' = server /\ graceful' = graceful
      BY Domains, Zenon DEF disconnect, handlerVars, serverVars
  <1>2. OneAtATime(c)' /\ Matches(c)' /\ Answering(c)'
      BY <1>1 DEF PerClient, OneAtATime, Matches, Answering, NoResult
  <1>3. CASE toDaemon'[c] = toDaemon[c]
      BY <1>1, <1>2, <1>3, OrderStays, Zenon DEF PerClient
  <1>4. CASE toDaemon'[c] = Append(toDaemon[c], TornRequest)
    <2>1. toDaemon[c] \in Seq(Requests) /\ TornRequest \in Requests /\ id[c] \in Nat
        BY ClientTypes, Frames, Zenon
    <2>2. /\ DOMAIN toDaemon[c] = 1..Len(toDaemon[c]) /\ Len(toDaemon[c]) \in Nat
          /\ DOMAIN toDaemon'[c] = 1..(Len(toDaemon[c]) + 1) /\ toDaemon'[c][Len(toDaemon[c]) + 1] = TornRequest
          /\ \A i \in 1..Len(toDaemon[c]) : toDaemon'[c][i] = toDaemon[c][i]
        BY <1>4, <2>1, Positions
    <2>3. TornRequest.id = 0 /\ TornRequest.cmd = Torn
        BY Zenon DEF TornRequest
    <2>4. ASSUME NEW i \in DOMAIN toDaemon'[c] PROVE toDaemon'[c][i].id <= id[c]
      <3>1. CASE i = Len(toDaemon[c]) + 1
          BY <2>1, <2>2, <2>3, <3>1
      <3>2. CASE i \in 1..Len(toDaemon[c])
        <4>1. toDaemon'[c][i] = toDaemon[c][i] /\ i \in DOMAIN toDaemon[c]
            BY <2>2, <3>2, Zenon
        <4>2. QED
            BY <4>1, Zenon DEF PerClient, Ordered
      <3>3. QED
          BY <2>2, <2>4, <3>1, <3>2
    <2>5. ASSUME NEW i \in DOMAIN toDaemon'[c], toDaemon'[c][i].cmd # Torn
          PROVE  /\ \A j \in DOMAIN done[c] : done[c][j] < toDaemon'[c][i].id
                 /\ \A j \in DOMAIN toDaemon'[c] : j < i => toDaemon'[c][j].id < toDaemon'[c][i].id
                 /\ handler[c] = "Handle" => request[c].id < toDaemon'[c][i].id
      <3>1. toDaemon'[c][i] = toDaemon[c][i] /\ i \in 1..Len(toDaemon[c]) /\ i \in DOMAIN toDaemon[c]
          BY <2>2, <2>3, <2>5
      <3>2. ASSUME NEW j \in DOMAIN toDaemon'[c], j < i
            PROVE  toDaemon'[c][j] = toDaemon[c][j] /\ j \in DOMAIN toDaemon[c]
          BY <2>2, <3>1, <3>2
      <3>3. QED
          BY <2>5, <3>1, <3>2, Zenon DEF PerClient, Ordered
    <2>6. Ordered(c)'
        BY <1>1, <2>4, <2>5, Zenon DEF PerClient, Ordered
    <2>7. QED
        BY <1>2, <2>6, Zenon DEF PerClient
  <1>5. QED
      BY <1>3, <1>4, Domains, Zenon DEF disconnect

(* The handler takes the first command: the client's own, unless it has     *)
(* abandoned one.                                                           *)
LEMMA TakeKeeps ==
  ASSUME TypeOK, NEW c \in Clients, PerClient(c), recv_command(c)
  PROVE  PerClient(c)'
  <1>1. /\ handler[c] = "Recv" /\ toDaemon[c] # <<>> /\ toDaemon'[c] = Tail(toDaemon[c])
        /\ request'[c] = Head(toDaemon[c]) /\ taken'[c] = Head(toDaemon[c]).id
        /\ conn' = conn /\ lib' = lib /\ id' = id /\ cmd' = cmd /\ result' = result /\ abandoned' = abandoned
        /\ toClient' = toClient /\ answered' = answered /\ done' = done /\ server' = server /\ graceful' = graceful
      BY Domains, Zenon DEF recv_command, clientVars, serverVars
  <1>2. \/ Head(toDaemon[c]).cmd \in WardenCommand /\ handler'[c] = "Handle"
        \/ handler'[c] = "SendLast" /\ response'[c] = [of |-> Head(toDaemon[c]).id, kind |-> "Error"]
      BY Domains, Zenon DEF recv_command
  <1>3. toDaemon[c] \in Seq(Requests)
      BY ClientTypes, Zenon
  <1>4. OneAtATime(c)'
    <2>1. ~abandoned[c] /\ lib[c] = "Recv" =>
            toClient[c] = <<>> /\ Len(toDaemon[c]) = 1 /\ Head(toDaemon[c]) = Frame(c)
        BY <1>1, Zenon DEF PerClient, OneAtATime, InFlight
    <2>2. ~abandoned[c] /\ lib[c] = "Idle" => conn[c] = "Closed"
        BY <1>1, Zenon DEF PerClient, OneAtATime, AtRest
    <2>3. ~abandoned[c] /\ lib[c] = "Recv" => toDaemon'[c] = <<>>
        BY <1>1, <1>3, <2>1, Queue, Frames, Zenon
    <2>4. ~abandoned[c] /\ lib[c] = "Recv" /\ handler'[c] = "SendLast" => Answer(c, response[c])'
        BY <1>1, <1>2, <2>1 DEF Answer, Frame
    <2>5. ~abandoned[c] /\ lib[c] = "Recv" => InFlight(c)'
        BY <1>1, <1>2, <2>1, <2>3, <2>4, Zenon DEF InFlight, Frame
    <2>6. QED
        BY <1>1, <1>2, <2>2, <2>5, Zenon DEF PerClient, OneAtATime
  <1>5. Matches(c)'
      BY <1>1, Zenon DEF PerClient, Matches, IsDone
  <1>6. Ordered(c)'
    <2>1. /\ DOMAIN toDaemon[c] = 1..Len(toDaemon[c]) /\ Len(toDaemon[c]) \in Nat
          /\ DOMAIN toDaemon'[c] = 1..(Len(toDaemon[c]) - 1) /\ Head(toDaemon[c]) = toDaemon[c][1]
          /\ 1 \in DOMAIN toDaemon[c]
          /\ \A i \in 1..(Len(toDaemon[c]) - 1) : toDaemon'[c][i] = toDaemon[c][i + 1]
      <3>1. TornRequest \in Requests
          BY Frames, Zenon
      <3>2. /\ DOMAIN toDaemon[c] = 1..Len(toDaemon[c]) /\ Len(toDaemon[c]) \in Nat
            /\ DOMAIN Tail(toDaemon[c]) = 1..(Len(toDaemon[c]) - 1) /\ Head(toDaemon[c]) = toDaemon[c][1]
            /\ 1 \in DOMAIN toDaemon[c]
            /\ \A i \in 1..(Len(toDaemon[c]) - 1) : Tail(toDaemon[c])[i] = toDaemon[c][i + 1]
          BY <1>1, <1>3, <3>1, Positions
      <3>3. QED
          BY <1>1, <3>2, Zenon
    <2>2. Torn \notin WardenCommand
        BY Zenon DEF Torn, WardenCommand, HandledWith
    <2>3. ASSUME NEW i \in DOMAIN toDaemon'[c]
          PROVE  toDaemon'[c][i] = toDaemon[c][i + 1] /\ i + 1 \in DOMAIN toDaemon[c] /\ 1 < i + 1 /\ i \in Nat
        BY <2>1, <2>3
    <2>4. ASSUME NEW i \in DOMAIN toDaemon'[c], toDaemon'[c][i].cmd # Torn
          PROVE  /\ \A j \in DOMAIN done[c] : done[c][j] < toDaemon'[c][i].id
                 /\ \A j \in DOMAIN toDaemon'[c] : j < i => toDaemon'[c][j].id < toDaemon'[c][i].id
                 /\ request'[c].id < toDaemon'[c][i].id
      <3>1. ASSUME NEW j \in DOMAIN toDaemon'[c], j < i PROVE toDaemon[c][j + 1].id < toDaemon[c][i + 1].id
        <4>1. j + 1 < i + 1
            BY <2>3, <3>1
        <4>2. QED
            BY <2>3, <2>4, <3>1, <4>1, Zenon DEF PerClient, Ordered
      <3>2. QED
          BY <1>1, <2>1, <2>3, <2>4, <3>1, ZenonT(60) DEF PerClient, Ordered
    <2>5. \A i \in DOMAIN toDaemon'[c] : toDaemon'[c][i].id <= id[c]
        BY <2>3, Zenon DEF PerClient, Ordered
    <2>6. handler'[c] = "Handle" =>
            request'[c].id <= id[c] /\ \A j \in DOMAIN done[c] : done[c][j] < request'[c].id
        BY <1>1, <1>2, <2>1, <2>2, Zenon DEF PerClient, Ordered
    <2>7. QED
        BY <1>1, <2>4, <2>5, <2>6, Zenon DEF PerClient, Ordered
  <1>7. Answering(c)'
      BY <1>1, <1>2 DEF PerClient, Answering
  <1>8. QED
      BY <1>4, <1>5, <1>6, <1>7, Zenon DEF PerClient
-------------------------------------------------------------------------------

(* The command that is handled is the last one done, and its answer names   *)
(* it.                                                                      *)
LEMMA HandleKeeps ==
  ASSUME TypeOK, Known, NEW c \in Clients, PerClient(c), handle_command(c)
  PROVE  PerClient(c)'
  <1>1. /\ handler[c] = "Handle" /\ handler'[c] = "Send" /\ request[c].cmd \in WardenCommand
        /\ conn' = conn /\ lib' = lib /\ id' = id /\ cmd' = cmd /\ result' = result /\ abandoned' = abandoned
        /\ toDaemon' = toDaemon /\ toClient' = toClient /\ request' = request /\ taken' = taken
        /\ answered' = answered /\ server' = server /\ graceful' = graceful
      BY Domains, Zenon DEF handle_command, clientVars, serverVars, Known
  <1>2. done[c] \in Seq(0..MaxCalls) /\ request[c].id \in 0..MaxCalls /\ id[c] \in Nat
      BY ClientTypes, Zenon DEF Requests
  <1>3. \/ /\ response'[c] = [of |-> request[c].id, kind |-> HandledWith[request[c].cmd]]
           /\ done'[c] = Append(done[c], request[c].id)
        \/ response'[c] = [of |-> request[c].id, kind |-> "Error"] /\ done'[c] = done[c]
      BY Domains, Zenon DEF handle_command
  <1>4. /\ DOMAIN done[c] = 1..Len(done[c]) /\ Len(done[c]) \in Nat
        /\ DOMAIN Append(done[c], request[c].id) = 1..(Len(done[c]) + 1)
        /\ Append(done[c], request[c].id)[Len(done[c]) + 1] = request[c].id
        /\ \A i \in 1..Len(done[c]) : Append(done[c], request[c].id)[i] = done[c][i]
      BY <1>2, Positions
  <1>5. IsDone(c, id[c]) => IsDone(c, id[c])'
    <2>1. ASSUME NEW i \in DOMAIN done[c] PROVE i \in DOMAIN done'[c] /\ done'[c][i] = done[c][i]
      <3>1. i \in 1..Len(done[c]) /\ i \in 1..(Len(done[c]) + 1)
          BY <1>4, <2>1
      <3>2. QED
          BY <1>3, <1>4, <3>1, Zenon
    <2>2. QED
        BY <1>1, <2>1, Zenon DEF IsDone
  <1>6. OneAtATime(c)'
    <2>1. ~abandoned[c] /\ lib[c] = "Recv" => toClient[c] = <<>> /\ toDaemon[c] = <<>> /\ request[c] = Frame(c)
        BY <1>1, Zenon DEF PerClient, OneAtATime, InFlight
    <2>2. ~abandoned[c] /\ lib[c] = "Idle" => conn[c] = "Closed"
        BY <1>1, Zenon DEF PerClient, OneAtATime, AtRest
    <2>3. Foreign \notin WardenCommand
        BY Zenon DEF Foreign, WardenCommand, HandledWith
    <2>4. request[c] = Frame(c) => request[c].id = id[c] /\ request[c].cmd = Sent(cmd[c]) /\ cmd[c] # Foreign
        BY <1>1, <2>3 DEF Frame, Sent
    <2>5. CASE done'[c] = Append(done[c], request[c].id)
      <3>1. IsDone(c, request[c].id)'
        <4>1. Len(done[c]) + 1 \in 1..(Len(done[c]) + 1)
            BY <1>4
        <4>2. QED
            BY <1>1, <1>4, <2>5, <4>1, Zenon DEF IsDone
      <3>2. request[c] = Frame(c) => Answer(c, response[c])'
        <4>1. /\ response'[c].of = request[c].id
              /\ response'[c].kind = "Error" \/ response'[c].kind = HandledWith[request[c].cmd]
            BY <1>3
        <4>2. QED
            BY <1>1, <2>4, <3>1, <4>1, Zenon DEF Answer
      <3>3. QED
          BY <1>1, <2>1, <2>2, <3>2, Zenon DEF PerClient, OneAtATime, InFlight
    <2>6. CASE response'[c] = [of |-> request[c].id, kind |-> "Error"]
      <3>1. request[c] = Frame(c) => Answer(c, response[c])'
          BY <1>1, <2>4, <2>6 DEF Answer
      <3>2. QED
          BY <1>1, <2>1, <2>2, <3>1, Zenon DEF PerClient, OneAtATime, InFlight
    <2>7. QED
        BY <1>3, <2>5, <2>6, Zenon
  <1>7. Matches(c)'
      BY <1>1, <1>5, Zenon DEF PerClient, Matches
  <1>8. Ordered(c)'
    <2>1. CASE done'[c] = done[c]
        BY <1>1, <2>1, OrderStays, Zenon DEF PerClient
    <2>2. CASE done'[c] = Append(done[c], request[c].id)
      <3>1. request[c].id <= id[c] /\ \A j \in DOMAIN done[c] : done[c][j] < request[c].id
          BY <1>1, Zenon DEF PerClient, Ordered
      <3>2. \A i \in DOMAIN done[c] : done[c][i] \in Nat
          BY <1>2, Numbers, Zenon
      <3>3. ASSUME NEW i \in DOMAIN done'[c]
            PROVE  \/ i = Len(done[c]) + 1 /\ done'[c][i] = request[c].id
                   \/ i \in DOMAIN done[c] /\ done'[c][i] = done[c][i]
          BY <1>4, <2>2, <3>3
      <3>4. \A i \in DOMAIN done'[c] : done'[c][i] <= id[c]
          BY <3>1, <3>3, Zenon DEF PerClient, Ordered
      <3>5. ASSUME NEW i \in DOMAIN done'[c], NEW j \in DOMAIN done'[c], i < j PROVE done'[c][i] < done'[c][j]
        <4>1. i \in DOMAIN done[c] /\ done'[c][i] = done[c][i]
            BY <1>4, <2>2, <3>3, <3>5
        <4>2. CASE j \in DOMAIN done[c] /\ done'[c][j] = done[c][j]
            BY <3>5, <4>1, <4>2, Zenon DEF PerClient, Ordered
        <4>3. CASE done'[c][j] = request[c].id
            BY <3>1, <4>1, <4>3, Zenon
        <4>4. QED
            BY <3>3, <4>2, <4>3, Zenon
      <3>6. ASSUME NEW i \in DOMAIN toDaemon[c], toDaemon[c][i].cmd # Torn, NEW j \in DOMAIN done'[c]
            PROVE  done'[c][j] < toDaemon[c][i].id
          BY <1>1, <3>3, <3>6, Zenon DEF PerClient, Ordered
      <3>7. QED
          BY <1>1, <3>4, <3>5, <3>6, Zenon DEF PerClient, Ordered
    <2>3. QED
        BY <1>3, <2>1, <2>2, Zenon
  <1>9. Answering(c)'
    <2>1. response'[c].of = request[c].id
        BY <1>3
    <2>2. request[c].id = taken[c]
        BY <1>1, Zenon DEF PerClient, Answering
    <2>3. QED
        BY <1>1, <2>1, <2>2, Zenon DEF PerClient, Answering
  <1>10. QED
      BY <1>6, <1>7, <1>8, <1>9, Zenon DEF PerClient

(* The answer goes to the call that waits for it, or to nobody. *)
LEMMA AnswerKeeps ==
  ASSUME TypeOK, NEW c \in Clients, PerClient(c), send_response(c)
  PROVE  PerClient(c)'
  <1>1. /\ handler[c] \in {"Send", "SendLast"} /\ handler'[c] \in {"Recv", "Ended"}
        /\ conn' = conn /\ lib' = lib /\ id' = id /\ cmd' = cmd /\ result' = result /\ abandoned' = abandoned
        /\ toDaemon' = toDaemon /\ taken' = taken /\ done' = done /\ server' = server /\ graceful' = graceful
      BY Domains, Zenon DEF send_response, clientVars, serverVars
  <1>2. \/ /\ conn[c] = "Open" /\ toClient'[c] = Append(toClient[c], response[c]) /\ answered'[c] = response[c].of
        \/ conn[c] = "Closed" /\ handler'[c] = "Ended" /\ UNCHANGED <<toClient, answered>>
      BY Domains, Zenon DEF send_response
  <1>3. toClient[c] \in Seq(Responses) /\ response[c] \in Responses /\ lib[c] \in {"Idle", "Recv"}
      BY ClientTypes, Zenon
  <1>4. OneAtATime(c)'
    <2>1. ~abandoned[c] /\ lib[c] = "Recv" =>
            toClient[c] = <<>> /\ toDaemon[c] = <<>> /\ Answer(c, response[c]) /\ conn[c] = "Open"
        BY <1>1, Zenon DEF PerClient, OneAtATime, InFlight
    <2>2. ~abandoned[c] /\ lib[c] = "Idle" => conn[c] = "Closed"
        BY <1>1, Zenon DEF PerClient, OneAtATime, AtRest
    <2>3. ~abandoned[c] /\ lib[c] = "Recv" => Len(toClient'[c]) = 1 /\ Head(toClient'[c]) = response[c]
      <3>1. conn[c] = "Open" => toClient'[c] = Append(toClient[c], response[c])
          BY <1>2, Zenon
      <3>2. QED
          BY <2>1, <3>1, FirstFrame, Zenon
    <2>4. ~abandoned[c] /\ lib[c] = "Recv" => Answer(c, Head(toClient[c]))'
        BY <1>1, <2>1, <2>3, Zenon DEF Answer, IsDone
    <2>5. ~abandoned[c] /\ lib[c] = "Recv" => InFlight(c)'
        BY <1>1, <2>1, <2>3, <2>4, Zenon DEF InFlight
    <2>6. QED
        BY <1>1, <2>2, <2>5, Zenon DEF PerClient, OneAtATime
  <1>5. Matches(c)'
      BY <1>1, Zenon DEF PerClient, Matches, IsDone
  <1>6. Ordered(c)'
      BY <1>1, Zenon DEF PerClient, Ordered
  <1>7. Answering(c)'
      BY <1>1, <1>2, Zenon DEF PerClient, Answering
  <1>8. QED
      BY <1>4, <1>5, <1>6, <1>7, Zenon DEF PerClient

(* A handler ends between two commands, or begins. *)
LEMMA ExitAcceptKeeps ==
  ASSUME TypeOK, NEW c \in Clients, PerClient(c), exit_handler(c) \/ accept(c)
  PROVE  PerClient(c)'
  <1>1. /\ Same(c) /\ UNCHANGED <<server, graceful>>
        /\ \/ handler[c] = "Recv" /\ handler'[c] = "Ended"
           \/ handler[c] = "Backlog" /\ handler'[c] = "Recv" /\ server = "Listening"
      BY Domains, Zenon DEF exit_handler, accept, clientVars, serverVars, Same
  <1>2. OneAtATime(c)'
    <2>1. Frame(c)' = Frame(c)
        BY <1>1, Zenon DEF Same, Frame
    <2>2. Answer(c, Head(toClient[c])) => Answer(c, Head(toClient[c]))'
        BY <1>1, Zenon DEF Same, Answer, IsDone
    <2>3. lib[c] = "Recv" /\ InFlight(c) => InFlight(c)'
        BY <1>1, <2>1, <2>2, Zenon DEF Same, InFlight
    <2>4. AtRest(c) => AtRest(c)'
        BY <1>1, Zenon DEF Same, AtRest
    <2>5. QED
        BY <1>1, <2>3, <2>4, Zenon DEF Same, PerClient, OneAtATime
  <1>3. Matches(c)'
      BY <1>1, Zenon DEF Same, PerClient, Matches, IsDone
  <1>4. Ordered(c)'
      BY <1>1, Zenon DEF Same, PerClient, Ordered
  <1>5. Answering(c)'
      BY <1>1, Zenon DEF Same, PerClient, Answering
  <1>6. QED
      BY <1>2, <1>3, <1>4, <1>5, Zenon DEF PerClient

(* A handler starts to handle nothing but a command of the protocol. *)
LEMMA KnownStep ==
  ASSUME TypeOK, Known, [Next]_vars
  PROVE  Known'
  <1> SUFFICES ASSUME NEW d \in Clients, handler'[d] = "Handle"
               PROVE  request'[d].cmd \in WardenCommand
      BY Zenon DEF Known, WardenCommand, HandledWith
  <1>1. ASSUME request'[d] = request[d], handler'[d] = handler[d] PROVE request'[d].cmd \in WardenCommand
      BY <1>1, Zenon DEF Known
  <1>2. ASSUME NEW c \in Clients, ClientStep(c) PROVE request'[d].cmd \in WardenCommand
    <2>1. CASE d # c
        BY <1>1, <1>2, <2>1, OthersStay, Zenon DEF Same
    <2>2. CASE d = c
      <3>1. CASE recv_command(c)
          BY <2>2, <3>1, Domains, Zenon DEF recv_command
      <3>2. CASE handle_command(c)
          BY <2>2, <3>2, Domains, Zenon DEF handle_command
      <3>3. CASE send_response(c)
          BY <2>2, <3>3, Domains, Zenon DEF send_response
      <3>4. CASE connect(c) \/ exit_handler(c) \/ accept(c)
          BY <2>2, <3>4, Domains, Zenon DEF connect, exit_handler, accept
      <3>5. CASE parse_users_input_fails(c) \/ send_command(c) \/ recv_response(c) \/ abandon(c) \/ disconnect(c)
        <4>1. UNCHANGED handlerVars
            BY <3>5, Zenon DEF parse_users_input_fails, send_command, recv_response, abandon, disconnect
        <4>2. QED
            BY <1>1, <4>1, Zenon DEF handlerVars
      <3>6. QED
          BY <1>2, <3>1, <3>2, <3>3, <3>4, <3>5, Zenon DEF ClientStep
    <2>3. QED
        BY <2>1, <2>2, Zenon
  <1>3. CASE accept_fails \/ kill
      BY <1>3, Zenon DEF accept_fails, kill, AbortAll
  <1>4. CASE stop_listening \/ cancel
      BY <1>1, <1>4, Zenon DEF stop_listening, cancel, handlerVars
  <1>5. CASE join_handlers
      BY <1>1, <1>5, Zenon DEF join_handlers
  <1>6. CASE UNCHANGED vars
      BY <1>1, <1>6, Zenon DEF vars, handlerVars
  <1>7. QED
      BY <1>2, <1>3, <1>4, <1>5, <1>6, Zenon DEF Next, Handler, ClientStep

(* When the tasks are aborted a client that waits finds its stream closed,  *)
(* with nothing, an answer or a part of one on it.                          *)
LEMMA AbortKeeps ==
  ASSUME TypeOK, NEW d \in Clients, PerClient(d), accept_fails \/ kill
  PROVE  PerClient(d)'
  <1>1. /\ conn' = conn /\ lib' = lib /\ id' = id /\ cmd' = cmd /\ result' = result /\ abandoned' = abandoned
        /\ toDaemon' = toDaemon /\ request' = request /\ response' = response /\ taken' = taken
        /\ answered' = answered /\ done' = done /\ graceful' = FALSE
      BY Zenon DEF accept_fails, kill, AbortAll, clientVars
  <1>2. /\ handler[d] = "None" => handler'[d] = "None"
        /\ handler[d] # "None" => handler'[d] = "Ended"
      BY Zenon DEF accept_fails, kill, AbortAll
  <1>3. \/ toClient'[d] = toClient[d]
        \/ handler[d] \in {"Send", "SendLast"} /\ toClient'[d] = Append(toClient[d], TornResponse)
      BY Zenon DEF accept_fails, kill
  <1>4. OneAtATime(d)'
    <2>1. Answer(d, Head(toClient[d])) /\ toClient'[d] = toClient[d] => Answer(d, Head(toClient[d]))'
        BY <1>1, Zenon DEF Answer, IsDone
    <2>2. toClient[d] = <<>> => Len(Append(toClient[d], TornResponse)) = 1
                               /\ Head(Append(toClient[d], TornResponse)) = TornResponse
        BY FirstFrame, Zenon
    <2>3. Head(toClient'[d]) = TornResponse => Answer(d, Head(toClient[d]))'
        BY DEF Answer, TornResponse
    <2>4. InFlight(d) /\ handler[d] # "None" => InFlight(d)'
        BY <1>2, <1>3, <2>1, <2>2, <2>3, Zenon DEF InFlight
    <2>5. AtRest(d) => AtRest(d)'
        BY <1>1, <1>2, <1>3, Zenon DEF AtRest
    <2>6. QED
        BY <1>1, <1>2, <2>4, <2>5, Zenon DEF PerClient, OneAtATime
  <1>5. Matches(d)'
      BY <1>1, Zenon DEF PerClient, Matches, IsDone
  <1>6. Ordered(d)'
      BY <1>1, <1>2, Zenon DEF PerClient, Ordered
  <1>7. Answering(d)'
      BY <1>1, <1>2, Zenon DEF PerClient, Answering
  <1>8. QED
      BY <1>4, <1>5, <1>6, <1>7, Zenon DEF PerClient

(* The handlers have ended when they are joined, and what nobody accepted   *)
(* has never been read.                                                     *)
LEMMA JoinKeeps ==
  ASSUME TypeOK, NEW d \in Clients, PerClient(d), join_handlers
  PROVE  PerClient(d)'
  <1>1. Same(d) /\ graceful' = graceful
      BY Zenon DEF join_handlers, clientVars, Same
  <1>2. \/ handler[d] = "Backlog" /\ handler'[d] = "Ended"
        \/ handler[d] \in {"None", "Ended"} /\ handler'[d] = handler[d]
      BY Zenon DEF join_handlers
  <1>3. OneAtATime(d)'
    <2>1. Answer(d, Head(toClient[d])) => Answer(d, Head(toClient[d]))'
        BY <1>1, Zenon DEF Same, Answer, IsDone
    <2>2. InFlight(d) => InFlight(d)'
        BY <1>1, <1>2, <2>1, Zenon DEF Same, InFlight
    <2>3. AtRest(d) => AtRest(d)'
        BY <1>1, <1>2, Zenon DEF Same, AtRest
    <2>4. QED
        BY <1>1, <1>2, <2>2, <2>3, Zenon DEF Same, PerClient, OneAtATime
  <1>4. Matches(d)'
      BY <1>1, Zenon DEF Same, PerClient, Matches, IsDone
  <1>5. Ordered(d)'
      BY <1>1, <1>2, Zenon DEF Same, PerClient, Ordered
  <1>6. Answering(d)'
      BY <1>1, <1>2, Zenon DEF Same, PerClient, Answering
  <1>7. QED
      BY <1>3, <1>4, <1>5, <1>6, Zenon DEF PerClient

(* Cancellation by itself ends nothing. *)
LEMMA StopKeeps ==
  ASSUME TypeOK, NEW d \in Clients, PerClient(d), stop_listening \/ cancel
  PROVE  PerClient(d)'
  <1>1. CASE cancel
    <2>1. Same(d) /\ handler'[d] = handler[d] /\ UNCHANGED <<server, graceful>>
        BY <1>1, Zenon DEF cancel, clientVars, handlerVars, Same
    <2>2. QED
        BY <2>1, SameKeeps, Zenon
  <1>2. CASE stop_listening
    <2>1. Same(d) /\ handler'[d] = handler[d] /\ graceful' = graceful /\ server' = "Joining"
        BY <1>2, Zenon DEF stop_listening, clientVars, handlerVars, Same
    <2>2. OneAtATime(d)'
        BY <2>1 DEF Same, PerClient, OneAtATime, InFlight, AtRest, Frame, Answer, IsDone
    <2>3. Matches(d)' /\ Ordered(d)'
        BY <2>1, Zenon DEF Same, PerClient, Matches, Ordered, IsDone
    <2>4. Answering(d)'
        BY <2>1, Zenon DEF Same, PerClient, Answering
    <2>5. QED
        BY <2>2, <2>3, <2>4, Zenon DEF PerClient
  <1>3. QED
      BY <1>1, <1>2, Zenon

(* The invariant holds at the start ... *)
LEMMA InitIInv == Init => IInv
  <1> SUFFICES ASSUME Init PROVE IInv
      BY Zenon
  <1>1. TypeOK
    <2>1. /\ TornRequest \in Requests /\ TornResponse \in Responses
          /\ NoResult \in [outcome : Outcomes, of : 0..MaxCalls] /\ 0 \in 0..MaxCalls
        BY ConstantsAssumption
        DEF TornRequest, TornResponse, Requests, Responses, NoResult, Outcomes
    <2>2. /\ <<>> \in Seq(Requests) /\ <<>> \in Seq(Responses) /\ <<>> \in Seq(0..MaxCalls)
          /\ 0 \in 0..MaxFaults
        BY ConstantsAssumption
    <2>3. /\ conn \in [Clients -> {"None", "Open", "Closed"}] /\ lib \in [Clients -> {"Idle", "Recv"}]
          /\ cmd \in [Clients -> Commands \cup {Foreign}] /\ abandoned \in [Clients -> BOOLEAN]
          /\ handler \in [Clients -> {"None", "Backlog", "Recv", "Handle", "Send", "SendLast", "Ended"}]
        BY Zenon DEF Init
    <2>4. /\ id \in [Clients -> 0..MaxCalls] /\ taken \in [Clients -> 0..MaxCalls]
          /\ answered \in [Clients -> 0..MaxCalls] /\ result \in [Clients -> [outcome : Outcomes, of : 0..MaxCalls]]
        BY <2>1, Zenon DEF Init
    <2>5. /\ toDaemon \in [Clients -> Seq(Requests)] /\ toClient \in [Clients -> Seq(Responses)]
          /\ request \in [Clients -> Requests] /\ response \in [Clients -> Responses]
          /\ done \in [Clients -> Seq(0..MaxCalls)]
        BY <2>1, <2>2, Zenon DEF Init
    <2>6. server = "Listening" /\ graceful = TRUE /\ cancelled = FALSE /\ calls = 0 /\ faults = 0
        BY Zenon DEF Init
    <2>7. QED
        BY <2>1, <2>2, <2>3, <2>4, <2>5, <2>6, Zenon DEF TypeOK
  <1>2. Counted /\ Known
      BY DEF Init, Counted, Known
  <1>3. ASSUME NEW c \in Clients PROVE OneAtATime(c) /\ Matches(c) /\ Ordered(c) /\ Answering(c)
    <2>1. /\ conn[c] = "None" /\ lib[c] = "Idle" /\ result[c] = NoResult /\ toDaemon[c] = <<>> /\ toClient[c] = <<>>
          /\ handler[c] = "None" /\ done[c] = <<>> /\ taken[c] = 0 /\ answered[c] = 0 /\ server = "Listening"
        BY Zenon DEF Init
    <2>2. OneAtATime(c)
        BY <2>1, Zenon DEF OneAtATime, AtRest
    <2>3. Matches(c)
        BY <2>1 DEF Matches, NoResult
    <2>4. Ordered(c)
      <3>1. DOMAIN done[c] = {} /\ DOMAIN toDaemon[c] = {}
          BY <2>1
      <3>2. QED
          BY <2>1, <3>1, Zenon DEF Ordered
    <2>5. Answering(c)
        BY <2>1, Zenon DEF Answering
    <2>6. QED
        BY <2>2, <2>3, <2>4, <2>5, Zenon
  <1>4. QED
      BY <1>1, <1>2, <1>3, Zenon DEF IInv

(* ... and every step keeps it, for the client that takes it and for the    *)
(* others.                                                                  *)
LEMMA NextIInv == IInv /\ [Next]_vars => IInv'
  <1> SUFFICES ASSUME IInv, [Next]_vars PROVE IInv'
      BY Zenon
  <1>1. TypeOK /\ Counted /\ Known
      BY Zenon DEF IInv
  <1>2. TypeOK' /\ Counted' /\ Known'
      BY <1>1, TypesStep, KnownStep, Zenon
  <1>3. ASSUME NEW d \in Clients PROVE PerClient(d)'
    <2>1. PerClient(d)
        BY Zenon DEF IInv, PerClient
    <2>2. ASSUME NEW c \in Clients, ClientStep(c) PROVE PerClient(d)'
      <3>1. CASE d # c
          BY <1>1, <2>1, <2>2, <3>1, OthersStay, SameKeeps, Zenon
      <3>2. CASE d = c
          BY <1>1, <1>2, <2>1, <2>2, <3>2, QuietKeeps, SendKeeps, RecvKeeps, DisconnectKeeps, TakeKeeps, Zenon,
             HandleKeeps, AnswerKeeps, ExitAcceptKeeps DEF ClientStep
      <3>3. QED
          BY <3>1, <3>2, Zenon
    <2>3. CASE accept_fails \/ kill
        BY <1>1, <2>1, <2>3, AbortKeeps, Zenon
    <2>4. CASE join_handlers
        BY <1>1, <2>1, <2>4, JoinKeeps, Zenon
    <2>5. CASE stop_listening \/ cancel
        BY <1>1, <2>1, <2>5, StopKeeps, Zenon
    <2>6. CASE UNCHANGED vars
      <3>1. Same(d) /\ handler'[d] = handler[d] /\ UNCHANGED <<server, graceful>>
          BY <2>6, Zenon DEF vars, clientVars, handlerVars, serverVars, Same
      <3>2. QED
          BY <2>1, <3>1, SameKeeps, Zenon
    <2>7. QED
        BY <2>2, <2>3, <2>4, <2>5, <2>6, Zenon DEF Next, Handler, ClientStep
  <1>4. QED
      BY <1>2, <1>3, Zenon DEF IInv, PerClient

(* The connections satisfy the inductive invariant. *)
THEOREM Invariance == Spec => []IInv
  BY InitIInv, NextIInv, PTL DEF Spec

(* Every variable of the connections keeps its type. *)
THEOREM TypeCorrect == Spec => []TypeOK
  <1>1. IInv => TypeOK
      BY Zenon DEF IInv
  <1>2. QED
      BY <1>1, Invariance, PTL

(* Ok and OperationFail are returned by the library for the call's own      *)
(* command, Ok only if the daemon carried it out, and InvalidResponse never *)
(* unless a call was abandoned.                                             *)
THEOREM AnswersReachTheirCalls == Spec => []AnswersMatch
  <1>1. IInv => AnswersMatch
      BY Zenon DEF IInv, Matches, IsDone, AnswersMatch
  <1>2. QED
      BY <1>1, Invariance, PTL

(* A ClientHandler carries the commands of its client out once and in the   *)
(* order they were sent.                                                    *)
THEOREM CommandsOnceInOrder == Spec => []OnceInOrder
  <1>1. IInv => OnceInOrder
      BY Zenon DEF IInv, Ordered, OnceInOrder
  <1>2. QED
      BY <1>1, Invariance, PTL

(* UnixSocketServer::listen returns, when no task was aborted, only after   *)
(* every command it took from a client that is still connected is answered. *)
THEOREM StopAnswersWhatWasTaken == Spec => []TakenIsAnswered
  <1>1. ASSUME IInv PROVE TakenIsAnswered
    <2>1. SUFFICES ASSUME server = "Down", graceful, NEW c \in Clients, conn[c] = "Open"
                   PROVE  taken[c] = answered[c]
        BY Zenon DEF TakenIsAnswered
    <2>2. Answering(c)
        BY <1>1, Zenon DEF IInv
    <2>3. QED
        BY <2>1, <2>2, Zenon DEF Answering
  <1>2. QED
      BY <1>1, Invariance, PTL
===============================================================================
