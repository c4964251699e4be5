----------------------------- MODULE HandlerProofs -----------------------------
(***************************************************************************)
(* Theorems about ApplicationHandler, for any number of starts, calls and  *)
(* read errors: no call gets the response of another, and the handler      *)
(* implements HandlerLifecycle.                                            *)
(***************************************************************************)
EXTENDS ApplicationHandler, TLAPS

(* Threads not yet started are blank; one that knows of the exit of its     *)
(* process, or has returned without an error, has reaped it.                *)
ThreadInv ==
    \A t \in Threads :
        /\ t > started => thread[t] = "None" /\ process[t] = "None" /\ requests[t] = <<>> /\ responses[t] = <<>>
        /\ thread[t] \in {"ProcessExited", "Done"} => process[t] = "Reaped"

(* The handler talks to the last thread started, if to any. *)
CallInv ==
    /\ current \in {NoThread, started}
    /\ step = "Idle" <=> call = "None"
    /\ step # "Idle" => current # NoThread

(* Where the current thread c can be while a call is at one of its awaits.  *)
(* Between two calls, and before the request is sent:                       *)
Quiet(c) ==
    /\ responses[c] = <<>>
    /\ thread[c] = "Failed" \/ (thread[c] \in {"Loop", "ProcessExited"} /\ requests[c] = <<>>)

(* the request is in its channel,                                           *)
Asked(c) == requests[c] = <<call>> /\ responses[c] = <<>> /\ thread[c] \in {"Loop", "ProcessExited", "Failed"}

(* the thread has taken it, and waits for the process,                      *)
Taken(c) == requests[c] = <<>> /\ responses[c] = <<>> /\ thread[c] = "AfterExit" /\ request[c] = call

(* the response that ends the thread is in its channel, or has been read;   *)
Over(c) == requests[c] = <<>> /\ thread[c] \in {"Ensure", "Done"} /\ process[c] = "Reaped"
Answered(c) == responses[c] = <<AfterExitResponse(call)>> /\ Over(c)
Joining(c) == responses[c] = <<>> /\ resp = AfterExitResponse(call) /\ Over(c)

(* or try_wait is told that the process still runs.                         *)
StillRuns(c) ==
    /\ requests[c] = <<>> /\ responses[c] = <<"Running">> /\ call = "TryWait"
    /\ thread[c] \in {"Loop", "ProcessExited", "Failed"}

PhaseInv ==
    current # NoThread =>
        /\ step \in {"Idle", "Send"} => Quiet(current)
        /\ step = "Recv" => Asked(current) \/ Taken(current) \/ Answered(current) \/ StillRuns(current)
        /\ step = "Join" => Joining(current)

HandlerInv == TypeOK /\ ThreadInv /\ CallInv /\ PhaseInv /\ ResponsesMatch
-------------------------------------------------------------------------------
LEMMA One ==
    /\ \A r : <<r>> # <<>> /\ Head(<<r>>) = r
    /\ \A r, s : <<r>> = <<s>> => r = s
  OBVIOUS

(* The thread that a start adds. *)
LEMMA NextThread ==
    ASSUME TypeOK, started < MaxStarts
    PROVE  /\ started + 1 \in Threads /\ started + 1 \in 0..MaxStarts /\ started + 1 # NoThread
           /\ started + 1 > started /\ started + 1 # started
           /\ \A t \in Threads : t > started + 1 => t > started
  BY BoundsAssumption DEF TypeOK, Threads, NoThread

LEMMA CountersStep ==
    ASSUME TypeOK
    PROVE  /\ called < MaxCalls => called + 1 \in 0..MaxCalls
           /\ readErrors < MaxReadErrors => readErrors + 1 \in 0..MaxReadErrors
           /\ NoThread \notin Threads
           /\ ~(started > started)
  BY BoundsAssumption DEF TypeOK, Threads, NoThread

LEMMA InitHandler == Init => HandlerInv
  <1> SUFFICES ASSUME Init PROVE HandlerInv
      BY Zenon
  <1>1. 0 \in 0..MaxStarts /\ 0 \in 0..MaxCalls /\ 0 \in 0..MaxReadErrors /\ 0 \notin Threads
      BY BoundsAssumption DEF Threads
  <1>2. TypeOK
      BY <1>1, Zenon DEF Init, TypeOK
  <1>3. ThreadInv /\ CallInv /\ PhaseInv
      BY Zenon DEF Init, ThreadInv, CallInv, PhaseInv, NoThread
  <1>4. ResponsesMatch
      BY Zenon DEF Init, ResponsesMatch
  <1>5. QED
      BY <1>2, <1>3, <1>4, Zenon DEF HandlerInv
-------------------------------------------------------------------------------
(* Types *)

LEMMA HandlerTypes ==
    ASSUME TypeOK, CallInv, start \/ transaction \/ Handler
    PROVE  TypeOK'
  <1>1. CASE start
    <2>1. started + 1 \in Threads /\ started + 1 \in 0..MaxStarts
        BY <1>1, NextThread, Zenon DEF start
    <2>2. QED
        BY <1>1, <2>1, Zenon DEF start, TypeOK, channelVars
  <1>2. CASE transaction
      BY <1>2, CountersStep, Zenon DEF transaction, TypeOK, threadVars, channelVars, processVars
  <1>3. CASE send_request
    <2>1. call \in Requests
        BY <1>3, Zenon DEF send_request, CallInv, TypeOK
    <2>2. requests' \in [Threads -> {<<>>} \cup {<<r>> : r \in Requests}]
      <3>1. CASE requests' = requests
          BY <3>1, Zenon DEF TypeOK
      <3>2. CASE requests' = [requests EXCEPT ![current] = <<call>>]
          BY <3>2, <2>1, Zenon DEF TypeOK
      <3>3. QED
          BY <1>3, <3>1, <3>2, Zenon DEF send_request
    <2>3. QED
        BY <1>3, <2>2, Zenon DEF send_request, Return, TypeOK, threadVars, processVars, counters
  <1>4. CASE recv_response
    <2>1. current \in Threads
        BY <1>4, Zenon DEF recv_response, CallInv, TypeOK
    <2>2. responses[current] # <<>> => Head(responses[current]) \in Responses
        BY <2>1, One DEF TypeOK
    <2>3. responses' \in [Threads -> {<<>>} \cup {<<r>> : r \in Responses}]
        BY <1>4, Zenon DEF recv_response, TypeOK
    <2>4. QED
        BY <1>4, <2>2, <2>3, Zenon DEF recv_response, Return, TypeOK, threadVars, processVars, counters
  <1>5. CASE join_handler_thread
      BY <1>5, Zenon DEF join_handler_thread, Return, TypeOK, threadVars, channelVars, processVars, counters
  <1>6. QED
      BY <1>1, <1>2, <1>3, <1>4, <1>5, Zenon DEF Handler

(* A step of one thread or process. *)
Act(t) == WardenThread(t) \/ read_line_error(t) \/ exit(t)

LEMMA ResponseTypes ==
    ASSUME TypeOK, NEW t \in Threads, NEW r \in Responses, NEW next \in {"Loop", "Ensure"},
           send_response(t, r, next)
    PROVE  /\ responses' \in [Threads -> {<<>>} \cup {<<x>> : x \in Responses}]
           /\ thread' \in [Threads -> {"None", "Loop", "AfterExit", "ProcessExited", "Ensure", "Killed", "Done", "Failed"}]
  BY DEF send_response, TypeOK

LEMMA ActTypes ==
    ASSUME TypeOK, NEW t \in Threads, Act(t)
    PROVE  TypeOK'
  <1> USE DEF handlerVars, threadVars, channelVars, processVars, counters
  <1>0. requests[t] # <<>> => Head(requests[t]) \in Requests
      BY One DEF TypeOK
  <1>1. CASE stop_and_respond(t)
    <2>1. requests[t] # <<>>
        BY <1>1, One, Zenon DEF stop_and_respond
    <2>2. QED
        BY <1>0, <1>1, <2>1, Zenon DEF stop_and_respond, TypeOK
  <1>2. CASE try_wait(t)
    <2>1. /\ responses' \in [Threads -> {<<>>} \cup {<<x>> : x \in Responses}]
          /\ thread' \in [Threads -> {"None", "Loop", "AfterExit", "ProcessExited", "Ensure", "Killed", "Done", "Failed"}]
        BY <1>2, ResponseTypes, Zenon DEF try_wait, Responses
    <2>2. QED
        BY <1>2, <2>1, Zenon DEF try_wait, TypeOK
  <1>3. CASE after_exit(t)
    <2>1. /\ responses' \in [Threads -> {<<>>} \cup {<<x>> : x \in Responses}]
          /\ thread' \in [Threads -> {"None", "Loop", "AfterExit", "ProcessExited", "Ensure", "Killed", "Done", "Failed"}]
        BY <1>3, ResponseTypes, Zenon DEF after_exit, AfterExitResponse, Responses
    <2>2. QED
        BY <1>3, <2>1, Zenon DEF after_exit, TypeOK
  <1>4. CASE process_wait(t)
      BY <1>4, Zenon DEF process_wait, TypeOK
  <1>5. CASE process_exited(t)
      BY <1>5, <1>0 DEF process_exited, TypeOK
  <1>6. CASE channel_closed(t)
      BY <1>6, Zenon DEF channel_closed, TypeOK
  <1>7. CASE ensure_app_is_stopped(t)
      BY <1>7 DEF ensure_app_is_stopped, TypeOK
  <1>8. CASE read_line_error(t)
      BY <1>8, CountersStep, Zenon DEF read_line_error, TypeOK
  <1>9. CASE exit(t)
      BY <1>9, Zenon DEF exit, TypeOK
  <1>10. QED
      BY <1>1, <1>2, <1>3, <1>4, <1>5, <1>6, <1>7, <1>8, <1>9, Zenon DEF Act, WardenThread
-------------------------------------------------------------------------------
(* Steps of the threads and processes *)

Same(c) ==
    /\ thread'[c] = thread[c] /\ request'[c] = request[c] /\ process'[c] = process[c]
    /\ requests'[c] = requests[c] /\ responses'[c] = responses[c]

(* They leave the handler and the other threads alone. *)
LEMMA ActFrame ==
    ASSUME TypeOK, NEW t \in Threads, Act(t)
    PROVE  /\ UNCHANGED <<current, call, step, resp, result, started>>
           /\ \A c \in Threads \ {t} : Same(c)
  <1> USE DEF handlerVars, threadVars, channelVars, processVars, counters, Same, TypeOK
  <1>1. CASE stop_and_respond(t)
      BY <1>1, Zenon DEF stop_and_respond
  <1>2. CASE try_wait(t)
      BY <1>2, Zenon DEF try_wait, send_response
  <1>3. CASE after_exit(t)
      BY <1>3, Zenon DEF after_exit, send_response
  <1>4. CASE process_wait(t)
      BY <1>4, Zenon DEF process_wait
  <1>5. CASE process_exited(t)
      BY <1>5, Zenon DEF process_exited
  <1>6. CASE channel_closed(t)
      BY <1>6, Zenon DEF channel_closed
  <1>7. CASE ensure_app_is_stopped(t)
      BY <1>7, Zenon DEF ensure_app_is_stopped
  <1>8. CASE read_line_error(t)
      BY <1>8, Zenon DEF read_line_error
  <1>9. CASE exit(t)
      BY <1>9, Zenon DEF exit
  <1>10. QED
      BY <1>1, <1>2, <1>3, <1>4, <1>5, <1>6, <1>7, <1>8, <1>9, Zenon DEF Act, WardenThread

(* Only a thread that was started acts, and not after it has returned with  *)
(* its process reaped; it reaps the process before it says so.              *)
LEMMA ActLocal ==
    ASSUME TypeOK, ThreadInv, NEW t \in Threads, Act(t)
    PROVE  /\ ~(t > started)
           /\ ~(thread[t] = "Done" /\ process[t] = "Reaped")
           /\ thread'[t] \in {"ProcessExited", "Done"} => process'[t] = "Reaped"
  <1> USE DEF handlerVars, threadVars, channelVars, processVars, counters, ThreadInv, TypeOK
  <1>1. CASE stop_and_respond(t)
      BY <1>1, Zenon DEF stop_and_respond
  <1>2. CASE try_wait(t)
      BY <1>2, Zenon DEF try_wait, send_response
  <1>3. CASE after_exit(t)
      BY <1>3, Zenon DEF after_exit, send_response
  <1>4. CASE process_wait(t)
      BY <1>4, Zenon DEF process_wait
  <1>5. CASE process_exited(t)
      BY <1>5, Zenon DEF process_exited
  <1>6. CASE channel_closed(t)
      BY <1>6, Zenon DEF channel_closed
  <1>7. CASE ensure_app_is_stopped(t)
      BY <1>7, Zenon DEF ensure_app_is_stopped
  <1>8. CASE read_line_error(t)
      BY <1>8, Zenon DEF read_line_error
  <1>9. CASE exit(t)
      BY <1>9, Zenon DEF exit
  <1>10. QED
      BY <1>1, <1>2, <1>3, <1>4, <1>5, <1>6, <1>7, <1>8, <1>9, Zenon DEF Act, WardenThread

(* The current thread goes through the phases of the call in progress. *)
LEMMA ActCurrent ==
    ASSUME HandlerInv, NEW t \in Threads, Act(t), t = current
    PROVE  PhaseInv'
  <1> USE DEF handlerVars, threadVars, channelVars, processVars, counters
  <1>0. /\ t # NoThread /\ TypeOK /\ ThreadInv
        /\ UNCHANGED <<current, call, step, resp>>
        /\ \/ step \in {"Idle", "Send"} /\ Quiet(t)
           \/ step = "Recv" /\ (Asked(t) \/ Taken(t) \/ Answered(t) \/ StillRuns(t))
           \/ step = "Join" /\ Joining(t)
    <2>1. TypeOK /\ ThreadInv /\ PhaseInv
        BY Zenon DEF HandlerInv
    <2>2. t # NoThread /\ step \in {"Idle", "Send", "Recv", "Join"}
        BY <2>1, CountersStep, Zenon DEF TypeOK
    <2>3. UNCHANGED <<current, call, step, resp>>
        BY <2>1, ActFrame, Zenon
    <2>4. QED
        BY <2>1, <2>2, <2>3, Zenon DEF PhaseInv
  <1> DEFINE Goal == \/ step \in {"Idle", "Send"} /\ Quiet(t)'
                     \/ step = "Recv" /\ (Asked(t)' \/ Taken(t)' \/ Answered(t)' \/ StillRuns(t)')
                     \/ step = "Join" /\ Joining(t)'
  <1> SUFFICES Goal
      BY <1>0, Zenon DEF PhaseInv
  <1> USE DEF TypeOK
  <1>1. CASE stop_and_respond(t)
    <2>1. requests[t] # <<>>
        BY <1>1, One, Zenon DEF stop_and_respond
    <2>2. step = "Recv" /\ Asked(t)
        BY <1>0, <1>1, <2>1, Zenon DEF stop_and_respond, Quiet, Taken, Over, Answered, StillRuns, Joining
    <2>3. Head(requests[t]) = call
        BY <2>2, One, Zenon DEF Asked
    <2>4. Taken(t)'
        BY <1>0, <1>1, <2>2, <2>3, Zenon DEF stop_and_respond, Asked, Taken
    <2>5. QED
        BY <2>2, <2>4, Zenon
  <1>2. CASE try_wait(t)
    <2>1. requests[t] # <<>>
        BY <1>2, One, Zenon DEF try_wait
    <2>2. step = "Recv" /\ Asked(t)
        BY <1>0, <1>2, <2>1, Zenon DEF try_wait, Quiet, Taken, Over, Answered, StillRuns, Joining
    <2>3. call = "TryWait"
        BY <1>2, <2>2, One, Zenon DEF try_wait, Asked
    <2>4. CASE process[t] = "Running"
        BY <1>0, <1>2, <2>2, <2>3, <2>4, Zenon DEF try_wait, send_response, StillRuns
    <2>5. CASE process[t] = "Exited"
        BY <1>0, <1>2, <2>2, <2>3, <2>5, Zenon DEF try_wait, send_response, Answered, Over, AfterExitResponse
    <2>6. QED
        BY <1>2, <2>4, <2>5, Zenon DEF try_wait
  <1>3. CASE after_exit(t)
    <2>1. step = "Recv" /\ Taken(t)
        BY <1>0, <1>3, Zenon DEF after_exit, Quiet, Asked, Over, Answered, StillRuns, Joining
    <2>2. Answered(t)'
        BY <1>0, <1>3, <2>1, Zenon DEF after_exit, send_response, Taken, Answered, Over, AfterExitResponse
    <2>3. QED
        BY <2>1, <2>2, Zenon
  <1>4. CASE process_wait(t)
    <2>1. CASE step \in {"Idle", "Send"}
        BY <1>0, <1>4, <2>1, Zenon DEF process_wait, Quiet
    <2>2. CASE step = "Recv" /\ Asked(t)
        BY <1>0, <1>4, <2>2, Zenon DEF process_wait, Asked
    <2>3. CASE step = "Recv" /\ StillRuns(t)
        BY <1>0, <1>4, <2>3, Zenon DEF process_wait, StillRuns
    <2>4. QED
        BY <1>0, <1>4, <2>1, <2>2, <2>3, Zenon DEF process_wait, Taken, Answered, Over, Joining
  <1>5. CASE process_exited(t)
    <2>1. requests[t] # <<>>
        BY <1>5, Zenon DEF process_exited
    <2>2. step = "Recv" /\ Asked(t)
        BY <1>0, <1>5, <2>1, Zenon DEF process_exited, Quiet, Taken, Over, Answered, StillRuns, Joining
    <2>3. Head(requests[t]) = call
        BY <2>2, One, Zenon DEF Asked
    <2>4. Taken(t)'
        BY <1>0, <1>5, <2>1, <2>2, <2>3, Zenon DEF process_exited, Asked, Taken
    <2>5. QED
        BY <2>2, <2>4, Zenon
  <1>6. CASE channel_closed(t)
      BY <1>6, Zenon DEF channel_closed
  <1>7. CASE ensure_app_is_stopped(t)
    <2>1. Over(t) /\ thread[t] = "Ensure"
        BY <1>0, <1>7, Zenon DEF ensure_app_is_stopped, Quiet, Asked, Taken, Over, Answered, StillRuns, Joining
    <2>2. Over(t)' /\ responses' = responses
        BY <1>0, <1>7, <2>1, Zenon DEF ensure_app_is_stopped, Over
    <2>3. (step = "Recv" /\ Answered(t)) \/ (step = "Join" /\ Joining(t))
        BY <1>0, <2>1, Zenon DEF Quiet, Asked, Taken, StillRuns
    <2>4. QED
        BY <1>0, <2>2, <2>3, Zenon DEF Answered, Joining, AfterExitResponse
  <1>8. CASE read_line_error(t)
    <2>1. CASE step \in {"Idle", "Send"}
        BY <1>0, <1>8, <2>1, Zenon DEF read_line_error, Quiet
    <2>2. CASE step = "Recv" /\ Asked(t)
        BY <1>0, <1>8, <2>2, Zenon DEF read_line_error, Asked
    <2>3. CASE step = "Recv" /\ StillRuns(t)
        BY <1>0, <1>8, <2>3, Zenon DEF read_line_error, StillRuns
    <2>4. QED
        BY <1>0, <1>8, <2>1, <2>2, <2>3, Zenon DEF read_line_error, Taken, Answered, Over, Joining
  <1>9. CASE exit(t)
    <2>1. /\ UNCHANGED <<thread, request, requests, responses>> /\ process[t] = "Running"
        BY <1>9, Zenon DEF exit
    <2>2. QED
        BY <1>0, <2>1, Zenon DEF Quiet, Asked, Taken, Over, Answered, StillRuns, Joining
  <1>10. QED
      BY <1>1, <1>2, <1>3, <1>4, <1>5, <1>6, <1>7, <1>8, <1>9, Zenon DEF Act, WardenThread
LEMMA ActStep ==
    ASSUME HandlerInv, NEW t \in Threads, Act(t)
    PROVE  HandlerInv'
  <1>0. TypeOK /\ ThreadInv /\ CallInv /\ PhaseInv /\ ResponsesMatch
      BY Zenon DEF HandlerInv
  <1>1. /\ UNCHANGED <<current, call, step, resp, result, started>>
        /\ \A c \in Threads \ {t} : Same(c)
      BY <1>0, ActFrame, Zenon
  <1>2. /\ ~(t > started)
        /\ ~(thread[t] = "Done" /\ process[t] = "Reaped")
        /\ thread'[t] \in {"ProcessExited", "Done"} => process'[t] = "Reaped"
      BY <1>0, ActLocal, Zenon
  <1>3. TypeOK'
      BY <1>0, ActTypes, Zenon
  <1>4. ThreadInv'
    <2> SUFFICES ASSUME NEW c \in Threads
                 PROVE  /\ c > started => thread'[c] = "None" /\ process'[c] = "None" /\ requests'[c] = <<>> /\ responses'[c] = <<>>
                        /\ thread'[c] \in {"ProcessExited", "Done"} => process'[c] = "Reaped"
        BY <1>1, Zenon DEF ThreadInv
    <2>1. CASE c = t
        BY <1>2, <2>1, Zenon
    <2>2. CASE c # t
        BY <1>0, <1>1, <2>2, Zenon DEF ThreadInv, Same
    <2>3. QED
        BY <2>1, <2>2, Zenon
  <1>5. CallInv'
      BY <1>0, <1>1, Zenon DEF CallInv
  <1>6. PhaseInv'
    <2>1. CASE t = current
        BY <2>1, ActCurrent, Zenon
    <2>2. CASE t # current /\ current # NoThread
      <3>1. current \in Threads \ {t}
          BY <1>0, <2>2, Zenon DEF TypeOK
      <3>2. Same(current)
          BY <1>1, <3>1, Zenon
      <3>3. QED
          BY <1>0, <1>1, <3>2, Zenon DEF PhaseInv, Same, Quiet, Asked, Taken, Answered, Over, Joining, StillRuns, AfterExitResponse
    <2>3. CASE current = NoThread
        BY <1>1, <2>3, Zenon DEF PhaseInv
    <2>4. QED
        BY <2>1, <2>2, <2>3, Zenon
  <1>7. ResponsesMatch'
      BY <1>0, <1>1, <1>2, Zenon DEF ResponsesMatch, Same
  <1>8. QED
      BY <1>3, <1>4, <1>5, <1>6, <1>7, Zenon DEF HandlerInv
-------------------------------------------------------------------------------
(* Steps of the handler *)

LEMMA StartStep ==
    ASSUME HandlerInv, start
    PROVE  HandlerInv'
  <1>0. TypeOK /\ ThreadInv /\ CallInv /\ PhaseInv /\ ResponsesMatch
      BY Zenon DEF HandlerInv
  <1>1. TypeOK'
      BY <1>0, HandlerTypes, Zenon
  <1>2. CASE result' = "SpawnError" /\ UNCHANGED <<started, current, thread, process>>
    <2>1. UNCHANGED <<call, step, resp, request, requests, responses>>
        BY Zenon DEF start, channelVars
    <2>2. ThreadInv' /\ CallInv'
        BY <1>0, <1>2, <2>1, Zenon DEF ThreadInv, CallInv
    <2>3. PhaseInv'
        BY <1>0, <1>2, <2>1, Zenon DEF PhaseInv, Quiet, Asked, Taken, Answered, Over, Joining, StillRuns, AfterExitResponse
    <2>4. ResponsesMatch'
        BY <1>2, Zenon DEF ResponsesMatch
    <2>5. QED
        BY <1>1, <2>2, <2>3, <2>4, Zenon DEF HandlerInv
  <1>3. CASE result' = "Started"
    <2> DEFINE new == started + 1
    <2>1. /\ new \in Threads /\ new # NoThread /\ new > started
          /\ \A t \in Threads : t > new => t > started /\ t # new
        BY <1>0, NextThread DEF start, TypeOK, Threads
    <2>2. /\ step = "Idle" /\ started' = new /\ current' = new
          /\ thread' = [thread EXCEPT ![new] = "Loop"] /\ process' = [process EXCEPT ![new] = "Running"]
          /\ UNCHANGED <<call, step, resp, request, requests, responses>>
        BY <1>3, Zenon DEF start, channelVars
    <2>3. /\ thread'[new] = "Loop" /\ process'[new] = "Running" /\ requests[new] = <<>> /\ responses[new] = <<>>
          /\ \A t \in Threads : t # new => thread'[t] = thread[t] /\ process'[t] = process[t]
        BY <1>0, <2>1, <2>2, Zenon DEF TypeOK, ThreadInv
    <2> HIDE DEF new
    <2>4. ThreadInv'
      <3> SUFFICES ASSUME NEW c \in Threads
                   PROVE  /\ c > new => thread'[c] = "None" /\ process'[c] = "None" /\ requests[c] = <<>> /\ responses[c] = <<>>
                          /\ thread'[c] \in {"ProcessExited", "Done"} => process'[c] = "Reaped"
          BY <2>2, Zenon DEF ThreadInv
      <3>1. CASE c = new
          BY <2>1, <2>3, <3>1, Zenon
      <3>2. CASE c # new
          BY <1>0, <2>1, <2>3, <3>2, Zenon DEF ThreadInv
      <3>3. QED
          BY <3>1, <3>2, Zenon
    <2>5. CallInv'
        BY <1>0, <2>1, <2>2, Zenon DEF CallInv
    <2>6. PhaseInv'
        BY <2>2, <2>3, Zenon DEF PhaseInv, Quiet
    <2>7. ResponsesMatch'
        BY <1>3, Zenon DEF ResponsesMatch
    <2>8. QED
        BY <1>1, <2>4, <2>5, <2>6, <2>7, Zenon DEF HandlerInv
  <1>4. QED
      BY <1>2, <1>3, Zenon DEF start

(* A call goes from one await to the next. *)
LEMMA CallStep ==
    ASSUME HandlerInv, transaction \/ Handler
    PROVE  HandlerInv'
  <1>0. TypeOK /\ ThreadInv /\ CallInv /\ PhaseInv /\ ResponsesMatch
      BY Zenon DEF HandlerInv
  <1>1. TypeOK'
      BY <1>0, HandlerTypes, Zenon
  <1>2. CASE transaction
    <2>1. /\ UNCHANGED <<current, resp, thread, request, requests, responses, process, started>> /\ step = "Idle"
          /\ \/ current = NoThread /\ result' = "AppNotRunning" /\ UNCHANGED <<call, step>>
             \/ current # NoThread /\ step' = "Send" /\ result' = "None" /\ call' \in Requests
        BY <1>2, Zenon DEF transaction, threadVars, channelVars, processVars
    <2>2. ThreadInv' /\ CallInv' /\ ResponsesMatch'
        BY <1>0, <2>1, Zenon DEF ThreadInv, CallInv, ResponsesMatch, Requests
    <2>3. PhaseInv'
        BY <1>0, <2>1, Zenon DEF PhaseInv, Quiet
    <2>4. QED
        BY <1>1, <2>2, <2>3, Zenon DEF HandlerInv
  <1>3. CASE send_request
    <2>1. /\ UNCHANGED <<current, resp, thread, request, responses, process, started>> /\ step = "Send"
          /\ \/ /\ Ended(current) /\ step' = "Idle" /\ call' = "None" /\ result' = "RequestChannelError" /\ requests' = requests
             \/ /\ ~Ended(current) /\ requests' = [requests EXCEPT ![current] = <<call>>]
                /\ step' = "Recv" /\ UNCHANGED <<call, result>>
        BY <1>3, Zenon DEF send_request, Return, threadVars, processVars, counters
    <2>2. current \in Threads /\ current = started /\ Quiet(current) /\ ~(current > started)
        BY <1>0, <2>1, CountersStep, Zenon DEF CallInv, PhaseInv, TypeOK
    <2>3. CallInv' /\ ResponsesMatch'
        BY <1>0, <2>1, <2>2, CountersStep, Zenon DEF CallInv, ResponsesMatch
    <2>4. ThreadInv'
        BY <1>0, <2>1, <2>2 DEF ThreadInv, TypeOK
    <2>5. PhaseInv'
        BY <1>0, <2>1, <2>2 DEF PhaseInv, Quiet, Asked, Ended, TypeOK
    <2>6. QED
        BY <1>1, <2>3, <2>4, <2>5, Zenon DEF HandlerInv
  <1>4. CASE recv_response
    <2> DEFINE r == Head(responses[current])
    <2>1. /\ UNCHANGED <<current, thread, request, requests, process, started>> /\ step = "Recv"
          /\ current \in Threads /\ current = started /\ ~(current > started) /\ current # NoThread
          /\ Asked(current) \/ Taken(current) \/ Answered(current) \/ StillRuns(current)
        BY <1>0, <1>4, CountersStep, Zenon DEF recv_response, threadVars, processVars, counters, CallInv, PhaseInv, TypeOK
    <2>2. CASE Asked(current) \/ Taken(current)
      <3>1. /\ thread[current] = "Failed" /\ responses' = responses /\ responses[current] = <<>>
            /\ step' = "Idle" /\ call' = "None" /\ result' = "ChannelClosed"
        <4>1. responses[current] = <<>> /\ thread[current] # "Done"
            BY <2>2, Zenon DEF Asked, Taken
        <4>2. QED
            BY <1>4, <4>1, Zenon DEF recv_response, Return, Ended
      <3>2. ThreadInv' /\ CallInv' /\ ResponsesMatch'
          BY <1>0, <2>1, <3>1, Zenon DEF ThreadInv, CallInv, ResponsesMatch
      <3>3. PhaseInv'
          BY <2>1, <3>1, Zenon DEF PhaseInv, Quiet
      <3>4. QED
          BY <1>1, <3>2, <3>3, Zenon DEF HandlerInv
    <2>3. CASE StillRuns(current)
      <3>1. responses[current] # <<>> /\ r = "Running" /\ call = "TryWait"
          BY <2>3, One, Zenon DEF StillRuns
      <3>2. /\ responses' = [responses EXCEPT ![current] = <<>>]
            /\ step' = "Idle" /\ call' = "None" /\ result' = "Running"
          BY <1>4, <3>1, Zenon DEF recv_response, Return
      <3>3. CallInv' /\ ResponsesMatch'
          BY <1>0, <2>1, <3>2, Zenon DEF CallInv, ResponsesMatch
      <3>4. ThreadInv'
          BY <1>0, <2>1, <3>2, Zenon DEF ThreadInv, TypeOK
      <3>5. PhaseInv'
          BY <1>0, <2>1, <2>3, <3>2, Zenon DEF PhaseInv, Quiet, StillRuns, TypeOK
      <3>6. QED
          BY <1>1, <3>3, <3>4, <3>5, Zenon DEF HandlerInv
    <2>4. CASE Answered(current)
      <3>1. responses[current] # <<>> /\ r = AfterExitResponse(call) /\ (call # "TryWait" \/ r = "Exited")
          BY <2>4, One, Zenon DEF Answered, AfterExitResponse
      <3>2. /\ responses' = [responses EXCEPT ![current] = <<>>]
            /\ step' = "Join" /\ resp' = r /\ UNCHANGED <<call, result>>
          BY <1>4, <3>1, Zenon DEF recv_response, Return
      <3>3. CallInv' /\ ResponsesMatch'
          BY <1>0, <2>1, <3>2, Zenon DEF CallInv, ResponsesMatch
      <3>4. ThreadInv'
          BY <1>0, <2>1, <3>2, Zenon DEF ThreadInv, TypeOK
      <3>5. PhaseInv'
          BY <1>0, <2>1, <2>4, <3>1, <3>2, Zenon DEF PhaseInv, Joining, Over, Answered, TypeOK, AfterExitResponse
      <3>6. QED
          BY <1>1, <3>3, <3>4, <3>5, Zenon DEF HandlerInv
    <2>5. QED
        BY <2>1, <2>2, <2>3, <2>4, Zenon
  <1>5. CASE join_handler_thread
    <2>1. /\ UNCHANGED <<resp, thread, request, requests, responses, process, started>> /\ step = "Join"
          /\ current' = NoThread /\ step' = "Idle" /\ call' = "None" /\ Ended(current)
        BY <1>5, Zenon DEF join_handler_thread, Return, threadVars, channelVars, processVars, counters
    <2>2. current = started /\ Joining(current)
        BY <1>0, <2>1, Zenon DEF CallInv, PhaseInv
    <2>3. thread[started] = "Done" /\ process[started] = "Reaped" /\ resp = AfterExitResponse(call)
        BY <2>1, <2>2, Zenon DEF Joining, Over, Ended
    <2>4. result' \in {"Exited", "Stopped"}
        BY <1>5, <2>2, <2>3, Zenon DEF join_handler_thread, Return, AfterExitResponse
    <2>5. ThreadInv' /\ CallInv' /\ PhaseInv' /\ ResponsesMatch'
        BY <1>0, <2>1, <2>3, <2>4, Zenon DEF ThreadInv, CallInv, PhaseInv, ResponsesMatch
    <2>6. QED
        BY <1>1, <2>5, Zenon DEF HandlerInv
  <1>6. QED
      BY <1>2, <1>3, <1>4, <1>5, Zenon DEF Handler
-------------------------------------------------------------------------------
LEMMA NextHandler == HandlerInv /\ [Next]_vars => HandlerInv'
  <1> SUFFICES ASSUME HandlerInv, [Next]_vars PROVE HandlerInv'
      BY Zenon
  <1>1. CASE UNCHANGED vars
    <2> USE <1>1 DEF vars, handlerVars, threadVars, channelVars, processVars, counters
    <2>1. TypeOK' /\ ThreadInv' /\ CallInv' /\ ResponsesMatch'
        BY Zenon DEF HandlerInv, TypeOK, ThreadInv, CallInv, ResponsesMatch
    <2>2. PhaseInv'
        BY Zenon DEF HandlerInv, PhaseInv, Quiet, Asked, Taken, Answered, Over, Joining, StillRuns, AfterExitResponse
    <2>3. QED
        BY <2>1, <2>2, Zenon DEF HandlerInv
  <1>2. QED
      BY <1>1, ActStep, StartStep, CallStep, Zenon DEF Next, Act

(* The inductive invariant: at each of its awaits, what a call can find the *)
(* current thread and its channels doing.                                   *)
THEOREM HandlerInvariance == Spec => []HandlerInv
  BY InitHandler, NextHandler, PTL DEF Spec

(* Types, and that a call finds no more than one request and one response   *)
(* on its channels.                                                         *)
THEOREM TypeCorrect == Spec => []TypeOK
  <1>1. HandlerInv => TypeOK
      BY Zenon DEF HandlerInv
  <1>2. QED
      BY <1>1, HandlerInvariance, PTL

(* stop, kill and try_wait of SimpleApplicationHandler never get a response *)
(* to another request, and report an end only of a process that was reaped. *)
THEOREM ResponsesAreTrue == Spec => []ResponsesMatch
  <1>1. HandlerInv => ResponsesMatch
      BY Zenon DEF HandlerInv
  <1>2. QED
      BY <1>1, HandlerInvariance, PTL

(* SimpleApplicationHandler with its threads implements HandlerLifecycle,   *)
(* which the model of the app-manager is built on: each step starts, loses, *)
(* or collects the current process, or lets it exit, or changes nothing.    *)
THEOREM Refinement == Spec => ImplementsLifecycle
  <1> DEFINE h == IF current = NoThread THEN "Idle"
                  ELSE IF thread[current] = "Failed" THEN "Lost"
                  ELSE IF process[current] = "Running" THEN "Up" ELSE "Exited"
  <1>1. Init => Lifecycle!Init
      BY Zenon DEF Init, Lifecycle!Init
  <1>2. HandlerInv /\ [Next]_vars => [Lifecycle!Next]_h
    <2> SUFFICES ASSUME HandlerInv, [Next]_vars PROVE [Lifecycle!Next]_h
        BY Zenon
    <2>0. TypeOK /\ ThreadInv /\ CallInv /\ PhaseInv
        BY Zenon DEF HandlerInv
    <2>1. CASE UNCHANGED <<current, thread, process>>
        BY <2>1, Zenon
    <2>2. CASE start
      <3>1. CASE result' = "Started"
        <4>1. started + 1 \in Threads /\ started + 1 # NoThread
            BY <2>0, <2>2, NextThread, Zenon DEF start
        <4>2. h' = "Up"
            BY <2>0, <2>2, <3>1, <4>1 DEF start, TypeOK
        <4>3. QED
            BY <4>2, Zenon DEF Lifecycle!Next, Lifecycle!Start
      <3>2. QED
          BY <2>1, <2>2, <3>1, Zenon DEF start
    <2>3. CASE join_handler_thread
      <3>1. current # NoThread /\ Over(current)
          BY <2>0, <2>3, Zenon DEF join_handler_thread, CallInv, PhaseInv, Joining
      <3>2. h = "Exited" /\ h' = "Idle"
          BY <2>3, <3>1, Zenon DEF join_handler_thread, Over
      <3>3. QED
          BY <3>2, Zenon DEF Lifecycle!Next, Lifecycle!Collect
    <2>4. CASE transaction \/ send_request \/ recv_response
        BY <2>1, <2>4, Zenon DEF transaction, send_request, recv_response, threadVars, processVars
    <2>5. ASSUME NEW t \in Threads, Act(t) PROVE [Lifecycle!Next]_h
      <3>1. UNCHANGED current /\ \A c \in Threads \ {t} : Same(c)
          BY <2>0, <2>5, ActFrame, Zenon
      <3>2. CASE current # t
        <4>1. current # NoThread => Same(current)
            BY <2>0, <3>1, <3>2, Zenon DEF TypeOK
        <4>2. QED
            BY <3>1, <4>1, Zenon DEF Same
      <3>3. CASE current = t /\ read_line_error(t)
        <4>1. h \in {"Up", "Exited"} /\ h' = "Lost"
            BY <2>0, <3>3, CountersStep, Zenon DEF read_line_error, handlerVars, TypeOK
        <4>2. QED
            BY <4>1, Zenon DEF Lifecycle!Next, Lifecycle!Lose
      <3>4. CASE current = t /\ exit(t)
        <4>1. UNCHANGED thread /\ process[t] = "Running" /\ process'[t] = "Exited" /\ t # NoThread
            BY <2>0, <3>4, CountersStep, Zenon DEF exit, threadVars, TypeOK
        <4>2. (h = "Lost" /\ h' = "Lost") \/ (h = "Up" /\ h' = "Exited")
            BY <3>1, <3>4, <4>1, Zenon
        <4>3. QED
            BY <4>2, Zenon DEF Lifecycle!Next, Lifecycle!Exit
      <3>5. CASE current = t /\ WardenThread(t)
        <4>1. t # NoThread
            BY <2>0, CountersStep, Zenon
        <4>2. thread[t] # "Failed" /\ thread'[t] # "Failed" /\ (process'[t] = "Running" <=> process[t] = "Running")
          <5> USE <2>0, <3>5 DEF handlerVars, threadVars, channelVars, processVars, counters, TypeOK
          <5>1. CASE stop_and_respond(t)
              BY <5>1, Zenon DEF stop_and_respond
          <5>2. CASE try_wait(t)
              BY <5>2, Zenon DEF try_wait, send_response
          <5>3. CASE after_exit(t)
              BY <5>3, Zenon DEF after_exit, send_response
          <5>4. CASE process_wait(t)
              BY <5>4, Zenon DEF process_wait
          <5>5. CASE process_exited(t)
              BY <5>5, Zenon DEF process_exited
          <5>6. CASE channel_closed(t)
              BY <5>6, Zenon DEF channel_closed
          <5>7. CASE ensure_app_is_stopped(t)
              BY <5>7, Zenon DEF ensure_app_is_stopped
          <5>8. QED
              BY <5>1, <5>2, <5>3, <5>4, <5>5, <5>6, <5>7, Zenon DEF WardenThread
        <4>3. QED
            BY <3>1, <3>5, <4>1, <4>2, Zenon
      <3>6. QED
          BY <2>5, <3>2, <3>3, <3>4, <3>5, Zenon DEF Act
    <2>6. QED
        BY <2>1, <2>2, <2>3, <2>4, <2>5, Zenon DEF Next, Handler, Act, vars, handlerVars, threadVars, processVars
  <1>3. QED
      BY <1>1, <1>2, HandlerInvariance, PTL DEF Spec, ImplementsLifecycle, Lifecycle!Spec
===============================================================================
