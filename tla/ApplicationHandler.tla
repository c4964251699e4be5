-------------------------- MODULE ApplicationHandler --------------------------
(***************************************************************************)
(* SimpleApplicationHandler and its WardenThread: how the realm's          *)
(* app-manager starts, watches and stops the process of one application.   *)
(*                                                                         *)
(* Every start spawns a process and a task that watches it; the two talk   *)
(* over a pair of channels of capacity one.  A start over a running        *)
(* application drops the channels of the task before it, which then kills  *)
(* its process.  The handler's own calls come one at a time from the       *)
(* app-manager's request loop, but the tasks, the processes and the        *)
(* handler interleave at every await.                                      *)
(***************************************************************************)
EXTENDS Naturals, Sequences

CONSTANTS
    MaxStarts,       \* bound on the processes ever spawned
    MaxCalls,        \* bound on the calls of stop, kill and try_wait
    MaxReadErrors    \* bound on the lines of output that cannot be read

ASSUME BoundsAssumption == MaxStarts \in Nat /\ MaxCalls \in Nat /\ MaxReadErrors \in Nat

Threads == 1..MaxStarts
NoThread == 0
Requests == {"Stop", "Kill", "TryWait"}
Responses == {"Stopped", "Exited", "Running"}   \* MaybeExited(Some(_)) and MaybeExited(None)

VARIABLES
    current,     \* the thread behind SimpleApplicationHandler.thread and .channel
    call, step,  \* the call in progress and the await it is at
    resp,        \* the response that stop, kill or try_wait received
    result,      \* what the last call returned
    thread,      \* the place of every WardenThread in its event_loop
    request,     \* the request a thread is handling
    requests, responses,   \* the channels of every thread
    process,     \* the process of every thread
    signals,     \* the signals sent to it
    started, called, readErrors   \* counters for the bounds

handlerVars == <<current, call, step, resp, result>>
threadVars == <<thread, request>>
channelVars == <<requests, responses>>
processVars == <<process, signals>>
counters == <<started, called, readErrors>>
vars == <<handlerVars, threadVars, channelVars, processVars, counters>>

Init ==
    /\ current = NoThread /\ call = "None" /\ step = "Idle" /\ resp = "None" /\ result = "None"
    /\ thread = [t \in Threads |-> "None"] /\ request = [t \in Threads |-> "None"]
    /\ requests = [t \in Threads |-> <<>>] /\ responses = [t \in Threads |-> <<>>]
    /\ process = [t \in Threads |-> "None"] /\ signals = [t \in Threads |-> {}]
    /\ started = 0 /\ called = 0 /\ readErrors = 0

(* The task has returned: its ends of the channels are dropped. *)
Ended(t) == thread[t] \in {"Done", "Failed"}
-------------------------------------------------------------------------------
(* SimpleApplicationHandler                                                 *)

(* start: a process and a thread with new channels take the place of the    *)
(* ones before, if the process can be spawned.                              *)
start ==
    /\ step = "Idle" /\ started < MaxStarts
    /\ \/ /\ started' = started + 1 /\ current' = started + 1
          /\ thread' = [thread EXCEPT ![started + 1] = "Loop"]
          /\ process' = [process EXCEPT ![started + 1] = "Running"]
          /\ result' = "Started"
       \/ result' = "SpawnError" /\ UNCHANGED <<started, current, thread, process>>
    /\ UNCHANGED <<call, step, resp, request, channelVars, signals, called, readErrors>>

(* stop, kill or try_wait begins its transaction. *)
transaction ==
    /\ step = "Idle" /\ called < MaxCalls /\ called' = called + 1
    /\ \/ current = NoThread /\ result' = "AppNotRunning" /\ UNCHANGED <<call, step>>
       \/ /\ current # NoThread /\ step' = "Send" /\ result' = "None"
          /\ \E c \in Requests : call' = c
    /\ UNCHANGED <<current, resp, threadVars, channelVars, processVars, started, readErrors>>

(* A call that ends before join_handler_thread. *)
Return(r) == step' = "Idle" /\ call' = "None" /\ result' = r

(* Mutant: a call that finds its thread gone forgets the process. *)
send_request_forgets ==
    /\ step = "Send"
    /\ \/ Ended(current) /\ Return("RequestChannelError") /\ current' = NoThread /\ UNCHANGED requests
       \/ /\ ~Ended(current) /\ requests[current] = <<>>
          /\ requests' = [requests EXCEPT ![current] = <<call>>]
          /\ step' = "Recv" /\ UNCHANGED <<current, call, result>>
    /\ UNCHANGED <<resp, threadVars, responses, processVars, counters>>

send_request ==
    /\ step = "Send"
    /\ \/ Ended(current) /\ Return("RequestChannelError") /\ UNCHANGED requests
       \/ /\ ~Ended(current) /\ requests[current] = <<>>
          /\ requests' = [requests EXCEPT ![current] = <<call>>]
          /\ step' = "Recv" /\ UNCHANGED <<call, result>>
    /\ UNCHANGED <<current, resp, threadVars, responses, processVars, counters>>

(* MaybeExited(None) is the only response that does not end the thread. *)
recv_response ==
    /\ step = "Recv"
    /\ \/ /\ responses[current] # <<>>
          /\ responses' = [responses EXCEPT ![current] = <<>>]
          /\ \/ /\ call = "TryWait" /\ Head(responses[current]) # "Exited"
                /\ Return(IF Head(responses[current]) = "Running" THEN "Running" ELSE "InvalidResponse")
                /\ UNCHANGED resp
             \/ /\ call # "TryWait" \/ Head(responses[current]) = "Exited"
                /\ step' = "Join" /\ resp' = Head(responses[current]) /\ UNCHANGED <<call, result>>
       \/ /\ responses[current] = <<>> /\ Ended(current)
          /\ Return("ChannelClosed") /\ UNCHANGED <<responses, resp>>
    /\ UNCHANGED <<current, threadVars, requests, processVars, counters>>

(* Mutant: the call does not wait for the end of the thread. *)
join_handler_thread_unjoined ==
    /\ step = "Join" /\ current' = NoThread
    /\ Return(IF thread[current] = "Failed" THEN "ThreadError"
              ELSE IF call = "TryWait" THEN "Exited"
              ELSE IF resp = "Stopped" THEN "Stopped" ELSE "InvalidResponse")
    /\ UNCHANGED <<resp, threadVars, channelVars, processVars, counters>>

(* join_handler_thread, and the check of the response in stop and kill. *)
join_handler_thread ==
    /\ step = "Join" /\ Ended(current) /\ current' = NoThread
    /\ Return(IF thread[current] = "Failed" THEN "ThreadError"
              ELSE IF call = "TryWait" THEN "Exited"
              ELSE IF resp = "Stopped" THEN "Stopped" ELSE "InvalidResponse")
    /\ UNCHANGED <<resp, threadVars, channelVars, processVars, counters>>
-------------------------------------------------------------------------------
(* WardenThread                                                             *)

(* send_response: fails, and ends the thread, if the handler has dropped    *)
(* the channel; otherwise the thread goes on at next.                       *)
send_response(t, r, next) ==
    \/ /\ current = t /\ responses[t] = <<>>
       /\ responses' = [responses EXCEPT ![t] = <<r>>] /\ thread' = [thread EXCEPT ![t] = next]
    \/ /\ current # t
       /\ thread' = [thread EXCEPT ![t] = "Failed"] /\ UNCHANGED responses

(* Mutant: the request is sent back. *)
AfterExitResponse_echo(c) == c

AfterExitResponse(c) == IF c = "TryWait" THEN "Exited" ELSE "Stopped"

(* Mutant: no signal is sent. *)
stop_and_respond_unsignalled(t) ==
    /\ thread[t] = "Loop" /\ requests[t] \in {<<"Stop">>, <<"Kill">>}
    /\ requests' = [requests EXCEPT ![t] = <<>>]
    /\ request' = [request EXCEPT ![t] = Head(requests[t])]
    /\ thread' = [thread EXCEPT ![t] = "AfterExit"]
    /\ UNCHANGED <<handlerVars, responses, processVars, counters>>

(* event_loop takes a Stop or a Kill: the signal, then after_exit. *)
stop_and_respond(t) ==
    /\ thread[t] = "Loop" /\ requests[t] \in {<<"Stop">>, <<"Kill">>}
    /\ requests' = [requests EXCEPT ![t] = <<>>]
    /\ request' = [request EXCEPT ![t] = Head(requests[t])]
    /\ signals' = [signals EXCEPT ![t] = @ \cup {IF requests[t] = <<"Stop">> THEN "TERM" ELSE "KILL"}]
    /\ thread' = [thread EXCEPT ![t] = "AfterExit"]
    /\ UNCHANGED <<handlerVars, responses, process, counters>>

(* event_loop takes a TryWait; a process found to have exited is reaped by  *)
(* try_wait, and the loop ends.                                             *)
try_wait(t) ==
    /\ thread[t] = "Loop" /\ requests[t] = <<"TryWait">>
    /\ requests' = [requests EXCEPT ![t] = <<>>]
    /\ \/ process[t] = "Running" /\ send_response(t, "Running", "Loop") /\ UNCHANGED process
       \/ /\ process[t] = "Exited" /\ send_response(t, "Exited", "Ensure")
          /\ process' = [process EXCEPT ![t] = "Reaped"]
    /\ UNCHANGED <<handlerVars, request, signals, counters>>

(* after_exit: once the process has exited, the response. *)
after_exit(t) ==
    /\ thread[t] = "AfterExit" /\ process[t] \in {"Exited", "Reaped"}
    /\ process' = [process EXCEPT ![t] = "Reaped"]
    /\ send_response(t, AfterExitResponse(request[t]), "Ensure")
    /\ UNCHANGED <<handlerVars, request, requests, signals, counters>>

(* event_loop sees the process exit, whose status it has then reaped ... *)
process_wait(t) ==
    /\ thread[t] = "Loop" /\ process[t] = "Exited"
    /\ process' = [process EXCEPT ![t] = "Reaped"]
    /\ thread' = [thread EXCEPT ![t] = "ProcessExited"]
    /\ UNCHANGED <<handlerVars, request, channelVars, signals, counters>>

(* ... and keeps it for the next request, unless none can come. *)
process_exited(t) ==
    /\ thread[t] = "ProcessExited"
    /\ \/ /\ requests[t] # <<>>
          /\ request' = [request EXCEPT ![t] = Head(requests[t])]
          /\ requests' = [requests EXCEPT ![t] = <<>>]
          /\ thread' = [thread EXCEPT ![t] = "AfterExit"]
       \/ /\ requests[t] = <<>> /\ current # t
          /\ thread' = [thread EXCEPT ![t] = "Ensure"] /\ UNCHANGED <<request, requests>>
    /\ UNCHANGED <<handlerVars, responses, processVars, counters>>

(* Mutant: the thread goes on without its channels. *)
channel_closed_ignored(t) == FALSE /\ UNCHANGED vars

(* event_loop finds its channel closed: a later start has replaced it. *)
channel_closed(t) ==
    /\ thread[t] = "Loop" /\ requests[t] = <<>> /\ current # t
    /\ thread' = [thread EXCEPT ![t] = "Ensure"]
    /\ UNCHANGED <<handlerVars, request, channelVars, processVars, counters>>

(* event_loop returns on a line of output that is not valid UTF-8, or any   *)
(* other error of the pipe.                                                 *)
read_line_error(t) ==
    /\ thread[t] = "Loop" /\ readErrors < MaxReadErrors
    /\ readErrors' = readErrors + 1
    /\ thread' = [thread EXCEPT ![t] = "Failed"]
    /\ UNCHANGED <<handlerVars, request, channelVars, processVars, started, called>>

(* ensure_app_is_stopped: a process not yet reaped is killed and waited for. *)
ensure_app_is_stopped(t) ==
    /\ \/ /\ thread[t] = "Ensure" /\ process[t] = "Reaped"
          /\ thread' = [thread EXCEPT ![t] = "Done"] /\ UNCHANGED processVars
       \/ /\ thread[t] = "Ensure" /\ process[t] # "Reaped"
          /\ signals' = [signals EXCEPT ![t] = @ \cup {"KILL"}]
          /\ thread' = [thread EXCEPT ![t] = "Killed"] /\ UNCHANGED process
       \/ /\ thread[t] = "Killed" /\ process[t] = "Exited"
          /\ process' = [process EXCEPT ![t] = "Reaped"]
          /\ thread' = [thread EXCEPT ![t] = "Done"] /\ UNCHANGED signals
    /\ UNCHANGED <<handlerVars, request, channelVars, counters>>
-------------------------------------------------------------------------------
(* The process ends, by itself or by a signal. *)
exit(t) ==
    /\ process[t] = "Running"
    /\ process' = [process EXCEPT ![t] = "Exited"]
    /\ UNCHANGED <<handlerVars, threadVars, channelVars, signals, counters>>

Handler == send_request \/ recv_response \/ join_handler_thread

WardenThread(t) ==
    \/ stop_and_respond(t) \/ try_wait(t) \/ after_exit(t) \/ process_wait(t) \/ process_exited(t)
    \/ channel_closed(t) \/ ensure_app_is_stopped(t)

Next ==
    \/ start \/ transaction \/ Handler
    \/ \E t \in Threads : WardenThread(t) \/ read_line_error(t) \/ exit(t)

(* Ready tasks are polled; a process ends after SIGKILL, and an application *)
(* that keeps to the convention ends after SIGTERM.                         *)
Fairness ==
    /\ WF_vars(Handler)
    /\ \A t \in Threads : WF_vars(WardenThread(t)) /\ WF_vars(signals[t] # {} /\ exit(t))

Spec == Init /\ [][Next]_vars /\ Fairness
-------------------------------------------------------------------------------
(* Types; a channel of capacity one holds at most one request or response. *)
TypeOK ==
    /\ current \in Threads \cup {NoThread} /\ call \in Requests \cup {"None"}
    /\ step \in {"Idle", "Send", "Recv", "Join"} /\ resp \in Responses \cup {"None"}
    /\ thread \in [Threads -> {"None", "Loop", "AfterExit", "ProcessExited", "Ensure", "Killed", "Done", "Failed"}]
    /\ request \in [Threads -> Requests \cup {"None"}]
    /\ requests \in [Threads -> {<<>>} \cup {<<r>> : r \in Requests}]
    /\ responses \in [Threads -> {<<>>} \cup {<<r>> : r \in Responses}]
    /\ process \in [Threads -> {"None", "Running", "Exited", "Reaped"}]
    /\ signals \in [Threads -> SUBSET {"TERM", "KILL"}]
    /\ started \in 0..MaxStarts /\ called \in 0..MaxCalls /\ readErrors \in 0..MaxReadErrors

(* A call never gets the response of another: AppHandlerInvalidResponse is  *)
(* never returned, whatever order the process's exit, the requests and the  *)
(* restarts of the application come in; and what it gets is true: stop and  *)
(* kill return Ok, and try_wait a status, only when the process has been    *)
(* reaped and its thread is gone, so that a following start runs alone.     *)
ResponsesMatch ==
    /\ result # "InvalidResponse"
    /\ result \in {"Stopped", "Exited"} =>
        /\ current = NoThread
        /\ \A t \in Threads : t = started => process[t] = "Reaped" /\ thread[t] = "Done"

(* At most one process runs for long: one that a later start has replaced   *)
(* is killed, unless its output could not be read.                          *)
ReplacedIsKilled ==
    \A t \in Threads :
        (process[t] = "Running" /\ current \notin {t, NoThread}) ~> (process[t] = "Reaped" \/ thread[t] = "Failed")

(* The handler keeps the promise of HandlerLifecycle: it becomes idle only  *)
(* when the process it was responsible for has exited.                      *)
Lifecycle == INSTANCE HandlerLifecycle WITH
    handler <- IF current = NoThread THEN "Idle"
               ELSE IF thread[current] = "Failed" THEN "Lost"
               ELSE IF process[current] = "Running" THEN "Up" ELSE "Exited"
ImplementsLifecycle == Lifecycle!Spec

(* stop, kill and try_wait return. *)
EveryCallReturns == step # "Idle" ~> step = "Idle"
===============================================================================
