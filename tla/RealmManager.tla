----------------------------- MODULE RealmManager -----------------------------
(***************************************************************************)
(* One realm of the warden daemon: the RealmManager, the VmRunner that     *)
(* owns its virtual machine, the RealmClientHandler that talks to it, the  *)
(* entry of the VSockServer for its cid, and the realm itself (the VM and  *)
(* the app-manager inside it) as the environment they meet.                *)
(*                                                                         *)
(* Commands on the realm run one at a time, because a client holds the     *)
(* realm's mutex for the whole command; `op` is that command and `pc` the  *)
(* await it is at.  StartApplication and StopApplication hold only the     *)
(* application and the client-handler mutex, so one of them, `appOp` at    *)
(* `appPc`, runs beside the realm command and meets it at `clientLock` and *)
(* at the application's mutex, which the realm command takes as well.      *)
(*                                                                         *)
(* Between two awaits a task is not interrupted, so one action is the code *)
(* from one await to the next.                                             *)
(***************************************************************************)
EXTENDS Naturals, Sequences

CONSTANTS
    MaxCommands,   \* bound on the commands clients issue on this realm
    MaxUpdates,    \* bound on the versions of the applications' configuration
    MaxFaults      \* bound on the faults of the host's OS and of the VM

ASSUME BoundsAssumption == MaxCommands \in Nat /\ MaxUpdates \in Nat /\ MaxFaults \in Nat

VARIABLES
    state,      \* RealmManager.state, or "Destroyed" once the manager is dropped
    vm,         \* VmRunner.vm: the child process of the virtual machine
    memCfg,     \* version of the application configs in memory
    diskCfg,    \* version of the application configs in the YAML files
    op, pc,     \* the command that holds the realm mutex, and its await
    result,     \* outcome of the last realm command
    fetched,    \* resp of fetch_attestation_token, kept across the shutdown
    appOp, appPc, appResult,   \* the Start/StopApplication command, likewise
    clientLock, \* holder of the realm_client_handler mutex
    sender,     \* RealmClientHandler.sender: no stream, a live or a dead one
    waiter,     \* VSockServer.waiting[cid]: none, receiver alive, receiver dropped
    inbox,      \* the stream sent through the oneshot channel, not yet taken
    server,     \* VSockServer::listen: "Listening", or "Ended" with the daemon
    backlog,    \* a connection of the realm that listen has not accepted yet
    guest,      \* the realm's system: "Off", "Booting", or "Up" and connected
    guestCfg,   \* version the realm was provisioned with, 0 before provisioning
    requests,   \* requests on the live stream the realm has not handled
    replies,    \* responses on the stream of `sender` not read yet
    commands, faults,   \* counters for the bounds
    seen        \* history: what has happened so far that the properties speak of

realmVars == <<state, memCfg, diskCfg, op, pc, result, fetched, commands>>
appVars == <<appOp, appPc, appResult>>
linkVars == <<sender, waiter, inbox, server, backlog>>
guestVars == <<guest, guestCfg>>
streamVars == <<requests, replies>>
vars == <<realmVars, vm, appVars, clientLock, linkVars, guestVars, streamVars, faults, seen>>

States == {"Halted", "Provisioning", "Running", "NeedReboot", "Destroyed"}
VmStates == {"NotLaunched", "Launched", "Exited", "Reaped"}
RealmOps == {"None", "Start", "Stop", "Reboot", "Fetch", "GetData", "Update", "CreateApp", "Destroy"}
RealmPcs == {"Idle", "Prepare", "Launch", "Lock", "Config", "SendReboot", "Register", "Connect",
             "Send", "Recv", "Update", "UpdateOther", "StartFailed", "LockShutdown", "SendShutdown", "RecvShutdown", "VmShutdown"}
AppOps == {"None", "StartApp", "StopApp"}
AppPcs == {"Idle", "Wait", "Lock", "Send", "Recv", "SendKill", "RecvKill"}
Streams == {"None", "Live", "Dead"}
Requests == {"ProvisionInfo", "GetAttestationToken", "GetIfAddrs", "StartApp", "StopApp",
             "KillApp", "Shutdown", "Reboot"}
Responses == {"Success", "AttestationToken", "IfAddrs", "Error"}

(* "Unread": a response may be, or come, on the stream of `sender` that     *)
(* nobody waits for any more, because a read timed out, or because a reboot *)
(* gave up waiting for the connection: the response to Reboot is not read.  *)
Events == {"ConfigError", "GaveUp", "Outran", "Unread", "KillFailed"}
-------------------------------------------------------------------------------
(* Initial state: RealmManager::new, VmRunner::new, RealmClientHandler::new *)
Init ==
    /\ state = "Halted" /\ vm = "NotLaunched"
    /\ memCfg = 1 /\ diskCfg = 1
    /\ op = "None" /\ pc = "Idle" /\ result = "None" /\ fetched = "None"
    /\ appOp = "None" /\ appPc = "Idle" /\ appResult = "None"
    /\ clientLock = "None"
    /\ sender = "None" /\ waiter = "None" /\ inbox = "None" /\ backlog = "None"
    /\ server = "Listening"
    /\ guest = "Off" /\ guestCfg = 0
    /\ requests = <<>> /\ replies = <<>>
    /\ commands = 0 /\ faults = 0 /\ seen = {}

Cut(stream) == IF stream = "Live" THEN "Dead" ELSE stream

(* The realm's end of its connection goes away. *)
Sever ==
    /\ sender' = Cut(sender) /\ inbox' = Cut(inbox) /\ backlog' = Cut(backlog)
    /\ requests' = <<>>
    /\ UNCHANGED <<waiter, server, replies>>

Fault == faults < MaxFaults /\ faults' = faults + 1

(* A realm command returns: the mutex guards it still holds are dropped. *)
Return(r) ==
    /\ pc' = "Idle" /\ result' = r
    /\ clientLock' = IF clientLock = "Realm" THEN "None" ELSE clientLock
    /\ UNCHANGED <<op, commands>>

Goto(next) == pc' = next /\ UNCHANGED <<op, result, commands, clientLock>>

(* Go on after the statement that locked the client handler. *)
Release(next) == pc' = next /\ clientLock' = "None" /\ UNCHANGED <<op, result, commands>>
-------------------------------------------------------------------------------
(* RealmClientHandler on its stream.                                        *)

Expected(req) ==
    IF req = "GetAttestationToken" THEN "AttestationToken"
    ELSE IF req = "GetIfAddrs" THEN "IfAddrs"
    ELSE IF req \in {"Shutdown", "Reboot"} THEN "Nothing" ELSE "Success"

(* send_command: fails without a stream; a write on a dead one may fail or  *)
(* be swallowed.                                                            *)
send_command(req, sent) ==
    \/ sender = "None" /\ ~sent /\ UNCHANGED streamVars
    \/ sender = "Dead" /\ sent \in BOOLEAN /\ UNCHANGED streamVars
    \/ /\ sender = "Live" /\ sent
       /\ requests' = Append(requests, [req |-> req, cfg |-> IF req = "ProvisionInfo" THEN memCfg ELSE 0])
       /\ UNCHANGED replies

Outcomes == {"Ok", "Invalid", "Disconnection", "Fail"}

(* read_response followed by the match on the expected Response; the        *)
(* timeout may always win, and leaves the response to come on the stream.   *)
read_response(req, out) ==
    \/ /\ replies # <<>>
       /\ out = IF Head(replies).resp = Expected(req) THEN "Ok" ELSE "Invalid"
       /\ replies' = Tail(replies)
       /\ UNCHANGED <<requests, seen>>
    \/ /\ replies = <<>> /\ sender = "Dead"
       /\ out \in {"Disconnection", "Fail"}
       /\ UNCHANGED <<streamVars, seen>>
    \/ /\ out = "Fail"
       /\ seen' = seen \cup {"Unread"}
       /\ UNCHANGED streamVars
-------------------------------------------------------------------------------
(* VmRunner                                                                 *)

(* VmHandler::new: the process is spawned, and an error if it ended at once. *)
VmHandler(ok) ==
    \/ ~ok /\ Fault /\ UNCHANGED <<vm, guestVars>>
    \/ ok /\ vm' = "Launched" /\ guest' = "Booting" /\ guestCfg' = 0 /\ UNCHANGED faults

(* launch_vm: refuses while it holds a VM, whatever became of the process. *)
launch_vm(ok) ==
    \/ ~ok /\ vm # "NotLaunched" /\ UNCHANGED <<vm, guestVars, faults>>
    \/ vm = "NotLaunched" /\ VmHandler(ok)

(* shutdown: kill and wait; a child whose exit status was taken by          *)
(* get_status can no longer be killed, and the VM stays recorded.           *)
shutdown(ok) ==
    \/ /\ ok /\ vm \in {"Launched", "Exited"}
       /\ vm' = "NotLaunched" /\ guest' = "Off" /\ guestCfg' = 0
       /\ Sever
       /\ UNCHANGED <<faults, seen>>
    \/ /\ ~ok /\ vm \in {"NotLaunched", "Reaped"}
       /\ UNCHANGED <<vm, guestVars, linkVars, streamVars, faults, seen>>
    \/ /\ ~ok /\ vm \in {"Launched", "Exited"} /\ Fault
       /\ seen' = seen \cup {"KillFailed"}
       /\ UNCHANGED <<vm, guestVars, linkVars, streamVars>>
-------------------------------------------------------------------------------
(* RealmManager: the commands, from await to await.                         *)

Active == state \in {"Running", "NeedReboot"}

(* The mutex of an application is held by a command on it; the realm's      *)
(* commands hold it only within their own steps.                            *)
AppLocked == appPc \notin {"Idle", "Wait"}

Permitted(o) ==
    /\ o = "Start" => state = "Halted"
    /\ o \in {"Stop", "Reboot"} => Active
    /\ o = "Fetch" => state # "Provisioning"

FirstPc(o) ==
    IF o = "Start" \/ (o = "Fetch" /\ state = "Halted") THEN "Prepare"
    ELSE IF o = "Stop" THEN "LockShutdown" ELSE "Lock"

(* A client's command gets the realm mutex. *)
Issue(o) ==
    /\ pc = "Idle" /\ state # "Destroyed"
    /\ commands < MaxCommands
    /\ commands' = commands + 1
    /\ op' = o

(* start, stop, reboot, fetch_attestation_token, get_realm_data up to their *)
(* first await; the state check refuses at once.                            *)
begin_command(o) ==
    /\ Issue(o)
    /\ \/ /\ Permitted(o) /\ (o = "GetData" => Active)
          /\ pc' = FirstPc(o) /\ result' = "None" /\ fetched' = "None"
       \/ ~Permitted(o) /\ result' = "Err" /\ UNCHANGED <<pc, fetched>>
       \/ o = "GetData" /\ ~Active /\ result' = "Ok" /\ UNCHANGED <<pc, fetched>>
    /\ UNCHANGED <<state, vm, memCfg, diskCfg, appVars, clientLock, linkVars, guestVars,
                   streamVars, faults, seen>>

(* prepare_applications: configure_disk of every application, each under    *)
(* its mutex; the first error is returned.                                  *)
prepare_applications ==
    /\ pc = "Prepare"
    /\ \/ ~AppLocked /\ Goto("Launch") /\ UNCHANGED faults
       \/ Fault /\ Return("Err")
    /\ UNCHANGED <<state, vm, memCfg, diskCfg, fetched, appVars, linkVars, guestVars, streamVars, seen>>

(* Mutant: start leaves the Halted state before the VM is launched. *)
launch_realm_provisions_first ==
    /\ pc = "Launch"
    /\ \E ok \in BOOLEAN :
        /\ launch_vm(ok)
        /\ IF ok THEN Goto("Lock") ELSE Return("Err")
        /\ state' = IF op = "Start" THEN "Provisioning" ELSE state
    /\ UNCHANGED <<memCfg, diskCfg, fetched, appVars, linkVars, streamVars, seen>>

(* start and fetch_attestation_token launch the VM; only start then leaves  *)
(* the Halted state.                                                        *)
launch_realm ==
    /\ pc = "Launch"
    /\ \E ok \in BOOLEAN :
        /\ launch_vm(ok)
        /\ IF ok THEN Goto("Lock") ELSE Return("Err")
        /\ state' = IF ok /\ op = "Start" THEN "Provisioning" ELSE state
    /\ UNCHANGED <<memCfg, diskCfg, fetched, appVars, linkVars, streamVars, seen>>

AfterLock ==
    IF op \in {"Start", "Reboot"} THEN "Config"
    ELSE IF op = "Fetch" /\ state = "Halted" THEN "Register" ELSE "Send"

(* realm_client_handler.lock().await *)
lock_client ==
    /\ pc \in {"Lock", "LockShutdown"} /\ clientLock = "None"
    /\ clientLock' = "Realm"
    /\ pc' = IF pc = "Lock" THEN AfterLock ELSE "SendShutdown"
    /\ UNCHANGED <<state, vm, memCfg, diskCfg, op, result, fetched, commands, appVars, linkVars,
                   guestVars, streamVars, faults, seen>>

(* create_provisioning_config, an argument of the call on the locked client *)
(* handler, awaits the mutex of each application; its error leaves start    *)
(* without handle_start_response.                                           *)
create_provisioning_config ==
    /\ pc = "Config"
    /\ \/ ~AppLocked /\ Goto(IF op = "Start" THEN "Register" ELSE "SendReboot") /\ UNCHANGED <<faults, seen>>
       \/ Fault /\ Return("Err") /\ seen' = seen \cup {"ConfigError"}
    /\ UNCHANGED <<state, vm, memCfg, diskCfg, fetched, appVars, linkVars, guestVars, streamVars>>

(* reboot_realm: Reboot is sent and no response to it is read. *)
reboot_realm ==
    /\ pc = "SendReboot"
    /\ \E sent \in BOOLEAN :
        /\ send_command("Reboot", sent)
        /\ IF sent THEN Goto("Register") ELSE Return("Err")
    /\ UNCHANGED <<state, vm, memCfg, diskCfg, fetched, appVars, linkVars, guestVars, faults, seen>>

(* Mutant: the waiter of an earlier connection attempt is kept. *)
acquire_realm_sender_keeps_waiter ==
    /\ pc = "Register"
    /\ Goto("Connect")
    /\ waiter' = IF waiter = "None" /\ op # "Reboot" THEN "Open" ELSE waiter
    /\ UNCHANGED <<state, vm, memCfg, diskCfg, fetched, appVars, sender, inbox, server, backlog,
                   guestVars, streamVars, faults, seen>>

(* try_connect: acquire_realm_sender replaces the waiter of this cid. *)
acquire_realm_sender ==
    /\ pc = "Register"
    /\ Goto("Connect")
    /\ waiter' = "Open"
    /\ UNCHANGED <<state, vm, memCfg, diskCfg, fetched, appVars, sender, inbox, server, backlog,
                   guestVars, streamVars, faults, seen>>

(* The failure of try_connect or of the first request, by command. *)
ConnectFailed ==
    \/ op = "Start" /\ Release("StartFailed") /\ UNCHANGED fetched
    \/ op = "Reboot" /\ Return("Err") /\ UNCHANGED fetched
    \/ op = "Fetch" /\ Release("LockShutdown") /\ fetched' = "Err"

(* try_connect: the select of the oneshot receiver, the cancellation and    *)
(* the timeout.  When it gives up, the receiver is dropped with what it may *)
(* hold and the entry in `waiting` stays.                                   *)
try_connect ==
    /\ pc = "Connect"
    /\ \/ /\ inbox # "None"
          /\ sender' = inbox /\ inbox' = "None" /\ replies' = <<>>
          /\ seen' = seen \ {"Unread"}
          /\ Goto("Send")
          /\ UNCHANGED <<fetched, waiter, requests>>
       \/ /\ inbox' = "None"
          /\ waiter' = IF waiter = "Open" THEN "Closed" ELSE waiter
          /\ seen' = seen \cup {"GaveUp"} \cup (IF op = "Reboot" THEN {"Unread"} ELSE {})
          /\ ConnectFailed
          /\ UNCHANGED <<sender, streamVars>>
    /\ UNCHANGED <<state, vm, memCfg, diskCfg, appVars, server, backlog, guestVars, faults>>

RealmRequest ==
    IF op = "Fetch" THEN "GetAttestationToken"
    ELSE IF op = "GetData" THEN "GetIfAddrs" ELSE "ProvisionInfo"

(* What a command does with the outcome of its request: handle_start_       *)
(* response of start, the state change of reboot, resp of a fetch.          *)
Answered(ok) ==
    \/ /\ op \in {"Start", "Reboot"} /\ ok
       /\ state' = "Running" /\ Return("Ok") /\ UNCHANGED fetched
    \/ op = "Start" /\ ~ok /\ Release("StartFailed") /\ UNCHANGED <<state, fetched>>
    \/ op = "Reboot" /\ ~ok /\ Return("Err") /\ UNCHANGED <<state, fetched>>
    \/ /\ op = "Fetch" /\ state = "Halted"
       /\ Release("LockShutdown") /\ fetched' = (IF ok THEN "Ok" ELSE "Err") /\ UNCHANGED state
    \/ /\ op = "GetData" \/ (op = "Fetch" /\ state # "Halted")
       /\ Return(IF ok THEN "Ok" ELSE "Err") /\ UNCHANGED <<state, fetched>>

(* provision_applications, fetch_attestation_token, read_realm_ifs: send. *)
send_request ==
    /\ pc = "Send"
    /\ \E sent \in BOOLEAN :
        /\ send_command(RealmRequest, sent)
        /\ IF sent THEN Goto("Recv") /\ UNCHANGED <<state, fetched>> ELSE Answered(FALSE)
    /\ UNCHANGED <<vm, memCfg, diskCfg, appVars, linkVars, guestVars, faults, seen>>

(* ... and their response. *)
recv_response ==
    /\ pc = "Recv"
    /\ \E out \in Outcomes :
        /\ read_response(RealmRequest, out)
        /\ Answered(out = "Ok")
    /\ UNCHANGED <<vm, memCfg, diskCfg, appVars, linkVars, guestVars, faults>>

(* get_status takes the exit status of a process that ended. *)
get_status ==
    /\ vm \in {"Exited", "NotLaunched"}
    /\ vm' = IF vm = "Exited" THEN "Reaped" ELSE vm

(* handle_start_response on an error: back to Halted, then the VM is shut   *)
(* down only if get_status still finds it running.                          *)
handle_start_response ==
    /\ pc = "StartFailed"
    /\ state' = "Halted" /\ Return("Err")
    /\ \/ vm = "Launched" /\ \E ok \in BOOLEAN : shutdown(ok)
       \/ /\ get_status
          /\ UNCHANGED <<guestVars, linkVars, streamVars, faults, seen>>
       \/ Fault /\ UNCHANGED <<vm, guestVars, linkVars, streamVars, seen>>
    /\ UNCHANGED <<memCfg, diskCfg, fetched, appVars>>

(* shutdown_realm of stop and of a fetch from Halted: send ... *)
send_shutdown ==
    /\ pc = "SendShutdown"
    /\ \E sent \in BOOLEAN :
        /\ send_command("Shutdown", sent)
        /\ IF sent THEN Goto("RecvShutdown") ELSE Return("Err")
    /\ UNCHANGED <<state, vm, memCfg, diskCfg, fetched, appVars, linkVars, guestVars, faults, seen>>

(* Mutant: the stream of the realm that went away is kept. *)
handle_shutdown_response_keeps_sender ==
    /\ pc = "RecvShutdown"
    /\ \E out \in Outcomes :
        /\ read_response("Shutdown", out)
        /\ IF out = "Disconnection" THEN Release("VmShutdown") ELSE Return("Err")
    /\ UNCHANGED <<state, vm, memCfg, diskCfg, fetched, appVars, linkVars, guestVars, faults>>

(* ... and handle_shutdown_response: only a reset connection is a success,  *)
(* and it is the one place that forgets the stream.                         *)
handle_shutdown_response ==
    /\ pc = "RecvShutdown"
    /\ \E out \in Outcomes :
        /\ read_response("Shutdown", out)
        /\ IF out = "Disconnection"
            THEN Release("VmShutdown") /\ sender' = "None"
            ELSE Return("Err") /\ UNCHANGED sender
    /\ UNCHANGED <<state, vm, memCfg, diskCfg, fetched, appVars, waiter, inbox, server, backlog,
                   guestVars, faults>>

(* Mutant: stop, too, answers with the token's outcome. *)
vm_shutdown_returns_fetched ==
    /\ pc = "VmShutdown"
    /\ \E ok \in BOOLEAN :
        /\ shutdown(ok)
        /\ state' = IF ok /\ op = "Stop" THEN "Halted" ELSE state
        /\ Return(IF ~ok THEN "Err" ELSE fetched)
    /\ UNCHANGED <<memCfg, diskCfg, fetched, appVars>>

(* vm_manager.shutdown of stop and of a fetch from Halted. *)
vm_shutdown ==
    /\ pc = "VmShutdown"
    /\ \E ok \in BOOLEAN :
        /\ shutdown(ok)
        /\ state' = IF ok /\ op = "Stop" THEN "Halted" ELSE state
        /\ Return(IF ~ok THEN "Err" ELSE IF op = "Stop" THEN "Ok" ELSE fetched)
    /\ UNCHANGED <<memCfg, diskCfg, fetched, appVars>>

(* update_application: refused while Provisioning and for an application    *)
(* that is not there; the application is that of the other command, or not. *)
update_application ==
    /\ Issue("Update")
    /\ \/ result' = "Err" /\ UNCHANGED pc
       \/ /\ state # "Provisioning" /\ memCfg <= MaxUpdates
          /\ result' = "None" /\ pc' \in {"Update", "UpdateOther"}
    /\ UNCHANGED <<state, vm, memCfg, diskCfg, fetched, appVars, clientLock, linkVars, guestVars,
                   streamVars, faults, seen>>

(* Mutant: an update of a running realm does not ask for a reboot. *)
update_config_no_reboot ==
    /\ pc \in {"Update", "UpdateOther"} /\ (pc = "Update" => ~AppLocked)
    /\ memCfg' = memCfg + 1 /\ diskCfg' = memCfg' /\ Return("Ok")
    /\ UNCHANGED <<state, vm, fetched, appVars, linkVars, guestVars, streamVars, faults, seen>>

(* update_config, under the application's mutex, changes the configuration  *)
(* in memory before it saves it, and only a successful save asks for a      *)
(* reboot.                                                                  *)
update_config ==
    /\ pc \in {"Update", "UpdateOther"} /\ (pc = "Update" => ~AppLocked)
    /\ memCfg' = memCfg + 1
    /\ \/ /\ diskCfg' = memCfg' /\ Return("Ok")
          /\ state' = IF state = "Running" THEN "NeedReboot" ELSE state
          /\ UNCHANGED faults
       \/ Fault /\ Return("Err") /\ UNCHANGED <<state, diskCfg>>
    /\ UNCHANGED <<vm, fetched, appVars, linkVars, guestVars, streamVars, seen>>

(* create_application: one more application, its config saved before it is  *)
(* entered in the map.                                                      *)
create_application ==
    /\ Issue("CreateApp") /\ UNCHANGED <<pc, fetched, clientLock>>
    /\ \/ /\ state # "Halted"
          /\ result' = "Err" /\ UNCHANGED <<memCfg, diskCfg, faults>>
       \/ /\ state = "Halted" /\ memCfg <= MaxUpdates
          /\ memCfg' = memCfg + 1 /\ diskCfg' = memCfg' /\ result' = "Ok" /\ UNCHANGED faults
       \/ /\ state = "Halted" /\ Fault
          /\ result' = "Err" /\ UNCHANGED <<memCfg, diskCfg>>
    /\ UNCHANGED <<state, vm, appVars, linkVars, guestVars, streamVars, seen>>

(* Mutant: the manager is dropped without a shutdown of its VM. *)
destroy_without_shutdown ==
    /\ Issue("Destroy") /\ UNCHANGED <<pc, fetched, clientLock>>
    /\ state = "Halted"
    /\ state' = "Destroyed" /\ result' = "Ok"
    /\ UNCHANGED <<memCfg, diskCfg, appVars, vm, guestVars, linkVars, streamVars, faults, seen>>

(* destroy, called by destroy_realm for a Halted realm no client works on:  *)
(* the result of shutdown is ignored and the manager dropped.               *)
destroy ==
    /\ Issue("Destroy") /\ UNCHANGED <<pc, fetched, clientLock>>
    /\ state = "Halted"
    /\ state' = "Destroyed" /\ result' = "Ok"
    /\ \E ok \in BOOLEAN : shutdown(ok)
    /\ UNCHANGED <<memCfg, diskCfg, appVars>>
-------------------------------------------------------------------------------
(* ApplicationManager: StartApplication and StopApplication.                *)

(* get_application, under the realm's mutex ... *)
begin_app(o) ==
    /\ appPc = "Idle" /\ pc = "Idle" /\ Active
    /\ commands < MaxCommands
    /\ commands' = commands + 1
    /\ appOp' = o /\ appPc' = "Wait" /\ appResult' = "None"
    /\ UNCHANGED <<state, vm, memCfg, diskCfg, op, pc, result, fetched, clientLock, linkVars,
                   guestVars, streamVars, faults, seen>>

(* ... then the application's own, without it ... *)
app_lock ==
    /\ appPc = "Wait" /\ appPc' = "Lock"
    /\ UNCHANGED <<realmVars, vm, appOp, appResult, clientLock, linkVars, guestVars, streamVars, faults, seen>>

(* Mutant: the application manager does not wait for the client handler. *)
app_lock_client_unguarded ==
    /\ appPc = "Lock"
    /\ clientLock' = "App" /\ appPc' = "Send"
    /\ UNCHANGED <<realmVars, vm, appOp, appResult, linkVars, guestVars, streamVars, faults, seen>>

(* ... and the client handler's. *)
app_lock_client ==
    /\ appPc = "Lock" /\ clientLock = "None"
    /\ clientLock' = "App" /\ appPc' = "Send"
    /\ UNCHANGED <<realmVars, vm, appOp, appResult, linkVars, guestVars, streamVars, faults, seen>>

(* Mutant: a failed application command keeps the client handler locked. *)
AppReturn_leaks_lock(r) ==
    appPc' = "Idle" /\ appResult' = r /\ clientLock' = IF r = "Ok" THEN "None" ELSE clientLock

AppReturn(r) == appPc' = "Idle" /\ appResult' = r /\ clientLock' = "None"

AppGoto(next) == appPc' = next /\ UNCHANGED <<appResult, clientLock>>

(* start_application, stop_application and kill_application: send ... *)
app_send ==
    /\ appPc \in {"Send", "SendKill"}
    /\ \E sent \in BOOLEAN :
        /\ send_command(IF appPc = "SendKill" THEN "KillApp" ELSE appOp, sent)
        /\ IF sent THEN AppGoto(IF appPc = "Send" THEN "Recv" ELSE "RecvKill") ELSE AppReturn("Err")
    /\ UNCHANGED <<realmVars, vm, appOp, linkVars, guestVars, faults, seen>>

(* ... and their response: a stop the realm refuses becomes a kill, a stop  *)
(* it does not answer is an error.                                          *)
app_recv ==
    /\ appPc \in {"Recv", "RecvKill"}
    /\ \E out \in Outcomes :
        /\ read_response(IF appPc = "RecvKill" THEN "KillApp" ELSE appOp, out)
        /\ IF out = "Invalid" /\ appPc = "Recv" /\ appOp = "StopApp"
            THEN AppGoto("SendKill")
            ELSE AppReturn(IF out = "Ok" THEN "Ok" ELSE "Err")
    /\ UNCHANGED <<realmVars, vm, appOp, linkVars, guestVars, faults>>
-------------------------------------------------------------------------------
(* The realm's side and the listener.                                       *)

(* Manager::new in the realm connects to the host; the listener has room    *)
(* for one connection of the realm at a time.                               *)
guest_connect ==
    /\ guest = "Booting" /\ backlog = "None" /\ server = "Listening"
    /\ guest' = "Up" /\ backlog' = "Live"
    /\ UNCHANGED <<realmVars, vm, appVars, clientLock, sender, waiter, inbox, server, guestCfg,
                   streamVars, faults, seen>>

(* listen and handle_accept: a connection nobody waits for, or whose waiter *)
(* dropped its receiver, is an error that ends the listener.                *)
handle_accept ==
    /\ backlog # "None" /\ server = "Listening"
    /\ backlog' = "None" /\ waiter' = "None"
    /\ \/ /\ waiter = "Open"
          /\ inbox' = backlog
          /\ UNCHANGED <<server, seen>>
       \/ /\ waiter # "Open"
          /\ server' = "Ended"
          /\ seen' = IF pc \in {"Lock", "Config", "Register"} THEN seen \cup {"Outran"} ELSE seen
          /\ UNCHANGED inbox
    /\ UNCHANGED <<realmVars, vm, appVars, clientLock, sender, guestVars, streamVars, faults>>

(* The VM process ends: the guest powered off or died. *)
VmExits ==
    /\ vm' = "Exited" /\ guest' = "Off" /\ guestCfg' = 0
    /\ Sever

(* Manager::handle_request: any request may be answered by an error; only a *)
(* successful power action has no response.                                 *)
handle_request ==
    /\ guest = "Up" /\ requests # <<>>
    /\ LET r == Head(requests)
           respond(resp) == /\ replies' = Append(replies, [to |-> r.req, resp |-> resp])
                            /\ requests' = Tail(requests)
                            /\ UNCHANGED <<vm, guest, linkVars>>
       IN \/ respond("Error") /\ UNCHANGED guestCfg
          \/ /\ r.req \notin {"Shutdown", "Reboot"}
             /\ respond(Expected(r.req))
             /\ guestCfg' = IF r.req = "ProvisionInfo" THEN r.cfg ELSE guestCfg
          \/ r.req = "Shutdown" /\ VmExits
          \/ /\ r.req = "Reboot"
             /\ guest' = "Booting" /\ guestCfg' = 0
             /\ Sever /\ UNCHANGED vm
    /\ UNCHANGED <<realmVars, appVars, clientLock, faults, seen>>

(* Manager::handle_events when the host dropped the connection: the realm   *)
(* powers itself off.                                                       *)
guest_orphaned ==
    /\ guest = "Up" /\ "Live" \notin {sender, inbox, backlog}
    /\ VmExits
    /\ UNCHANGED <<realmVars, appVars, clientLock, faults, seen>>

(* The VM process dies. *)
vm_dies ==
    /\ vm = "Launched" /\ Fault
    /\ VmExits
    /\ UNCHANGED <<realmVars, appVars, clientLock, seen>>
-------------------------------------------------------------------------------
RealmStep ==
    \/ prepare_applications \/ launch_realm \/ create_provisioning_config \/ reboot_realm
    \/ acquire_realm_sender \/ try_connect \/ send_request \/ recv_response \/ update_config
    \/ handle_start_response \/ send_shutdown \/ handle_shutdown_response \/ vm_shutdown

AppStep == app_lock \/ app_send \/ app_recv

RealmCommand ==
    \/ \E o \in {"Start", "Stop", "Reboot", "Fetch", "GetData"} : begin_command(o)
    \/ update_application \/ create_application \/ destroy
    \/ \E o \in {"StartApp", "StopApp"} : begin_app(o)

Environment ==
    guest_connect \/ handle_accept \/ handle_request \/ guest_orphaned \/ vm_dies

Next == RealmCommand \/ lock_client \/ RealmStep \/ app_lock_client \/ AppStep \/ Environment

(* The runtime polls every ready task, reads and the wait for a connection  *)
(* have a timeout, and tokio's mutex is handed over in order of arrival.    *)
(* The host's own operations (a write to the stream, a tool run on a disk,  *)
(* the end of a killed process) have no timeout and are taken to end. The   *)
(* mutexes have none either: a step that awaits one is not enabled while it *)
(* is held, and nothing here presumes that it is ever released. No fault is *)
(* relied upon.                                                             *)
Fairness ==
    /\ WF_vars(RealmStep /\ faults' = faults) /\ WF_vars(AppStep)
    /\ SF_vars(lock_client) /\ SF_vars(app_lock_client)

Spec == Init /\ [][Next]_vars /\ Fairness
-------------------------------------------------------------------------------
RequestRecords == [req : Requests, cfg : 0..(MaxUpdates + 1)]
ReplyRecords == [to : Requests, resp : Responses]

StreamTypes == requests \in Seq(RequestRecords) /\ replies \in Seq(ReplyRecords)

ControlTypes ==
    /\ state \in States /\ vm \in VmStates
    /\ memCfg \in 1..(MaxUpdates + 1) /\ diskCfg \in 1..(MaxUpdates + 1)
    /\ op \in RealmOps /\ pc \in RealmPcs
    /\ result \in {"None", "Ok", "Err"} /\ fetched \in {"None", "Ok", "Err"}
    /\ pc = "Idle" /\ result = "None" => op = "None"
    /\ appOp \in AppOps /\ appPc \in AppPcs /\ appResult \in {"None", "Ok", "Err"}
    /\ clientLock \in {"None", "Realm", "App"}
    /\ sender \in Streams /\ inbox \in Streams /\ backlog \in Streams
    /\ waiter \in {"None", "Open", "Closed"} /\ server \in {"Listening", "Ended"}
    /\ guest \in {"Off", "Booting", "Up"} /\ guestCfg \in 0..(MaxUpdates + 1)
    /\ commands \in 0..MaxCommands /\ faults \in 0..MaxFaults

(* Types, and the one relation among them the rest relies on: a realm       *)
(* command that has returned left an outcome behind, so no early return of  *)
(* start, stop, reboot or fetch_attestation_token answers with nothing.     *)
TypeOK == ControlTypes /\ StreamTypes /\ seen \subseteq Events

(* The state of a realm and its VM, changed by different statements with    *)
(* awaits and early returns between them, agree: a realm that is            *)
(* Provisioning, Running or NeedReboot has a VM recorded in its VmRunner,   *)
(* and destroying a realm, whatever VM failed starts and fetches left to it *)
(* while Halted, leaves none running behind the warden's back unless        *)
(* killing it failed.                                                       *)
VmFollowsState ==
    /\ state \in {"Provisioning", "Running", "NeedReboot"} => vm # "NotLaunched"
    /\ state = "Destroyed" /\ vm = "Launched" => "KillFailed" \in seen

(* A command answers the client Ok only when its effect is there: a started *)
(* or rebooted realm is Running with its VM recorded and a stream, a        *)
(* stopped realm is Halted, and after a stop or a token fetched from a      *)
(* Halted realm neither the VM nor the stream is left behind.               *)
OkMeansDone ==
    [][ pc # "Idle" /\ pc' = "Idle" /\ result' = "Ok" =>
          /\ op \in {"Start", "Reboot"} =>
                state' = "Running" /\ vm' # "NotLaunched" /\ sender' # "None"
          /\ op = "Stop" => state' = "Halted"
          /\ op = "Stop" \/ (op = "Fetch" /\ state' = "Halted") =>
                vm' = "NotLaunched" /\ sender' = "None" ]_vars

(* The request a task waits for: the one holding the client-handler mutex. *)
Awaited ==
    IF clientLock = "Realm" /\ pc = "Recv" THEN RealmRequest
    ELSE IF clientLock = "Realm" /\ pc = "RecvShutdown" THEN "Shutdown"
    ELSE IF clientLock = "App" /\ appPc = "Recv" THEN appOp
    ELSE IF clientLock = "App" /\ appPc = "RecvKill" THEN "KillApp" ELSE "Nothing"

(* Until a read on it times out, or a reboot gives up waiting for the next  *)
(* one, a stream carries at most one request or its response, and a task    *)
(* reads only the response to its own request: the client-handler mutex     *)
(* held from send to read keeps realm commands and application commands     *)
(* apart.  After either, a later command may read what was left, such as    *)
(* the error a realm answers to Reboot; a new stream ends that.             *)
RepliesMatch ==
    Awaited # "Nothing" /\ "Unread" \notin seen =>
        /\ Len(requests) + Len(replies) <= 1
        /\ \A i \in DOMAIN replies : replies[i].to = Awaited

(* Running, as opposed to NeedReboot, tells the client that the realm runs  *)
(* the current application configs: a provisioned realm at rest in Running  *)
(* has the version in memory, unless an update failed to save.              *)
RunningMeansCurrentConfig ==
    pc = "Idle" /\ state = "Running" /\ guestCfg # 0 => guestCfg = memCfg \/ memCfg # diskCfg

(* The listener, and the daemon with it, ends on a connection only after a  *)
(* command abandoned the realm that made it (its wait timed out or its      *)
(* config failed) or the realm connected before try_connect registered.     *)
ListenerEndsOnlyOnOrphan ==
    server = "Ended" => seen \cap {"ConfigError", "GaveUp", "Outran"} # {}

(* A reboot or a start that has the client handler waits for the mutex of   *)
(* an application, whose command waits for the client handler.              *)
Crossed == pc = "Config" /\ clientLock = "Realm" /\ appPc = "Lock"

(* Every command on the realm and on an application of it returns to its    *)
(* client, whatever the realm does, unless the two cross: that is the one   *)
(* wait of a command that may never end.                                    *)
ReturnsUnlessCrossed ==
    /\ pc # "Idle" ~> pc = "Idle" \/ Crossed
    /\ appPc # "Idle" ~> appPc = "Idle" \/ Crossed

(* RealmManager implements RealmLifecycle: whatever connections, timeouts   *)
(* and faults do, the state and the VM a client sees change only along the  *)
(* steps of the abstract specification.                                     *)
Lifecycle == INSTANCE RealmLifecycle WITH held <- vm # "NotLaunched"

ImplementsLifecycle == Lifecycle!Spec

(* The tests expect of a failed start: realm_manager.rs asserts             *)
(* `start().await.is_err()` and then `state == State::Halted`.              *)
FailedStartLeavesHalted ==
    [][ op = "Start" /\ pc # "Idle" /\ pc' = "Idle" /\ result' = "Err" => state' = "Halted" ]_vars
===============================================================================
