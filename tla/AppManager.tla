------------------------------ MODULE AppManager ------------------------------
(***************************************************************************)
(* The realm's app-manager: the request loop of Manager, the installation  *)
(* of the applications in concurrent tasks, what Application::setup and    *)
(* cleanup leave behind, and the realm extensible measurement (REM).       *)
(*                                                                         *)
(* The handler of an application takes the steps of HandlerLifecycle,      *)
(* which ApplicationHandler is shown to implement.                         *)
(***************************************************************************)
EXTENDS Naturals, FiniteSets, Sequences

CONSTANTS
    Apps,          \* application uuids
    AutoStart,     \* Config.autostartall
    MaxRequests,   \* bound on the requests of the host
    MaxFaults      \* bound on the failures of devices, files, processes and the system call reboot

ASSUME ConstantsAssumption ==
    IsFiniteSet(Apps) /\ AutoStart \in BOOLEAN /\ MaxRequests \in Nat /\ MaxFaults \in Nat

VARIABLES
    mgr,        \* the await the Manager is at
    kind, app,  \* the request it handles, and its application
    reply,      \* the response to it
    list, at,   \* the applications of the last ProvisionInfo, and a position in it
    todo,       \* applications still to start or to shut down
    apps,       \* Manager.apps
    task,       \* the stage of Application::setup in every application's task
    aborted,    \* the tasks that were aborted
    devices,    \* Application.devices
    kernel,     \* the dm-crypt devices that exist for an application
    mounts,     \* the file systems that are mounted for it
    handler,    \* its ApplicationHandler
    rem,        \* what the REM was extended with
    conn,       \* whether the host is connected
    failed,     \* applications with a failure of their own
    requests, faults   \* counters for the bounds

requestVars == <<mgr, kind, app, reply>>
provisionVars == <<list, at, todo, apps, task, aborted, rem>>
diskVars == <<devices, kernel, mounts>>
bounds == <<requests, faults>>
vars == <<requestVars, provisionVars, diskVars, handler, conn, failed, bounds>>

NoApp == "none"
Partial == "partial"   \* an extension that stopped between two chunks
AllMounts == {"image", "data", "overlay"}

(* The stages of setup, each up to the next await that matters. *)
Stages == <<"image_device", "image_mount", "install", "data_device", "data_mount", "overlay", "prepare">>
InSetup(a) == \E i \in DOMAIN Stages : task[a] = Stages[i]
NextStage(s) == LET i == CHOOSE i \in DOMAIN Stages : Stages[i] = s
                IN  IF i = Len(Stages) THEN "Ok" ELSE Stages[i + 1]

(* The orders in which the host may list the applications. *)
Orders == {s \in [1..Cardinality(Apps) -> Apps] : \A i, j \in DOMAIN s : s[i] = s[j] => i = j}

Listed == {list[i] : i \in DOMAIN list}

Init ==
    /\ mgr = "Recv" /\ kind = "None" /\ app = NoApp /\ reply = "None"
    /\ list = <<>> /\ at = 1 /\ todo = {} /\ apps = {}
    /\ task = [a \in Apps |-> "None"] /\ aborted = {} /\ rem = <<>>
    /\ devices = [a \in Apps |-> <<>>] /\ kernel = [a \in Apps |-> {}] /\ mounts = [a \in Apps |-> {}]
    /\ handler = [a \in Apps |-> "Idle"] /\ conn = TRUE /\ failed = {}
    /\ requests = 0 /\ faults = 0

Fault == faults < MaxFaults /\ faults' = faults + 1

(* The realm is up, and the app-manager is running. *)
Alive == mgr \notin {"Off", "Panicked"}

Respond(r) == mgr' = "Reply" /\ reply' = r

(* A request of the host arrives. *)
Receive(k, a) ==
    /\ mgr = "Recv" /\ conn /\ requests < MaxRequests /\ requests' = requests + 1
    /\ kind' = k /\ app' = a
-------------------------------------------------------------------------------
(* Provisioning                                                             *)

(* provision refuses a second set of applications, or goes on to spawn a    *)
(* task for each.                                                           *)
provision ==
    /\ Receive("Provision", NoApp)
    /\ \/ apps # {} /\ Respond("Error") /\ UNCHANGED <<list, at>>
       \/ /\ apps = {} /\ mgr' = "Spawn" /\ at' = 1 /\ reply' = "None"
          /\ \E l \in Orders \cup {<<>>} : list' = l
    /\ UNCHANGED <<todo, apps, task, aborted, rem, diskVars, handler, conn, failed, faults>>

(* provision returns early: the JoinSet aborts what is still running, and   *)
(* drops the results nobody took.                                           *)
ProvisionFails ==
    /\ Respond("Error")
    /\ aborted' = aborted \cup {a \in Apps : InSetup(a)}
    /\ task' = [a \in Apps |-> IF task[a] \in {"Ok", "Err"} /\ a \notin apps THEN "Aborted" ELSE task[a]]

(* One task is spawned, if its launcher can be made. *)
spawn_setup ==
    /\ mgr = "Spawn"
    /\ \/ /\ at <= Len(list) /\ ~InSetup(list[at])
          /\ task' = [task EXCEPT ![list[at]] = Stages[1]] /\ at' = at + 1
          /\ devices' = [devices EXCEPT ![list[at]] = <<>>]
          /\ aborted' = aborted \ {list[at]}
          /\ UNCHANGED <<mgr, reply, faults>>
       \/ at <= Len(list) /\ ProvisionFails /\ Fault /\ UNCHANGED <<at, devices>>
       \/ at > Len(list) /\ mgr' = "Join" /\ UNCHANGED <<reply, at, task, aborted, devices, faults>>
    /\ UNCHANGED <<kind, app, list, todo, apps, rem, kernel, mounts, handler, conn, failed, requests>>

(* The next stage of a task; an aborted one stops at its next await. *)
Advance(a, stage) == task' = [task EXCEPT ![a] = IF a \in aborted THEN "Aborted" ELSE stage]

SetupFails(a) == Advance(a, "Err") /\ failed' = failed \cup {a}

(* decrypt_partition: the device must not exist yet; a failure after its    *)
(* creation leaves it in the kernel.                                        *)
decrypt_partition(a) ==
    \E part \in {"image", "data"} :
        /\ task[a] = (IF part = "image" THEN "image_device" ELSE "data_device")
        /\ \/ /\ part \notin kernel[a]
              /\ kernel' = [kernel EXCEPT ![a] = @ \cup {part}]
              /\ devices' = [devices EXCEPT ![a] = Append(@, part)]
              /\ Advance(a, NextStage(task[a])) /\ UNCHANGED <<failed, faults>>
           \/ part \in kernel[a] /\ SetupFails(a) /\ UNCHANGED <<kernel, devices, faults>>
           \/ /\ part \notin kernel[a] /\ Fault /\ SetupFails(a) /\ UNCHANGED devices
              /\ \E made \in {{}, {part}} : kernel' = [kernel EXCEPT ![a] = @ \cup made]
        /\ UNCHANGED mounts

(* try_mount_or_format_partition and mount_overlayfs. *)
mount_stage(a) ==
    /\ \/ \E fs \in AllMounts :
          /\ task[a] = (IF fs = "image" THEN "image_mount" ELSE IF fs = "data" THEN "data_mount" ELSE "overlay")
          /\ mounts' = [mounts EXCEPT ![a] = @ \cup {fs}]
          /\ Advance(a, NextStage(task[a])) /\ UNCHANGED <<failed, faults>>
       \/ /\ task[a] \in {"image_mount", "data_mount", "overlay"}
          /\ Fault /\ SetupFails(a) /\ UNCHANGED mounts
    /\ UNCHANGED <<devices, kernel>>

(* Launcher::install and Launcher::prepare. *)
launcher_stage(a) ==
    /\ task[a] \in {"install", "prepare"}
    /\ \/ Advance(a, NextStage(task[a])) /\ UNCHANGED <<failed, faults>>
       \/ Fault /\ SetupFails(a)
    /\ UNCHANGED diskVars

drop_aborted(a) ==
    /\ a \in aborted /\ InSetup(a) /\ task' = [task EXCEPT ![a] = "Aborted"]
    /\ UNCHANGED <<diskVars, failed, faults>>

setup(a) ==
    /\ Alive
    /\ decrypt_partition(a) \/ mount_stage(a) \/ launcher_stage(a) \/ drop_aborted(a)
    /\ UNCHANGED <<requestVars, list, at, todo, apps, aborted, rem, handler, conn, requests>>

(* Mutant: a task that failed is passed over, and the others are waited for. *)
join_next_skips_errors ==
    /\ mgr = "Join"
    /\ \/ \E a \in Listed \ apps :
          /\ task[a] = "Ok" /\ apps' = apps \cup {a}
          /\ UNCHANGED <<mgr, at>>
       \/ Listed \subseteq apps /\ mgr' = "Measure" /\ at' = 1 /\ UNCHANGED apps
    /\ UNCHANGED <<kind, app, reply, list, todo, task, aborted, rem, diskVars, handler, conn, failed, bounds>>

(* provision joins the tasks in the order they finish. *)
join_next ==
    /\ mgr = "Join"
    /\ \/ \E a \in Listed \ apps :
          /\ task[a] = "Ok" /\ apps' = apps \cup {a}
          /\ UNCHANGED <<mgr, reply, at, task, aborted>>
       \/ (\E a \in Listed : task[a] = "Err") /\ ProvisionFails /\ UNCHANGED <<at, apps>>
       \/ /\ Listed \subseteq apps /\ mgr' = "Measure" /\ at' = 1
          /\ UNCHANGED <<reply, apps, task, aborted>>
    /\ UNCHANGED <<kind, app, list, todo, rem, diskVars, handler, conn, failed, bounds>>

(* Mutant: the applications are measured in the order of the map. *)
extend_rem_any_order ==
    /\ mgr = "Measure"
    /\ \/ /\ at <= Len(list) /\ at' = at + 1 /\ UNCHANGED <<mgr, reply, todo, faults>>
          /\ \E a \in apps : (\A i \in DOMAIN rem : rem[i] # a) /\ rem' = Append(rem, a)
       \/ /\ at > Len(list) /\ UNCHANGED <<at, rem, faults>>
          /\ IF AutoStart THEN mgr' = "AutoStart" /\ todo' = apps /\ UNCHANGED reply
             ELSE Respond("Provisioned") /\ UNCHANGED todo
    /\ UNCHANGED <<kind, app, list, apps, task, aborted, diskVars, handler, conn, failed, requests>>

(* provision measures them in the order of the request. *)
extend_rem ==
    /\ mgr = "Measure"
    /\ \/ /\ at <= Len(list) /\ rem' = Append(rem, list[at]) /\ at' = at + 1
          /\ UNCHANGED <<mgr, reply, todo, faults>>
       \/ /\ at <= Len(list) /\ Fault /\ Respond("Error") /\ UNCHANGED <<at, todo>>
          /\ rem' \in {rem, Append(rem, Partial)}
       \/ /\ at > Len(list) /\ UNCHANGED <<at, rem, faults>>
          /\ IF AutoStart THEN mgr' = "AutoStart" /\ todo' = apps /\ UNCHANGED reply
             ELSE Respond("Provisioned") /\ UNCHANGED todo
    /\ UNCHANGED <<kind, app, list, apps, task, aborted, diskVars, handler, conn, failed, requests>>

(* ApplicationHandler::start: the process is spawned in its overlay, or not *)
(* at all.                                                                  *)
Spawn(a) == "overlay" \in mounts[a] /\ handler' = [handler EXCEPT ![a] = "Up"] /\ UNCHANGED faults
SpawnFails(a) == ("overlay" \in mounts[a] => Fault) /\ ("overlay" \notin mounts[a] => UNCHANGED faults)
                 /\ UNCHANGED handler

autostart ==
    /\ mgr = "AutoStart"
    /\ \/ \E a \in todo : Spawn(a) /\ todo' = todo \ {a} /\ UNCHANGED <<mgr, reply>>
       \/ \E a \in todo : SpawnFails(a) /\ Respond("Error") /\ UNCHANGED todo
       \/ todo = {} /\ Respond("Provisioned") /\ UNCHANGED <<todo, handler, faults>>
    /\ UNCHANGED <<kind, app, list, at, apps, task, aborted, rem, diskVars, conn, failed, requests>>
-------------------------------------------------------------------------------
(* The other requests                                                       *)

(* get_handler finds no such application. *)
NotFound(a) == a \notin apps /\ Respond("Error")

start_app(a) ==
    /\ Receive("StartApp", a)
    /\ \/ NotFound(a) /\ UNCHANGED <<handler, faults>>
       \/ a \in apps /\ Spawn(a) /\ Respond("Success")
       \/ a \in apps /\ SpawnFails(a) /\ Respond("Error")
    /\ UNCHANGED <<provisionVars, diskVars, conn, failed>>

(* StopApp and KillApp: the handler's call goes on until the process exits. *)
stop_app(a) ==
    /\ Receive("StopApp", a)
    /\ \/ NotFound(a) \/ (a \in apps /\ handler[a] \in {"Idle", "Lost"} /\ Respond("Error"))
       \/ a \in apps /\ handler[a] \in {"Up", "Exited"} /\ mgr' = "Stop" /\ reply' = "None"
    /\ UNCHANGED <<provisionVars, diskVars, handler, conn, failed, faults>>

stopped ==
    /\ mgr = "Stop"
    /\ \/ handler[app] = "Exited" /\ handler' = [handler EXCEPT ![app] = "Idle"] /\ Respond("Success")
       \/ handler[app] = "Lost" /\ Respond("Error") /\ UNCHANGED handler
    /\ UNCHANGED <<kind, app, provisionVars, diskVars, conn, failed, bounds>>

check_status(a) ==
    /\ Receive("CheckStatus", a)
    /\ \/ NotFound(a) /\ UNCHANGED handler
       \/ a \in apps /\ handler[a] = "Exited" /\ handler' = [handler EXCEPT ![a] = "Idle"] /\ Respond("Exited")
       \/ a \in apps /\ handler[a] = "Up" /\ Respond("IsRunning") /\ UNCHANGED handler
       \/ a \in apps /\ handler[a] = "Idle" /\ Respond("NotStarted") /\ UNCHANGED handler
       \/ a \in apps /\ handler[a] = "Lost" /\ Respond("Error") /\ UNCHANGED handler
    /\ UNCHANGED <<provisionVars, diskVars, conn, failed, faults>>

(* GetAttestationToken and GetIfAddrs, which change nothing, and a message  *)
(* that is no request; the read fails for good when the host is gone.       *)
read_only ==
    /\ \/ Receive("Read", NoApp) /\ (Respond("Success") \/ Respond("Error"))
       \/ mgr = "Recv" /\ ~conn /\ Respond("Error") /\ UNCHANGED <<kind, app, requests>>
    /\ UNCHANGED <<provisionVars, diskVars, handler, conn, failed, faults>>
-------------------------------------------------------------------------------
(* Power                                                                    *)

perform_reboot ==
    /\ Receive("Power", NoApp)
    /\ mgr' = "StopAll" /\ todo' = apps /\ reply' = "None"
    /\ UNCHANGED <<list, at, apps, task, aborted, rem, diskVars, handler, conn, failed, faults>>

(* Application::cleanup succeeds ... *)
Clean(a) ==
    /\ mounts[a] = AllMounts /\ handler[a] # "Lost"
    /\ mounts' = [mounts EXCEPT ![a] = {}]
    /\ devices' = [devices EXCEPT ![a] = <<>>]
    /\ kernel' = [kernel EXCEPT ![a] = {}]
    /\ UNCHANGED <<failed, faults>>

(* ... or returns at the first umount that fails, as the one of a root that *)
(* a process still uses does, or at a device that cannot be removed.        *)
CleanFails(a) ==
    /\ failed' = failed \cup {a}
    /\ \/ /\ mounts[a] # AllMounts \/ handler[a] = "Lost"
          /\ UNCHANGED <<diskVars, faults>>
       \/ /\ mounts[a] = AllMounts /\ handler[a] # "Lost" /\ Fault /\ UNCHANGED <<devices, kernel>>
          /\ \E left \in {AllMounts, {"image", "data"}, {"image"}} : mounts' = [mounts EXCEPT ![a] = left]
       \/ /\ mounts[a] = AllMounts /\ handler[a] # "Lost" /\ Fault
          /\ mounts' = [mounts EXCEPT ![a] = {}]
          /\ \E n \in 1..Len(devices[a]) :
              /\ devices' = [devices EXCEPT ![a] = SubSeq(@, 1, n - 1)]
              /\ kernel' = [kernel EXCEPT ![a] = {devices[a][i] : i \in 1..n}]

(* Mutant: shutdown_all_apps gives up at the first failure. *)
shutdown_app_stops_early(a) ==
    /\ mgr = "StopAll" /\ a \in todo /\ handler[a] # "Up"
    /\ handler' = [handler EXCEPT ![a] = IF @ = "Exited" THEN "Idle" ELSE @]
    /\ \/ Clean(a) /\ todo' = todo \ {a}
       \/ CleanFails(a) /\ todo' = {}
    /\ UNCHANGED <<requestVars, list, at, apps, task, aborted, rem, conn, requests>>

(* shutdown_all_apps: each application in turn is stopped, which takes      *)
(* until its process exits, and cleaned up; failures are only logged.       *)
shutdown_app(a) ==
    /\ mgr = "StopAll" /\ a \in todo /\ handler[a] # "Up"
    /\ todo' = todo \ {a}
    /\ handler' = [handler EXCEPT ![a] = IF @ = "Exited" THEN "Idle" ELSE @]
    /\ Clean(a) \/ CleanFails(a)
    /\ UNCHANGED <<requestVars, list, at, apps, task, aborted, rem, conn, requests>>

(* Mutant: the failure of reboot gets no response of its own. *)
reboot_without_response ==
    /\ mgr = "StopAll" /\ todo = {}
    /\ \/ mgr' = "Off" /\ UNCHANGED faults
       \/ Fault /\ mgr' = (IF kind = "SendFailed" THEN "Panicked" ELSE "Reply")
    /\ UNCHANGED <<kind, app, reply, provisionVars, diskVars, handler, conn, failed, requests>>

(* reboot returns only if it fails; handle_events does not expect that of   *)
(* the one it calls itself.                                                 *)
reboot ==
    /\ mgr = "StopAll" /\ todo = {}
    /\ \/ mgr' = "Off" /\ UNCHANGED <<reply, faults>>
       \/ Fault /\ kind # "SendFailed" /\ Respond("Error")
       \/ Fault /\ kind = "SendFailed" /\ mgr' = "Panicked" /\ UNCHANGED reply
    /\ UNCHANGED <<kind, app, provisionVars, diskVars, handler, conn, failed, requests>>

(* handle_events sends the response, or shuts the realm down. *)
send_msg ==
    /\ mgr = "Reply"
    /\ \/ conn /\ mgr' = "Recv" /\ UNCHANGED <<kind, todo>>
       \/ ~conn /\ mgr' = "StopAll" /\ kind' = "SendFailed" /\ todo' = apps
    /\ UNCHANGED <<app, reply, list, at, apps, task, aborted, rem, diskVars, handler, conn, failed, bounds>>
-------------------------------------------------------------------------------
(* HandlerLifecycle's Exit and Lose, and the host going away. *)
app_exits(a) ==
    /\ Alive /\ handler[a] = "Up" /\ handler' = [handler EXCEPT ![a] = "Exited"]
    /\ UNCHANGED <<requestVars, provisionVars, diskVars, conn, failed, bounds>>

app_lost(a) ==
    /\ Alive /\ handler[a] \in {"Up", "Exited"} /\ Fault
    /\ handler' = [handler EXCEPT ![a] = "Lost"] /\ failed' = failed \cup {a}
    /\ UNCHANGED <<requestVars, provisionVars, diskVars, conn, requests>>

disconnect ==
    /\ Alive /\ conn /\ conn' = FALSE
    /\ UNCHANGED <<requestVars, provisionVars, diskVars, handler, failed, bounds>>

Work == spawn_setup \/ join_next \/ extend_rem \/ autostart \/ stopped \/ reboot \/ send_msg
        \/ \E a \in Apps : shutdown_app(a)

Next ==
    \/ provision \/ read_only \/ perform_reboot \/ Work \/ disconnect
    \/ \E a \in Apps : start_app(a) \/ stop_app(a) \/ check_status(a) \/ setup(a) \/ app_exits(a) \/ app_lost(a)

(* Ready tasks are polled, and the realm's own devices and mounts take      *)
(* their time but not for ever. An installation awaits a registry, without  *)
(* a timeout, and a stop awaits a process: neither is presumed to end, but  *)
(* an installation that was aborted is dropped.                             *)
Fairness ==
    /\ WF_vars(Work)
    /\ \A a \in Apps : WF_vars((task[a] = "install" => a \in aborted) /\ setup(a))

Spec == Init /\ [][Next]_vars /\ Fairness
-------------------------------------------------------------------------------
(* Types, and that the Manager answers a request with a response. *)
TypeOK ==
    /\ mgr \in {"Recv", "Spawn", "Join", "Measure", "AutoStart", "Stop", "StopAll", "Reply", "Off", "Panicked"}
    /\ kind \in {"None", "Provision", "StartApp", "StopApp", "CheckStatus", "Read", "Power", "SendFailed"}
    /\ app \in Apps \cup {NoApp}
    /\ reply \in {"None", "Provisioned", "Success", "Error", "Exited", "IsRunning", "NotStarted"}
    /\ mgr = "Reply" => reply # "None"
    /\ list \in Orders \cup {<<>>} /\ at \in 1..Cardinality(Apps) + 1
    /\ todo \subseteq apps /\ apps \subseteq Apps /\ aborted \subseteq Apps /\ failed \subseteq Apps
    /\ task \in [Apps -> {Stages[i] : i \in DOMAIN Stages} \cup {"None", "Ok", "Err", "Aborted"}]
    /\ devices \in [Apps -> {<<>>, <<"image">>, <<"data">>, <<"image", "data">>}]
    /\ kernel \in [Apps -> SUBSET {"image", "data"}] /\ mounts \in [Apps -> SUBSET AllMounts]
    /\ handler \in [Apps -> {"Idle", "Up", "Exited", "Lost"}] /\ conn \in BOOLEAN
    /\ requests \in 0..MaxRequests /\ faults \in 0..MaxFaults

(* The REM is extended in the order of the provisioning request, whatever   *)
(* order the concurrent installations finish in, and a provisioning that    *)
(* succeeds has installed and measured every application of the request.    *)
RemFollowsRequest ==
    /\ \A i \in DOMAIN rem : rem[i] # Partial => rem[i] = list[i]
    /\ reply = "Provisioned" => rem = list /\ apps = Listed

(* The failure of one application keeps no other from being unmounted and   *)
(* its devices removed before the realm goes down, nor before the           *)
(* unreachable!() that is reached when the reboot system call fails.        *)
OthersAreCleanedUp ==
    mgr \in {"Off", "Panicked"} => \A a \in apps \ failed : mounts[a] = {} /\ kernel[a] = {} /\ handler[a] = "Idle"

(* What the requests depend on outside of the app-manager: the registries   *)
(* answer, so that no installation goes on for ever ...                     *)
RegistriesAnswer == \A a \in Apps : []<>(task[a] # "install")

(* ... and an application that is stopped exits.                            *)
Stopping(a) == (mgr = "Stop" /\ app = a) \/ (mgr = "StopAll" /\ a \in todo)
AppsExit == \A a \in Apps : []<>~(Stopping(a) /\ handler[a] = "Up")

(* If the registries answer and the applications exit when they are told    *)
(* to, every request is answered or ends in the realm going down: nothing   *)
(* else keeps the request loop waiting for ever. A registry that accepts a  *)
(* connection and stays silent, or an application that ignores the signal,  *)
(* does: neither await has a timeout.                                       *)
EveryRequestAnswered ==
    RegistriesAnswer /\ AppsExit => (mgr # "Recv" ~> mgr \in {"Recv", "Off", "Panicked"})

(* "shutdown | Shutdown the applications and then the realm": no            *)
(* application's process runs when the realm goes down.                     *)
ShutdownStopsApps == mgr = "Off" => \A a \in Apps : handler[a] \notin {"Up", "Lost"}

===============================================================================
