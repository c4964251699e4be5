-------------------------- MODULE RealmManagerProofs --------------------------
(***************************************************************************)
(* Theorems about RealmManager for every value of its bounds: its types,   *)
(* that its state and its VM agree and that it implements RealmLifecycle;  *)
(* and about its connection to the realm: responses reach their requests,  *)
(* Running means the current configuration, Ok means done, and what ends   *)
(* the listener.                                                           *)
(***************************************************************************)
EXTENDS RealmManager, SequenceTheorems, TLAPS

(* Which commands can be at an await. *)
PcOp ==
    /\ pc \in {"Prepare", "Launch"} => op \in {"Start", "Fetch"}
    /\ pc \in {"Lock", "Send", "Recv"} => op \in {"Start", "Reboot", "Fetch", "GetData"}
    /\ pc = "Config" => op \in {"Start", "Reboot"}
    /\ pc = "SendReboot" => op = "Reboot"
    /\ pc \in {"Register", "Connect"} => op \in {"Start", "Reboot", "Fetch"}
    /\ pc = "StartFailed" => op = "Start"
    /\ pc \in {"LockShutdown", "SendShutdown", "RecvShutdown", "VmShutdown"} => op \in {"Stop", "Fetch"}
    /\ pc \in {"Update", "UpdateOther"} => op = "Update"
    /\ appPc # "Idle" => appOp \in {"StartApp", "StopApp"}

(* The state of the realm during a command: what the check at its start     *)
(* established stays true, since the command holds the realm's mutex.       *)
PcState ==
    /\ pc \in {"Prepare", "Launch"} => state = "Halted"
    /\ pc \notin {"Idle", "Prepare", "Launch"} =>
        /\ op = "Start" => state = "Provisioning"
        /\ op \in {"Stop", "Reboot", "GetData"} => Active
        /\ op = "Fetch" => state = "Halted" \/ (Active /\ pc \in {"Lock", "Send", "Recv"})
    /\ op = "Fetch" /\ pc \in {"LockShutdown", "SendShutdown", "RecvShutdown", "VmShutdown"} =>
        fetched # "None"
    /\ pc \in {"Update", "UpdateOther"} => state # "Provisioning" /\ memCfg <= MaxUpdates
    /\ state = "Destroyed" => pc = "Idle"

(* A system runs only in a VM process the warden has not reaped. *)
GuestNeedsVm == guest # "Off" => vm = "Launched"

ActiveRealmHasVm == state \in {"Provisioning", "Running", "NeedReboot"} => vm # "NotLaunched"

(* A VM that outlives its realm is one that could not be killed. *)
KilledWithRealm == state = "Destroyed" /\ vm = "Launched" => "KillFailed" \in seen

ControlInv == ControlTypes /\ PcOp /\ PcState /\ GuestNeedsVm /\ ActiveRealmHasVm

IInv == ControlInv /\ StreamTypes /\ KilledWithRealm /\ seen \subseteq Events

USE DEF States, VmStates, RealmOps, RealmPcs, AppOps, AppPcs, Streams, Requests, Responses, Events,
        realmVars, appVars, linkVars, guestVars, streamVars, Active

(* RealmManager::new, VmRunner::new and RealmClientHandler::new establish   *)
(* the invariant.                                                           *)
LEMMA InitIInv == Init => IInv
  BY BoundsAssumption
  DEF Init, IInv, ControlInv, ControlTypes, StreamTypes, PcOp, PcState, GuestNeedsVm, ActiveRealmHasVm,
      KilledWithRealm

(* What is taken off a stream is a request or a response, and the version a *)
(* provisioning request carries is a version of the configs.                *)
LEMMA HeadRequest == ASSUME StreamTypes, requests # <<>>
                     PROVE  Head(requests) \in RequestRecords /\ Tail(requests) \in Seq(RequestRecords)
  BY DEF StreamTypes

(* What read_response leaves on the stream are responses. *)
LEMMA TailReplies == ASSUME StreamTypes, replies # <<>>
                     PROVE  Tail(replies) \in Seq(ReplyRecords)
  BY DEF StreamTypes

(* The control part is preserved: no step needs to know what is on the      *)
(* streams, except that a provisioned realm has a version of the configs.   *)
LEMMA ControlStep == ControlInv /\ StreamTypes /\ [Next]_vars => ControlInv'
  <1> SUFFICES ASSUME ControlInv, StreamTypes, [Next]_vars PROVE ControlInv'
      BY Zenon
  <1> USE BoundsAssumption DEF ControlInv, ControlTypes, PcOp, PcState, GuestNeedsVm, ActiveRealmHasVm
  <1>1. CASE UNCHANGED vars
      BY <1>1 DEF vars
  <1>2. ASSUME NEW o \in {"Start", "Stop", "Reboot", "Fetch", "GetData"}, begin_command(o)
        PROVE  ControlInv'
      BY <1>2 DEF begin_command, Issue, Permitted, FirstPc
  <1>3. CASE update_application
      BY <1>3 DEF update_application, Issue
  <1>4. CASE create_application
      BY <1>4 DEF create_application, Issue, Fault
  <1>5. CASE destroy
      BY <1>5 DEF destroy, Issue, shutdown, Fault, Sever, Cut
  <1>6. ASSUME NEW o \in {"StartApp", "StopApp"}, begin_app(o)
        PROVE  ControlInv'
      BY <1>6 DEF begin_app
  <1>7. CASE lock_client
      BY <1>7 DEF lock_client, AfterLock
  <1>8. CASE prepare_applications
      BY <1>8 DEF prepare_applications, update_config, Goto, Return, Fault
  <1>9. CASE launch_realm
      BY <1>9 DEF launch_realm, launch_vm, VmHandler, Goto, Return, Fault
  <1>10. CASE create_provisioning_config
      BY <1>10 DEF create_provisioning_config, Goto, Return, Fault
  <1>11. CASE reboot_realm
      BY <1>11 DEF reboot_realm, send_command, Goto, Return
  <1>12. CASE acquire_realm_sender
      BY <1>12 DEF acquire_realm_sender, Goto
  <1>13. CASE try_connect
      BY <1>13 DEF try_connect, ConnectFailed, Goto, Return, Release
  <1>14. CASE send_request
      BY <1>14 DEF send_request, send_command, Answered, Goto, Return, Release
  <1>15. CASE recv_response
      BY <1>15 DEF recv_response, Answered, Return, Release, Outcomes
  <1>16. CASE handle_start_response
      BY <1>16 DEF handle_start_response, get_status, shutdown, Return, Fault, Sever, Cut
  <1>17. CASE send_shutdown
      BY <1>17 DEF send_shutdown, send_command, Goto, Return
  <1>18. CASE handle_shutdown_response
      BY <1>18 DEF handle_shutdown_response, Return, Release, Outcomes
  <1>19. CASE vm_shutdown
      BY <1>19 DEF vm_shutdown, shutdown, Return, Fault, Sever, Cut
  <1>20. CASE app_lock \/ app_lock_client
      BY <1>20 DEF app_lock, app_lock_client
  <1>21. CASE app_send
      BY <1>21 DEF app_send, send_command, AppGoto, AppReturn
  <1>22. CASE app_recv
      BY <1>22 DEF app_recv, AppGoto, AppReturn, Outcomes
  <1>23. CASE guest_connect
      BY <1>23 DEF guest_connect
  <1>24. CASE handle_accept
      BY <1>24 DEF handle_accept
  <1>25. CASE handle_request
      BY <1>25, HeadRequest DEF RequestRecords, handle_request, VmExits, Sever, Cut
  <1>26. CASE guest_orphaned
      BY <1>26 DEF guest_orphaned, VmExits, Sever, Cut
  <1>27. CASE vm_dies
      BY <1>27 DEF vm_dies, VmExits, Fault, Sever, Cut
  <1>28. CASE update_config
      BY <1>28 DEF update_config, Return, Fault
  <1>29. QED
      BY <1>28, <1>1, <1>2, <1>3, <1>4, <1>5, <1>6, <1>7, <1>8, <1>9, <1>10, <1>11, <1>12, <1>13, <1>14, Zenon,
         <1>15, <1>16, <1>17, <1>18, <1>19, <1>20, <1>21, <1>22, <1>23, <1>24, <1>25, <1>26, <1>27
      DEF Next, RealmCommand, RealmStep, AppStep, Environment

(* What is on the streams stays well formed: requests are appended by       *)
(* send_command, handled from the head, and lost when the realm goes away.  *)
LEMMA StreamsStep == ControlInv /\ StreamTypes /\ [Next]_vars => StreamTypes'
  <1> SUFFICES ASSUME ControlInv, StreamTypes, [Next]_vars PROVE StreamTypes'
      BY Zenon
  <1> USE DEF StreamTypes
  <1>1. CASE UNCHANGED streamVars
      BY <1>1, Zenon
  <1>2. ASSUME NEW r \in Requests, NEW sent \in BOOLEAN, send_command(r, sent)
        PROVE  StreamTypes'
    <2>1. [req |-> r, cfg |-> IF r = "ProvisionInfo" THEN memCfg ELSE 0] \in RequestRecords
        BY BoundsAssumption DEF ControlInv, ControlTypes, RequestRecords
    <2>2. QED
        BY <1>2, <2>1 DEF send_command
  <1>3. ASSUME NEW r, NEW out, read_response(r, out)
        PROVE  StreamTypes'
    <2>1. CASE replies # <<>> /\ replies' = Tail(replies) /\ UNCHANGED requests
        BY <2>1, TailReplies, Zenon
    <2>2. CASE UNCHANGED streamVars
        BY <2>2, Zenon
    <2>3. QED
        BY <1>3, <2>1, <2>2, Zenon DEF read_response
  <1>4. CASE Sever
      BY <1>4 DEF Sever
  <1>5. CASE try_connect
    <2>1. CASE replies' = <<>> /\ UNCHANGED requests
        BY <2>1
    <2>2. QED
        BY <1>1, <1>5, <2>1, Zenon DEF try_connect
  <1>6. CASE handle_request
    <2>1. CASE Sever
        BY <2>1, <1>4, Zenon
    <2>2. ASSUME NEW resp \in Responses,
                 replies' = Append(replies, [to |-> Head(requests).req, resp |-> resp]),
                 requests' = Tail(requests)
          PROVE  StreamTypes'
      <3>1. [to |-> Head(requests).req, resp |-> resp] \in ReplyRecords
          BY <1>6, HeadRequest, Zenon DEF handle_request, RequestRecords, ReplyRecords
      <3>2. QED
          BY <1>6, <2>2, <3>1, HeadRequest DEF handle_request
    <2>3. Head(requests).req \notin {"Shutdown", "Reboot"} => Expected(Head(requests).req) \in Responses
        BY Zenon DEF Expected
    <2>4. QED
        BY <1>6, <2>1, <2>2, <2>3, Zenon DEF handle_request, VmExits
  <1>7. RealmRequest \in Requests
      BY Zenon DEF RealmRequest
  <1>8. CASE app_send
    <2>1. appPc = "Send" => appOp \in Requests
        BY Zenon DEF ControlInv, PcOp
    <2>2. QED
        BY <1>8, <1>2, <2>1, Zenon DEF app_send
  <1>9. CASE lock_client \/ app_lock \/ app_lock_client \/ RealmCommand
      BY <1>9, <1>1, <1>4, Zenon DEF lock_client, app_lock, app_lock_client, RealmCommand, begin_command, update_application,
         create_application, destroy, shutdown, begin_app
  <1>10. CASE RealmStep
    <2>1. CASE prepare_applications \/ update_config \/ launch_realm \/ create_provisioning_config \/ acquire_realm_sender
        BY <2>1, <1>1, Zenon DEF prepare_applications, update_config, launch_realm, create_provisioning_config, acquire_realm_sender
    <2>2. CASE reboot_realm \/ send_request \/ send_shutdown
        BY <2>2, <1>2, <1>7, Zenon DEF reboot_realm, send_request, send_shutdown
    <2>3. CASE recv_response \/ handle_shutdown_response
        BY <2>3, <1>3, Zenon DEF recv_response, handle_shutdown_response
    <2>4. CASE handle_start_response \/ vm_shutdown
        BY <2>4, <1>1, <1>4, Zenon DEF handle_start_response, vm_shutdown, shutdown
    <2>5. QED
        BY <1>10, <1>5, <2>1, <2>2, <2>3, <2>4, Zenon DEF RealmStep
  <1>11. CASE app_recv
      BY <1>11, <1>3, Zenon DEF app_recv
  <1>12. CASE Environment
      BY <1>12, <1>1, <1>4, <1>6, Zenon DEF Environment, guest_connect, handle_accept, guest_orphaned, vm_dies, VmExits
  <1>13. QED
      BY <1>1, <1>8, <1>9, <1>10, <1>11, <1>12, Zenon DEF Next, AppStep, vars

(* destroy shuts the VM down, and no command or step launches one for a     *)
(* destroyed realm.                                                         *)
LEMMA KilledStep == ControlInv /\ KilledWithRealm /\ [Next]_vars => KilledWithRealm'
  <1> SUFFICES ASSUME ControlInv, KilledWithRealm, [Next]_vars PROVE KilledWithRealm'
      BY Zenon
  <1> USE DEF ControlInv, PcState, KilledWithRealm
  <1>1. CASE UNCHANGED <<state, vm>> /\ seen \ {"Unread"} \subseteq seen'
      BY <1>1, Zenon
  <1>2. CASE state' # "Destroyed"
      BY <1>2, Zenon
  <1>3. CASE destroy
      BY <1>3, Zenon DEF destroy, shutdown
  <1>4. CASE vm_dies \/ handle_request \/ guest_orphaned
      BY <1>4, Zenon DEF vm_dies, handle_request, guest_orphaned, VmExits
  <1>5. CASE RealmCommand
      BY <1>1, <1>2, <1>3, <1>5, Zenon DEF RealmCommand, begin_command, Issue, update_application, create_application, begin_app
  <1>6. CASE RealmStep
    <2>1. state # "Destroyed"
        BY <1>6, Zenon DEF RealmStep, prepare_applications, update_config, launch_realm, create_provisioning_config, reboot_realm,
           acquire_realm_sender, try_connect, send_request, recv_response, handle_start_response, send_shutdown,
           handle_shutdown_response, vm_shutdown
    <2>2. state' # "Destroyed"
        BY <1>6, <2>1, Zenon DEF RealmStep, prepare_applications, update_config, launch_realm, create_provisioning_config, reboot_realm,
           acquire_realm_sender, try_connect, send_request, recv_response, Answered, handle_start_response,
           send_shutdown, handle_shutdown_response, vm_shutdown
    <2>3. QED
        BY <1>2, <2>2, Zenon
  <1>7. CASE lock_client \/ app_lock \/ app_lock_client \/ AppStep \/ guest_connect \/ handle_accept
      BY <1>7, Zenon DEF lock_client, app_lock, app_lock_client, AppStep, app_lock, app_send, app_recv, read_response, guest_connect, handle_accept
  <1>8. QED
      BY <1>1, <1>4, <1>5, <1>6, <1>7, Zenon DEF Next, Environment, vars

(* The history records only the events it is declared with. *)
LEMMA SeenStep == seen \subseteq Events /\ [Next]_vars => seen' \subseteq Events
  <1> SUFFICES ASSUME seen \subseteq Events, [Next]_vars PROVE seen' \subseteq Events
      BY Zenon
  <1>1. ASSUME NEW E \in SUBSET Events, seen' = seen \cup E PROVE seen' \subseteq Events
      BY <1>1, Zenon
  <1>2. CASE UNCHANGED seen
      BY <1>2, Zenon
  <1>3. ASSUME NEW r, NEW out, read_response(r, out) PROVE seen' \subseteq Events
    <2>1. {"Unread"} \in SUBSET Events
        BY Zenon
    <2>2. QED
        BY <1>1, <1>2, <1>3, <2>1, Zenon DEF read_response
  <1>4. ASSUME NEW ok, shutdown(ok) PROVE seen' \subseteq Events
    <2>1. {"KillFailed"} \in SUBSET Events
        BY Zenon
    <2>2. QED
        BY <1>1, <1>2, <1>4, <2>1, Zenon DEF shutdown
  <1>5. CASE create_provisioning_config \/ try_connect \/ handle_accept
    <2>1. /\ {"ConfigError"} \in SUBSET Events /\ {"Outran"} \in SUBSET Events
          /\ {"GaveUp"} \cup (IF op = "Reboot" THEN {"Unread"} ELSE {}) \in SUBSET Events
        BY Zenon
    <2>2. seen \ {"Unread"} \subseteq Events
        BY Zenon
    <2>3. QED
        BY <1>1, <1>2, <1>5, <2>1, <2>2, Zenon DEF create_provisioning_config, try_connect, handle_accept
  <1>6. CASE RealmCommand
      BY <1>2, <1>4, <1>6, Zenon DEF RealmCommand, begin_command, update_application, create_application, destroy, begin_app
  <1>7. CASE RealmStep
      BY <1>2, <1>3, <1>4, <1>5, <1>7, Zenon DEF RealmStep, prepare_applications, update_config, launch_realm, reboot_realm,
         acquire_realm_sender, send_request, recv_response, handle_start_response, send_shutdown,
         handle_shutdown_response, vm_shutdown
  <1>8. CASE lock_client \/ app_lock \/ app_lock_client \/ AppStep
      BY <1>2, <1>3, <1>8, Zenon DEF lock_client, app_lock, app_lock_client, AppStep, app_lock, app_send, app_recv
  <1>9. CASE Environment
      BY <1>2, <1>5, <1>9, Zenon DEF Environment, guest_connect, handle_request, guest_orphaned, vm_dies
  <1>10. QED
      BY <1>2, <1>6, <1>7, <1>8, <1>9, Zenon DEF Next, vars

-------------------------------------------------------------------------------
(* The client handler, its stream and the listener: what the tasks at their *)
(* awaits and the realm may have left on the connection.                    *)

(* Where a command holds the realm_client_handler mutex. *)
RealmLocked == {"Config", "SendReboot", "Register", "Connect", "Send", "Recv", "SendShutdown", "RecvShutdown"}

LockInv ==
    /\ clientLock = "Realm" <=> pc \in RealmLocked
    /\ clientLock = "App" <=> appPc \in {"Send", "Recv", "SendKill", "RecvKill"}

(* One connection of the realm is live at a time, the newest; requests and  *)
(* a provisioned realm are found only behind the stream of the handler.     *)
LinkInv ==
    /\ guest # "Up" => sender # "Live" /\ inbox # "Live" /\ backlog # "Live"
    /\ backlog # "None" => inbox # "Live" /\ sender # "Live"
    /\ inbox # "None" => sender # "Live"
    /\ requests # <<>> \/ guestCfg # 0 => sender = "Live"
    /\ pc \in {"Send", "Recv"} /\ op \in {"Start", "Reboot"} => sender # "None"
    /\ pc = "VmShutdown" => sender = "None"

Quiet == requests = <<>> /\ replies = <<>>

Only(req) ==
    \/ Quiet
    \/ Len(requests) = 1 /\ requests[1].req = req /\ replies = <<>>
    \/ requests = <<>> /\ Len(replies) = 1 /\ replies[1].to = req

(* Until a read times out or a reboot is given up, the stream is silent but *)
(* for what the holder of the mutex waits for, and for the answer to Reboot *)
(* that nobody reads.                                                       *)
QuietInv ==
    "Unread" \notin seen =>
        /\ Awaited = "Nothing" => Quiet \/ (op = "Reboot" /\ pc \in {"Register", "Connect"})
        /\ Awaited # "Nothing" => Only(Awaited)

(* A realm was left booting by a failed or timed out command, or connected  *)
(* before it was expected.                                                  *)
Orphaned == seen \cap {"ConfigError", "GaveUp", "Outran"} # {}

(* A command has launched the VM, and goes on to wait for its connection. *)
Fresh == pc \in {"Lock", "Config"} /\ (op = "Start" \/ (op = "Fetch" /\ state = "Halted"))

(* The realm is about to connect, or has a connection to be accepted. *)
Coming == guest = "Booting" \/ backlog # "None"

(* A realm boots while an older connection of it is not yet accepted. *)
Crowded == guest = "Booting" /\ backlog # "None"

(* A Reboot is on its way to the realm. *)
Rebooting == \E i \in DOMAIN requests : requests[i].req = "Reboot"

(* As long as no realm was abandoned or came too early, one that boots or   *)
(* connects is on its way to a command that waits for it.                   *)
OrphanInv ==
    ~Orphaned =>
        /\ server = "Listening"
        /\ Coming => Fresh \/ pc = "Register" \/ (pc = "Connect" /\ waiter = "Open")
        /\ ~Crowded
        /\ inbox # "None" => pc = "Connect" /\ waiter # "Open"
        /\ waiter = "Open" => pc = "Connect"
        /\ pc = "Connect" => waiter = "Open" \/ inbox # "None"
        /\ Rebooting => pc \in {"Register", "Connect"}

(* A version that a realm in state Running may have. *)
Fits(c) == c = 0 \/ c = memCfg \/ memCfg # diskCfg \/ state # "Running"

(* What the realm has, or is about to be provisioned with, is no older than *)
(* its state tells the client.                                              *)
CfgInv ==
    /\ diskCfg <= memCfg
    /\ Fits(guestCfg) /\ \A i \in DOMAIN requests : Fits(requests[i].cfg)
    /\ pc \in {"Send", "Recv"} /\ op \in {"Start", "Reboot"} =>
        guestCfg \in {0, memCfg} /\ \A i \in DOMAIN requests : requests[i].cfg \in {0, memCfg}

LEMMA InitLink == Init => LockInv /\ LinkInv /\ QuietInv /\ OrphanInv /\ CfgInv
  <1> SUFFICES ASSUME Init PROVE LockInv /\ LinkInv /\ QuietInv /\ OrphanInv /\ CfgInv
      BY Zenon
  <1>1. DOMAIN requests = {}
      BY DEF Init
  <1>2. diskCfg <= memCfg
      BY DEF Init
  <1> QED
      BY <1>1, <1>2, Zenon DEF Init, LockInv, RealmLocked, LinkInv, QuietInv, Quiet, Awaited, OrphanInv,
         Coming, Crowded, Rebooting, CfgInv, Fits

(* The mutex is held from the lock of the client handler to the end of the  *)
(* statement that locked it, and not one await longer.                      *)
LEMMA LockStep == ControlInv /\ LockInv /\ [Next]_vars => LockInv'
  <1> SUFFICES ASSUME ControlInv, LockInv, [Next]_vars PROVE LockInv'
      BY Zenon
  <1> USE DEF LockInv, RealmLocked
  <1>1. CASE UNCHANGED <<pc, appPc, clientLock>>
      BY <1>1, Zenon
  <1>2. CASE RealmCommand
      BY <1>1, <1>2, Zenon DEF RealmCommand, begin_command, Issue, FirstPc, update_application, create_application,
         destroy, begin_app
  <1>3. CASE lock_client \/ app_lock \/ app_lock_client
      BY <1>3, Zenon DEF lock_client, AfterLock, app_lock, app_lock_client
  <1>4. CASE prepare_applications \/ update_config \/ launch_realm \/ create_provisioning_config \/ reboot_realm
      BY <1>4, Zenon DEF prepare_applications, update_config, launch_realm, create_provisioning_config, reboot_realm, Goto, Return
  <1>5. CASE acquire_realm_sender \/ try_connect
      BY <1>5, Zenon DEF acquire_realm_sender, try_connect, ConnectFailed, Goto, Return, Release
  <1>6. CASE send_request
      BY <1>6, Zenon DEF send_request, Answered, Goto, Return, Release
  <1>7. CASE recv_response
      BY <1>7, Zenon DEF recv_response, Answered, Return, Release
  <1>8. CASE handle_start_response \/ send_shutdown \/ handle_shutdown_response \/ vm_shutdown
      BY <1>8, Zenon DEF handle_start_response, send_shutdown, handle_shutdown_response, vm_shutdown, Goto, Return, Release
  <1>9. CASE AppStep
      BY <1>9, Zenon DEF AppStep, app_lock, app_send, app_recv, AppGoto, AppReturn
  <1>10. CASE Environment
      BY <1>1, <1>10, Zenon DEF Environment, guest_connect, handle_accept, handle_request, guest_orphaned, vm_dies
  <1> QED
      BY <1>1, <1>2, <1>3, <1>4, <1>5, <1>6, <1>7, <1>8, <1>9, <1>10, Zenon DEF Next, RealmStep, vars

(* The connections and the requests on them, step by step. *)
LEMMA LinkStep == ControlInv /\ LockInv /\ LinkInv /\ [Next]_vars => LinkInv'
  <1> SUFFICES ASSUME ControlInv, LockInv, LinkInv, [Next]_vars PROVE LinkInv'
      BY Zenon
  <1> USE DEF LinkInv
  <1>1. CASE /\ UNCHANGED <<linkVars, guestVars, requests>>
             /\ pc' \in {"Send", "Recv"} /\ op' \in {"Start", "Reboot"} => pc \in {"Send", "Recv"} /\ op = op'
             /\ pc' = "VmShutdown" => pc = "VmShutdown"
      BY <1>1, Zenon
  <1>2. CASE /\ Sever /\ guest' # "Up" /\ guestCfg' = 0 /\ ((pc' = pc /\ op' = op) \/ pc' = "Idle")
      BY <1>2, Zenon DEF Sever, Cut
  <1>3. ASSUME NEW ok, shutdown(ok), pc' = "Idle" PROVE LinkInv'
      BY <1>1, <1>2, <1>3, Zenon DEF shutdown
  <1>4. ASSUME NEW r, NEW sent, send_command(r, sent), UNCHANGED <<linkVars, guestVars>>,
               /\ pc' \in {"Send", "Recv"} /\ op' \in {"Start", "Reboot"} => pc \in {"Send", "Recv"} /\ op = op'
               /\ pc' = "VmShutdown" => pc = "VmShutdown"
        PROVE  LinkInv'
      BY <1>1, <1>4, Zenon DEF send_command
  <1>5. CASE RealmCommand
      BY <1>1, <1>3, <1>5, Zenon DEF RealmCommand, begin_command, Issue, FirstPc, update_application, create_application,
         destroy, begin_app
  <1>6. CASE lock_client \/ app_lock \/ app_lock_client
      BY <1>1, <1>6, Zenon DEF lock_client, AfterLock, app_lock, app_lock_client
  <1>7. CASE prepare_applications \/ update_config \/ create_provisioning_config
      BY <1>1, <1>7, Zenon DEF prepare_applications, update_config, create_provisioning_config, Goto, Return
  <1>8. CASE launch_realm
    <2>1. CASE UNCHANGED guestVars
        BY <1>1, <1>8, <2>1, Zenon DEF launch_realm, Goto, Return
    <2>2. CASE vm = "NotLaunched" /\ guest' = "Booting" /\ guestCfg' = 0
      <3>1. guest = "Off"
          BY <2>2, Zenon DEF ControlInv, GuestNeedsVm
      <3> QED
          BY <1>8, <2>2, <3>1, Zenon DEF launch_realm, Goto, Return
    <2> QED
        BY <1>8, <2>1, <2>2, Zenon DEF launch_realm, launch_vm, VmHandler
  <1>9. CASE reboot_realm \/ send_shutdown
      BY <1>4, <1>9, Zenon DEF reboot_realm, send_shutdown, Goto, Return
  <1>10. CASE acquire_realm_sender
      BY <1>10, Zenon DEF acquire_realm_sender, Goto
  <1>11. CASE try_connect
    <2>1. CASE inbox # "None" /\ sender' = inbox /\ inbox' = "None" /\ Goto("Send") /\ UNCHANGED requests
        BY <1>11, <2>1, Zenon DEF try_connect, Goto
    <2>2. CASE inbox' = "None" /\ ConnectFailed /\ UNCHANGED <<sender, streamVars>>
        BY <1>11, <2>2, Zenon DEF try_connect, ConnectFailed, Return, Release
    <2> QED
        BY <1>11, <2>1, <2>2, Zenon DEF try_connect
  <1>12. CASE send_request
      BY <1>4, <1>12, Zenon DEF send_request, Answered, Goto, Return, Release
  <1>13. CASE recv_response
      BY <1>1, <1>13, Zenon DEF recv_response, read_response, Answered, Return, Release
  <1>14. CASE handle_start_response
      BY <1>1, <1>3, <1>14, Zenon DEF handle_start_response, Return
  <1>15. CASE handle_shutdown_response
    <2>1. CASE sender' = "None" /\ sender = "Dead"
        BY <1>15, <2>1, Zenon DEF handle_shutdown_response, read_response, Release, Return
    <2>2. CASE UNCHANGED sender /\ pc' = "Idle"
        BY <1>1, <1>15, <2>2, Zenon DEF handle_shutdown_response, read_response
    <2> QED
        BY <1>15, <2>1, <2>2, Zenon DEF handle_shutdown_response, read_response, Return
  <1>16. CASE vm_shutdown
      BY <1>3, <1>16, Zenon DEF vm_shutdown, Return
  <1>17. CASE AppStep
      BY <1>1, <1>4, <1>17, Zenon DEF AppStep, app_lock, app_send, app_recv, read_response
  <1>18. CASE guest_connect \/ handle_accept
      BY <1>18, Zenon DEF guest_connect, handle_accept, ControlInv, ControlTypes
  <1>19. CASE handle_request
    <2>1. CASE Sever /\ guest' # "Up" /\ guestCfg' = 0
        BY <1>2, <1>19, <2>1, Zenon DEF handle_request
    <2>2. CASE UNCHANGED <<guest, linkVars>>
        BY <1>19, <2>2, Zenon DEF handle_request
    <2> QED
        BY <1>19, <2>1, <2>2, Zenon DEF handle_request, VmExits
  <1>20. CASE guest_orphaned \/ vm_dies
      BY <1>2, <1>20, Zenon DEF guest_orphaned, vm_dies, VmExits
  <1>21. CASE UNCHANGED vars
      BY <1>1, <1>21, Zenon DEF vars
  <1> QED
      BY <1>5, <1>6, <1>7, <1>8, <1>9, <1>10, <1>11, <1>12, <1>13, <1>14, <1>15, <1>16, <1>17, <1>18, <1>19, <1>20,
         <1>21, Zenon DEF Next, RealmStep, Environment

(* Sequences of one element, and the elements of Append and Tail. *)
LEMMA Single ==
    ASSUME NEW S, NEW s \in Seq(S), NEW x \in S
    PROVE  /\ s = <<>> => Len(Append(s, x)) = 1 /\ Append(s, x)[1] = x
           /\ Len(s) = 1 => s # <<>> /\ Head(s) = s[1] /\ Tail(s) = <<>>
  <1>1. /\ Append(s, x) \in Seq(S) /\ Len(Append(s, x)) = Len(s) + 1
        /\ Append(s, x)[Len(s) + 1] = x
      OBVIOUS
  <1>2. s = <<>> => Len(s) = 0
      OBVIOUS
  <1>3. s = <<>> => Len(Append(s, x)) = 1 /\ Append(s, x)[1] = x
      BY <1>1, <1>2
  <1>4. ASSUME Len(s) = 1 PROVE s # <<>> /\ Head(s) = s[1] /\ Tail(s) = <<>>
    <2>1. s # <<>> /\ Head(s) = s[1]
        BY <1>4
    <2>2. Tail(s) \in Seq(S) /\ Len(Tail(s)) = 0
        BY <1>4, <2>1
    <2> QED
        BY <2>1, <2>2, EmptySeq, Zenon
  <1> QED
      BY <1>3, <1>4, Zenon

LEMMA AppendElements ==
    ASSUME NEW S, NEW s \in Seq(S), NEW x \in S
    PROVE  \A i \in DOMAIN Append(s, x) : Append(s, x)[i] = x \/ (i \in DOMAIN s /\ Append(s, x)[i] = s[i])
  OBVIOUS

LEMMA TailElements ==
    ASSUME NEW S, NEW s \in Seq(S), s # <<>>
    PROVE  /\ 1 \in DOMAIN s /\ Head(s) = s[1]
           /\ \A i \in DOMAIN Tail(s) : i + 1 \in DOMAIN s /\ Tail(s)[i] = s[i + 1]
  OBVIOUS

(* What a step that reads and writes nothing has to keep. *)
LEMMA QuietFrame ==
    ASSUME QuietInv, requests' \in {requests, <<>>}, replies' = replies, "Unread" \in seen => "Unread" \in seen',
           Awaited' = Awaited,
           Awaited = "Nothing" /\ pc \in {"Register", "Connect"} => pc' \in {"Register", "Connect"} /\ op' = op
    PROVE  QuietInv'
  <1>1. ASSUME NEW r, Only(r) PROVE Only(r)'
      BY <1>1, Zenon DEF Only, Quiet
  <1> QED
      BY <1>1, Zenon DEF QuietInv, Quiet

(* A request written to a silent stream is the only thing on it. *)
LEMMA SendQuiet ==
    ASSUME StreamTypes, ControlInv, Quiet, NEW r \in Requests, NEW sent \in BOOLEAN, send_command(r, sent)
    PROVE  Only(r)' /\ (~sent => Quiet')
  <1>1. [req |-> r, cfg |-> IF r = "ProvisionInfo" THEN memCfg ELSE 0] \in RequestRecords
      BY BoundsAssumption DEF ControlInv, ControlTypes, RequestRecords
  <1>2. [req |-> r, cfg |-> IF r = "ProvisionInfo" THEN memCfg ELSE 0].req = r
      BY Zenon
  <1>3. CASE UNCHANGED streamVars
      BY <1>3, Zenon DEF Only, Quiet
  <1>4. CASE /\ sent /\ UNCHANGED replies
             /\ requests' = Append(requests, [req |-> r, cfg |-> IF r = "ProvisionInfo" THEN memCfg ELSE 0])
    <2>1. Len(requests') = 1 /\ requests'[1] = [req |-> r, cfg |-> IF r = "ProvisionInfo" THEN memCfg ELSE 0]
        BY <1>1, <1>4, Single, Zenon DEF Quiet, StreamTypes
    <2> QED
        BY <1>2, <1>4, <2>1, Zenon DEF Only, Quiet
  <1> QED
      BY <1>3, <1>4, Zenon DEF send_command

(* A read that does not time out leaves the stream silent. *)
LEMMA ReadQuiet ==
    ASSUME StreamTypes, LinkInv, NEW r, Only(r), NEW out, read_response(r, out), "Unread" \notin seen'
    PROVE  Quiet'
  <1>1. CASE replies # <<>> /\ replies' = Tail(replies) /\ UNCHANGED requests
    <2>1. requests = <<>> /\ Len(replies) = 1
        BY <1>1, Zenon DEF Only, Quiet
    <2>2. Tail(replies) = <<>>
        BY <2>1 DEF StreamTypes
    <2> QED
        BY <1>1, <2>1, <2>2, Zenon DEF Quiet
  <1>2. CASE replies = <<>> /\ sender = "Dead" /\ UNCHANGED streamVars
      BY <1>2, Zenon DEF LinkInv, Quiet
  <1> QED
      BY <1>1, <1>2, Zenon DEF read_response

LEMMA QuietStep == IInv /\ LockInv /\ LinkInv /\ QuietInv /\ [Next]_vars => QuietInv'
  <1> SUFFICES ASSUME IInv, LockInv, LinkInv, QuietInv, [Next]_vars PROVE QuietInv'
      BY Zenon
  <1>0. ControlInv /\ StreamTypes
      BY Zenon DEF IInv
  <1> USE DEF LockInv, RealmLocked
  <1>a. RealmRequest \in Requests /\ (appPc # "Idle" => appOp \in Requests) /\ "Nothing" \notin Requests
      BY <1>0, Zenon DEF RealmRequest, ControlInv, PcOp
  <1>1. ASSUME Awaited' = "Nothing", "Unread" \notin seen' => Quiet' PROVE QuietInv'
      BY <1>1, Zenon DEF QuietInv
  <1>2. Awaited = "Nothing" /\ pc \notin {"Register", "Connect"} /\ "Unread" \notin seen => Quiet
      BY Zenon DEF QuietInv
  <1>3. Awaited # "Nothing" /\ "Unread" \notin seen => Only(Awaited)
      BY Zenon DEF QuietInv
  <1>4. ASSUME NEW ok, shutdown(ok), Awaited' = Awaited, pc \notin {"Register", "Connect"} PROVE QuietInv'
      BY <1>4, QuietFrame, Zenon DEF shutdown, Sever
  <1>5. CASE RealmCommand
    <2>1. pc \notin {"Register", "Connect"} /\ Awaited' = Awaited
        BY <1>5, Zenon DEF Awaited, RealmRequest, RealmCommand, begin_command, Issue, FirstPc, update_application,
           create_application, destroy, begin_app
    <2> QED
        BY <1>4, <1>5, <2>1, QuietFrame, Zenon DEF RealmCommand, begin_command, update_application, create_application,
           destroy, begin_app
  <1>6. CASE lock_client \/ app_lock_client
    <2>1. pc \notin {"Register", "Connect"} /\ Awaited' = Awaited
        BY <1>6, Zenon DEF Awaited, RealmRequest, lock_client, AfterLock, app_lock_client
    <2> QED
        BY <1>6, <2>1, QuietFrame, Zenon DEF lock_client, app_lock_client
  <1>7. CASE prepare_applications \/ update_config \/ launch_realm \/ create_provisioning_config
    <2>1. pc \notin {"Register", "Connect"} /\ Awaited' = Awaited
        BY <1>7, Zenon DEF Awaited, RealmRequest, prepare_applications, update_config, launch_realm, create_provisioning_config, Goto, Return
    <2> QED
        BY <1>7, <2>1, QuietFrame, Zenon DEF prepare_applications, update_config, launch_realm, create_provisioning_config
  <1>8. CASE reboot_realm
    <2>1. Awaited = "Nothing" /\ pc \notin {"Register", "Connect"} /\ Awaited' = "Nothing" /\ UNCHANGED <<op, seen>> /\ op = "Reboot"
        BY <1>0, <1>8, Zenon DEF Awaited, reboot_realm, Goto, Return, ControlInv, PcOp
    <2>2. PICK sent \in BOOLEAN : send_command("Reboot", sent) /\ (sent => pc' = "Register")
        BY <1>8, Zenon DEF reboot_realm, Goto
    <2>3. CASE sent
        BY <2>1, <2>2, <2>3, Zenon DEF QuietInv
    <2>4. CASE ~sent
        BY <1>0, <1>1, <1>2, <2>1, <2>2, <2>4, SendQuiet, Zenon
    <2> QED
        BY <2>3, <2>4, Zenon
  <1>9. CASE acquire_realm_sender
    <2>1. Awaited' = Awaited /\ pc' = "Connect" /\ op' = op
        BY <1>9, Zenon DEF Awaited, RealmRequest, acquire_realm_sender, Goto
    <2> QED
        BY <1>9, <2>1, QuietFrame, Zenon DEF acquire_realm_sender
  <1>10. CASE try_connect
    <2>1. CASE inbox # "None" /\ replies' = <<>> /\ UNCHANGED requests /\ Goto("Send")
      <3>1. Quiet'
          BY <2>1, Zenon DEF Quiet, LinkInv
      <3>2. Awaited' = "Nothing"
          BY <1>10, <2>1, Zenon DEF Awaited, Goto, try_connect
      <3> QED
          BY <1>1, <3>1, <3>2, Zenon
    <2>2. CASE "Unread" \in seen'
        BY <2>2, Zenon DEF QuietInv
    <2>3. CASE op # "Reboot" /\ ConnectFailed /\ UNCHANGED streamVars /\ ("Unread" \in seen => "Unread" \in seen')
      <3>1. Awaited = "Nothing" /\ Awaited' = "Nothing" /\ pc = "Connect"
          BY <1>10, <2>3, Zenon DEF Awaited, ConnectFailed, Return, Release, try_connect
      <3> QED
          BY <1>1, <2>3, <3>1, Zenon DEF QuietInv, Quiet
    <2> QED
        BY <1>10, <2>1, <2>2, <2>3, Zenon DEF try_connect
  <1>11. CASE send_request
    <2>1. Awaited = "Nothing" /\ pc \notin {"Register", "Connect"} /\ UNCHANGED seen
        BY <1>11, Zenon DEF Awaited, send_request
    <2>2. PICK sent \in BOOLEAN : /\ send_command(RealmRequest, sent)
                                  /\ IF sent THEN Goto("Recv") /\ UNCHANGED <<state, fetched>> ELSE Answered(FALSE)
        BY <1>11, Zenon DEF send_request
    <2>3. CASE sent
      <3>1. Awaited' = RealmRequest
          BY <1>11, <2>2, <2>3, Zenon DEF Awaited, RealmRequest, Goto, send_request
      <3> QED
          BY <1>0, <1>a, <1>2, <2>1, <2>2, <3>1, SendQuiet, Zenon DEF QuietInv
    <2>4. CASE ~sent
      <3>1. Awaited' = "Nothing"
          BY <1>11, <2>2, <2>4, Zenon DEF Awaited, Answered, Return, Release, send_request
      <3> QED
          BY <1>0, <1>a, <1>1, <1>2, <2>1, <2>2, <2>4, <3>1, SendQuiet, Zenon
    <2> QED
        BY <2>3, <2>4, Zenon
  <1>12. CASE recv_response
    <2>1. Awaited = RealmRequest /\ Awaited' = "Nothing"
        BY <1>12, Zenon DEF Awaited, recv_response, Answered, Return, Release
    <2>2. PICK out \in Outcomes : read_response(RealmRequest, out)
        BY <1>12, Zenon DEF recv_response
    <2>3. "Unread" \in seen => "Unread" \in seen'
        BY <2>2, Zenon DEF read_response
    <2> QED
        BY <1>0, <1>a, <1>1, <1>3, <2>1, <2>2, <2>3, ReadQuiet, Zenon
  <1>13. CASE handle_start_response \/ vm_shutdown
    <2>1. Awaited' = Awaited /\ pc \notin {"Register", "Connect"}
        BY <1>13, Zenon DEF Awaited, RealmRequest, handle_start_response, vm_shutdown, Return
    <2> QED
        BY <1>4, <1>13, <2>1, QuietFrame, Zenon DEF handle_start_response, vm_shutdown
  <1>14. CASE send_shutdown
    <2>1. Awaited = "Nothing" /\ pc \notin {"Register", "Connect"} /\ UNCHANGED seen
        BY <1>14, Zenon DEF Awaited, send_shutdown
    <2>2. PICK sent \in BOOLEAN : send_command("Shutdown", sent) /\ IF sent THEN Goto("RecvShutdown") ELSE Return("Err")
        BY <1>14, Zenon DEF send_shutdown
    <2>3. CASE sent
      <3>1. Awaited' = "Shutdown"
          BY <1>14, <2>2, <2>3, Zenon DEF Awaited, Goto, send_shutdown
      <3> QED
          BY <1>0, <1>2, <2>1, <2>2, <3>1, SendQuiet, Zenon DEF QuietInv
    <2>4. CASE ~sent
      <3>1. Awaited' = "Nothing"
          BY <1>14, <2>2, <2>4, Zenon DEF Awaited, Return, send_shutdown
      <3> QED
          BY <1>0, <1>1, <1>2, <2>1, <2>2, <2>4, <3>1, SendQuiet, Zenon
    <2> QED
        BY <2>3, <2>4, Zenon
  <1>15. CASE handle_shutdown_response
    <2>1. Awaited = "Shutdown" /\ Awaited' = "Nothing"
        BY <1>15, Zenon DEF Awaited, handle_shutdown_response, Return, Release
    <2>2. PICK out \in Outcomes : read_response("Shutdown", out)
        BY <1>15, Zenon DEF handle_shutdown_response
    <2>3. "Unread" \in seen => "Unread" \in seen'
        BY <2>2, Zenon DEF read_response
    <2> QED
        BY <1>0, <1>1, <1>3, <2>1, <2>2, <2>3, ReadQuiet, Zenon
  <1>16. CASE app_send
    <2> DEFINE r == IF appPc = "SendKill" THEN "KillApp" ELSE appOp
    <2>1. Awaited = "Nothing" /\ pc \notin {"Register", "Connect"} /\ UNCHANGED seen /\ r \in Requests
        BY <1>16, <1>a, Zenon DEF Awaited, app_send
    <2>2. PICK sent \in BOOLEAN : /\ send_command(r, sent)
                                  /\ IF sent THEN AppGoto(IF appPc = "Send" THEN "Recv" ELSE "RecvKill") ELSE AppReturn("Err")
        BY <1>16, Zenon DEF app_send
    <2>3. CASE sent
      <3>1. Awaited' = r
          BY <1>16, <2>2, <2>3, Zenon DEF Awaited, AppGoto, app_send
      <3> HIDE DEF r
      <3> QED
          BY <1>0, <1>a, <1>2, <2>1, <2>2, <3>1, SendQuiet, Zenon DEF QuietInv
    <2>4. CASE ~sent
      <3>1. Awaited' = "Nothing"
          BY <1>16, <2>2, <2>4, Zenon DEF Awaited, AppReturn, app_send
      <3> HIDE DEF r
      <3> QED
          BY <1>0, <1>1, <1>2, <2>1, <2>2, <2>4, <3>1, SendQuiet, Zenon
    <2> QED
        BY <2>3, <2>4, Zenon
  <1>17. CASE app_recv
    <2> DEFINE r == IF appPc = "RecvKill" THEN "KillApp" ELSE appOp
    <2>1. Awaited = r /\ Awaited' = "Nothing" /\ r \in Requests
        BY <1>17, <1>a, Zenon DEF Awaited, app_recv, AppGoto, AppReturn
    <2>2. PICK out \in Outcomes : read_response(r, out)
        BY <1>17, Zenon DEF app_recv
    <2> HIDE DEF r
    <2>3. "Unread" \in seen => "Unread" \in seen'
        BY <2>2, Zenon DEF read_response
    <2> QED
        BY <1>0, <1>a, <1>1, <1>3, <2>1, <2>2, <2>3, ReadQuiet, Zenon
  <1>18. CASE app_lock \/ guest_connect \/ handle_accept \/ guest_orphaned \/ vm_dies
    <2>1. Awaited' = Awaited /\ pc' = pc /\ op' = op
        BY <1>18, Zenon DEF Awaited, RealmRequest, app_lock, guest_connect, handle_accept, guest_orphaned, vm_dies
    <2> QED
        BY <1>18, <2>1, QuietFrame, Zenon DEF app_lock, guest_connect, handle_accept, guest_orphaned, vm_dies, VmExits, Sever
  <1>19. CASE handle_request
    <2>1. Awaited' = Awaited /\ UNCHANGED <<pc, op, seen>>
        BY <1>19, Zenon DEF Awaited, RealmRequest, handle_request
    <2>2. CASE Sever
        BY <2>1, <2>2, QuietFrame, Zenon DEF Sever
    <2>3. ASSUME NEW resp \in Responses,
                 replies' = Append(replies, [to |-> Head(requests).req, resp |-> resp]),
                 requests' = Tail(requests)
          PROVE  QuietInv'
      <3>1. requests # <<>>
          BY <1>19, Zenon DEF handle_request
      <3>2. CASE Awaited = "Nothing"
          BY <1>2, <2>1, <3>1, <3>2, Zenon DEF QuietInv, Quiet
      <3>3. CASE "Unread" \in seen
          BY <2>1, <3>3, Zenon DEF QuietInv
      <3>4. CASE Awaited # "Nothing" /\ "Unread" \notin seen
        <4>1. Len(requests) = 1 /\ requests[1].req = Awaited /\ replies = <<>>
            BY <1>3, <3>1, <3>4, Zenon DEF Only, Quiet
        <4>2. Head(requests) = requests[1] /\ Tail(requests) = <<>>
            BY <1>0, <3>1, <4>1, HeadRequest, Single, Zenon DEF StreamTypes
        <4>3. [to |-> Head(requests).req, resp |-> resp] \in ReplyRecords
            BY <1>0, <3>1, HeadRequest, Zenon DEF RequestRecords, ReplyRecords
        <4>4. [to |-> Head(requests).req, resp |-> resp].to = Awaited
            BY <4>1, <4>2, Zenon
        <4>5. Len(replies') = 1 /\ replies'[1] = [to |-> Head(requests).req, resp |-> resp]
            BY <1>0, <2>3, <4>1, <4>3, Single, Zenon DEF StreamTypes
        <4>6. Only(Awaited)'
            BY <2>1, <2>3, <4>2, <4>4, <4>5, Zenon DEF Only
        <4> QED
            BY <2>1, <3>4, <4>6, Zenon DEF QuietInv
      <3> QED
          BY <3>2, <3>3, <3>4, Zenon
    <2>4. Head(requests).req \notin {"Shutdown", "Reboot"} => Expected(Head(requests).req) \in Responses
        BY Zenon DEF Expected
    <2> QED
        BY <1>19, <2>2, <2>3, <2>4, Zenon DEF handle_request, VmExits
  <1>20. CASE UNCHANGED vars
    <2>1. Awaited' = Awaited
        BY <1>20, Zenon DEF vars, Awaited, RealmRequest
    <2> QED
        BY <1>20, <2>1, QuietFrame, Zenon DEF vars
  <1> QED
      BY <1>5, <1>6, <1>7, <1>8, <1>9, <1>10, <1>11, <1>12, <1>13, <1>14, <1>15, <1>16, <1>17, <1>18, <1>19, <1>20,
         Zenon DEF Next, RealmStep, AppStep, Environment

(* The requests after a step: those that were there, and at most one more   *)
(* that the step wrote.                                                     *)
LEMMA RequestsKept ==
    ASSUME StreamTypes, requests' \in {requests, <<>>} \/ (requests # <<>> /\ requests' = Tail(requests))
    PROVE  \A i \in DOMAIN requests' : \E j \in DOMAIN requests : requests'[i] = requests[j]
  <1>1. CASE requests' = requests
      BY <1>1, Zenon
  <1>2. CASE requests' = <<>>
    <2>1. DOMAIN requests' = {}
        BY <1>2
    <2> QED
        BY <2>1, Zenon
  <1>3. CASE requests # <<>> /\ requests' = Tail(requests)
      BY <1>3, TailElements, Zenon DEF StreamTypes
  <1> QED
      BY <1>1, <1>2, <1>3, Zenon

LEMMA RequestSent ==
    ASSUME StreamTypes, ControlInv, NEW r \in Requests, NEW sent, send_command(r, sent)
    PROVE  \A i \in DOMAIN requests' :
               \/ \E j \in DOMAIN requests : requests'[i] = requests[j]
               \/ requests'[i].req = r /\ requests'[i].cfg \in {0, memCfg}
  <1> DEFINE x == [req |-> r, cfg |-> IF r = "ProvisionInfo" THEN memCfg ELSE 0]
  <1>1. x \in RequestRecords
      BY BoundsAssumption DEF ControlInv, ControlTypes, RequestRecords
  <1>2. x.req = r /\ x.cfg \in {0, memCfg}
      BY Zenon
  <1>3. requests' = requests \/ requests' = Append(requests, x)
      BY Zenon DEF send_command
  <1> HIDE DEF x
  <1>4. CASE requests' = Append(requests, x)
    <2>1. \A i \in DOMAIN Append(requests, x) :
              Append(requests, x)[i] = x \/ (i \in DOMAIN requests /\ Append(requests, x)[i] = requests[i])
      <3>1. requests \in Seq(RequestRecords)
          BY Zenon DEF StreamTypes
      <3> QED
          BY <1>1, <3>1, AppendElements
    <2> QED
        BY <1>2, <1>4, <2>1, Zenon
  <1> QED
      BY <1>3, <1>4, Zenon

(* What a step that registers, accepts and boots nothing has to keep. *)
LEMMA OrphanFrame ==
    ASSUME OrphanInv, Orphaned => Orphaned', UNCHANGED <<server, waiter>>, Coming' => Coming, Crowded' => Crowded,
           Rebooting' => Rebooting,
           inbox' # "None" <=> inbox # "None", pc' = "Connect" <=> pc = "Connect", pc = "Register" => pc' = "Register",
           Fresh /\ Coming => Fresh' \/ pc' = "Register"
    PROVE  OrphanInv'
  BY Zenon DEF OrphanInv

LEMMA OrphanStep == IInv /\ LinkInv /\ OrphanInv /\ [Next]_vars => OrphanInv'
  <1> SUFFICES ASSUME IInv, LinkInv, OrphanInv, [Next]_vars PROVE OrphanInv'
      BY Zenon
  <1>0. ControlInv /\ StreamTypes
      BY Zenon DEF IInv
  <1>1. CASE Orphaned'
      BY <1>1, Zenon DEF OrphanInv
  <1>2. ASSUME \/ requests' \in {requests, <<>>}
               \/ requests # <<>> /\ requests' = Tail(requests)
               \/ \E r \in Requests \ {"Reboot"}, sent \in BOOLEAN : send_command(r, sent)
        PROVE  Rebooting' => Rebooting
    <2>1. CASE requests' \in {requests, <<>>} \/ (requests # <<>> /\ requests' = Tail(requests))
        BY <1>0, <2>1, RequestsKept, Zenon DEF Rebooting
    <2>2. ASSUME NEW r \in Requests \ {"Reboot"}, NEW sent \in BOOLEAN, send_command(r, sent) PROVE Rebooting' => Rebooting
      <3>1. r \in Requests /\ r # "Reboot"
          BY Zenon
      <3>2. \A i \in DOMAIN requests' :
                (\E j \in DOMAIN requests : requests'[i] = requests[j]) \/ requests'[i].req = r
          BY <1>0, <2>2, <3>1, RequestSent, Zenon
      <3> QED
          BY <3>1, <3>2, Zenon DEF Rebooting
    <2> QED
        BY <1>2, <2>1, <2>2, Zenon
  <1>3. ASSUME seen \ {"Unread"} \subseteq seen' PROVE Orphaned => Orphaned'
      BY <1>3, Zenon DEF Orphaned
  <1>4. ASSUME NEW ok, shutdown(ok)
        PROVE  /\ UNCHANGED <<server, waiter>> /\ seen \subseteq seen' /\ requests' \in {requests, <<>>}
               /\ (Coming' => Coming) /\ (Crowded' => Crowded)
               /\ inbox' # "None" <=> inbox # "None"
      BY <1>4, Zenon DEF shutdown, Sever, Cut, Coming, Crowded
  <1>5. CASE RealmCommand
    <2>1. /\ UNCHANGED <<server, waiter>> /\ seen \subseteq seen' /\ requests' \in {requests, <<>>}
          /\ (Coming' => Coming) /\ (Crowded' => Crowded)
          /\ inbox' # "None" <=> inbox # "None"
        BY <1>4, <1>5, Zenon DEF RealmCommand, begin_command, update_application, create_application, destroy, begin_app, Coming, Crowded
    <2>2. pc = "Idle" /\ pc' \notin {"Register", "Connect"}
        BY <1>5, Zenon DEF RealmCommand, begin_command, Issue, FirstPc, update_application, create_application, destroy, begin_app
    <2>3. Rebooting' => Rebooting
        BY <1>2, <2>1, Zenon
    <2>4. Orphaned => Orphaned'
        BY <1>3, <2>1, Zenon
    <2> QED
        BY <2>1, <2>2, <2>3, <2>4, OrphanFrame, Zenon DEF Fresh
  <1>6. CASE \/ lock_client \/ app_lock \/ app_lock_client \/ prepare_applications \/ update_config \/ create_provisioning_config
             \/ recv_response \/ handle_start_response \/ vm_shutdown \/ handle_shutdown_response \/ app_recv
    <2>1. /\ UNCHANGED <<server, waiter>> /\ seen \subseteq seen' /\ requests' \in {requests, <<>>}
          /\ (Coming' => Coming) /\ (Crowded' => Crowded)
          /\ inbox' # "None" <=> inbox # "None"
        BY <1>4, <1>6, Zenon DEF lock_client, app_lock, app_lock_client, prepare_applications, update_config, create_provisioning_config,
           recv_response, handle_start_response, vm_shutdown, handle_shutdown_response, app_recv, read_response, Coming, Crowded
    <2>2. /\ pc' = "Connect" <=> pc = "Connect"
          /\ pc = "Register" => pc' = "Register"
      <3>1. CASE lock_client \/ app_lock \/ app_lock_client \/ prepare_applications \/ update_config \/ create_provisioning_config
          BY <3>1, Zenon DEF lock_client, AfterLock, app_lock, app_lock_client, prepare_applications, update_config, create_provisioning_config,
             Goto, Return
      <3>2. CASE recv_response \/ handle_start_response \/ vm_shutdown \/ handle_shutdown_response \/ app_recv
          BY <3>2, Zenon DEF recv_response, Answered, handle_start_response, vm_shutdown, handle_shutdown_response,
             app_recv, Return, Release
      <3> QED
          BY <1>6, <3>1, <3>2, Zenon
    <2>3. Fresh => Fresh' \/ pc' = "Register" \/ Orphaned'
      <3>1. CASE lock_client \/ app_lock \/ app_lock_client
          BY <3>1, Zenon DEF Fresh, lock_client, AfterLock, app_lock, app_lock_client
      <3>2. CASE create_provisioning_config
        <4>1. CASE "ConfigError" \in seen'
            BY <4>1, Zenon DEF Orphaned
        <4>2. CASE Goto(IF op = "Start" THEN "Register" ELSE "SendReboot")
            BY <1>0, <3>2, <4>2, Zenon DEF Fresh, create_provisioning_config, Goto, ControlInv, PcOp
        <4> QED
            BY <3>2, <4>1, <4>2, Zenon DEF create_provisioning_config
      <3>3. CASE app_recv
          BY <3>3, Zenon DEF Fresh, app_recv
      <3>4. CASE prepare_applications \/ update_config \/ recv_response \/ handle_start_response \/ vm_shutdown \/ handle_shutdown_response
          BY <3>4, Zenon DEF Fresh, prepare_applications, update_config, recv_response, handle_start_response, vm_shutdown,
             handle_shutdown_response
      <3> QED
          BY <1>6, <3>1, <3>2, <3>3, <3>4, Zenon
    <2>4. Rebooting' => Rebooting
        BY <1>2, <2>1, Zenon
    <2>5. Orphaned => Orphaned'
        BY <1>3, <2>1, Zenon
    <2> QED
        BY <1>1, <2>1, <2>2, <2>3, <2>4, <2>5, OrphanFrame, Zenon
  <1>7. CASE send_request \/ send_shutdown \/ app_send
    <2>1. UNCHANGED <<linkVars, guestVars, seen>>
        BY <1>7, Zenon DEF send_request, send_shutdown, app_send
    <2>2. RealmRequest \in Requests \ {"Reboot"} /\ (appPc # "Idle" => appOp \in Requests \ {"Reboot"})
        BY <1>0, Zenon DEF RealmRequest, ControlInv, PcOp
    <2>3. Rebooting' => Rebooting
        BY <1>2, <1>7, <2>2, Zenon DEF send_request, send_shutdown, app_send
    <2>4. /\ pc' = "Connect" <=> pc = "Connect"
          /\ pc = "Register" => pc' = "Register"
          /\ Fresh => Fresh'
        BY <1>7, Zenon DEF Fresh, send_request, Answered, send_shutdown, app_send, Goto, Return, Release
    <2>5. Coming' = Coming /\ Crowded' = Crowded /\ Orphaned' = Orphaned
        BY <2>1, Zenon DEF Coming, Crowded, Orphaned
    <2> QED
        BY <2>1, <2>3, <2>4, <2>5, OrphanFrame, Zenon
  <1>8. CASE launch_realm
    <2>1. UNCHANGED <<linkVars, requests, seen>> /\ pc = "Launch" /\ pc' \notin {"Register", "Connect"}
        BY <1>8, Zenon DEF launch_realm, Goto, Return
    <2>2. (guest' = "Booting" /\ guest # "Booting") => Fresh'
        BY <1>0, <1>8, Zenon DEF launch_realm, launch_vm, VmHandler, Goto, Fresh, ControlInv, PcOp, PcState
    <2>3. Rebooting' = Rebooting /\ Orphaned' = Orphaned
        BY <2>1, Zenon DEF Rebooting, Orphaned
    <2> QED
        BY <2>1, <2>2, <2>3, Zenon DEF OrphanInv, Coming, Crowded, Fresh
  <1>9. CASE reboot_realm
    <2>1. /\ UNCHANGED <<linkVars, guestVars, seen>> /\ pc = "SendReboot"
          /\ pc' = "Register" \/ (pc' = "Idle" /\ UNCHANGED requests)
        BY <1>9, Zenon DEF reboot_realm, send_command, Goto, Return
    <2>2. Coming' = Coming /\ Crowded' = Crowded /\ Orphaned' = Orphaned /\ (pc' = "Idle" => Rebooting' = Rebooting)
        BY <2>1, Zenon DEF Coming, Crowded, Rebooting, Orphaned
    <2> QED
        BY <2>1, <2>2, Zenon DEF OrphanInv, Fresh
  <1>10. CASE acquire_realm_sender
    <2>1. /\ UNCHANGED <<sender, inbox, server, backlog, guestVars, requests, seen>>
          /\ pc = "Register" /\ pc' = "Connect" /\ waiter' = "Open"
        BY <1>10, Zenon DEF acquire_realm_sender, Goto
    <2>2. Orphaned' = Orphaned /\ Crowded' = Crowded
        BY <2>1, Zenon DEF Orphaned, Crowded
    <2> QED
        BY <2>1, <2>2, Zenon DEF OrphanInv
  <1>11. CASE try_connect
    <2>1. CASE "GaveUp" \in seen'
        BY <1>1, <2>1, Zenon DEF Orphaned
    <2>2. CASE inbox # "None" /\ inbox' = "None" /\ seen' = seen \ {"Unread"} /\ Goto("Send") /\ UNCHANGED <<waiter, requests>>
      <3>1. UNCHANGED <<server, backlog, guest>> /\ pc = "Connect" /\ pc' = "Send"
          BY <1>11, <2>2, Zenon DEF try_connect, Goto
      <3>2. requests' = <<>>
          BY <2>2, Zenon DEF LinkInv
      <3>3. DOMAIN requests' = {}
          BY <3>2
      <3>4. ~Rebooting' /\ Coming' = Coming /\ Crowded' = Crowded /\ (Orphaned => Orphaned')
          BY <1>3, <2>2, <3>1, <3>3, Zenon DEF Rebooting, Coming, Crowded
      <3> QED
          BY <2>2, <3>1, <3>4, Zenon DEF OrphanInv, Fresh
    <2> QED
        BY <1>11, <2>1, <2>2, Zenon DEF try_connect
  <1>12. CASE guest_connect \/ guest_orphaned \/ vm_dies
    <2>1. /\ UNCHANGED <<server, waiter, pc, op, state, seen>> /\ requests' \in {requests, <<>>}
          /\ (Coming' => Coming) /\ (Crowded' => Crowded)
          /\ inbox' # "None" <=> inbox # "None"
        BY <1>12, Zenon DEF guest_connect, guest_orphaned, vm_dies, VmExits, Sever, Cut, Coming, Crowded
    <2>2. Fresh' = Fresh /\ Orphaned' = Orphaned
        BY <2>1, Zenon DEF Fresh, Orphaned
    <2>3. Rebooting' => Rebooting
        BY <1>2, <2>1, Zenon
    <2> QED
        BY <2>1, <2>2, <2>3, OrphanFrame, Zenon
  <1>13. CASE handle_accept
    <2>1. /\ UNCHANGED <<realmVars, guest, requests>> /\ seen \subseteq seen'
          /\ backlog # "None" /\ backlog' = "None" /\ waiter' = "None"
        BY <1>13, Zenon DEF handle_accept
    <2>2. (Orphaned => Orphaned') /\ Rebooting' = Rebooting /\ Fresh' = Fresh /\ Coming
        BY <1>3, <2>1, Zenon DEF Rebooting, Fresh, Coming, Crowded
    <2>3. CASE waiter = "Open" /\ inbox' = backlog /\ UNCHANGED server
      <3>1. ASSUME ~Orphaned' PROVE pc = "Connect" /\ guest # "Booting" /\ server' = "Listening"
          BY <2>1, <2>2, <2>3, <3>1, Zenon DEF OrphanInv, Crowded
      <3> QED
          BY <2>1, <2>2, <2>3, <3>1, Zenon DEF OrphanInv, Coming, Crowded
    <2>4. CASE waiter # "Open" /\ seen' = IF pc \in {"Lock", "Config", "Register"} THEN seen \cup {"Outran"} ELSE seen
      <3>1. CASE pc \in {"Lock", "Config", "Register"}
          BY <1>1, <2>4, <3>1, Zenon DEF Orphaned
      <3>2. CASE pc \notin {"Lock", "Config", "Register"}
          BY <1>1, <2>2, <2>4, <3>2, Zenon DEF OrphanInv, Fresh
      <3> QED
          BY <3>1, <3>2, Zenon
    <2> QED
        BY <1>13, <2>3, <2>4, Zenon DEF handle_accept
  <1>14. CASE handle_request
    <2>1. UNCHANGED <<realmVars, seen>> /\ requests # <<>> /\ guest = "Up" /\ sender = "Live" /\ inbox = "None" /\ backlog = "None"
        BY <1>14, Zenon DEF handle_request, LinkInv
    <2>2. Fresh' = Fresh /\ Orphaned' = Orphaned
        BY <2>1, Zenon DEF Fresh, Orphaned
    <2>3. CASE UNCHANGED <<guest, linkVars>> /\ requests' = Tail(requests)
      <3>1. (Rebooting' => Rebooting) /\ (Coming' => Coming) /\ (Crowded' => Crowded)
          BY <1>2, <2>1, <2>3, Zenon DEF Coming, Crowded
      <3> QED
          BY <2>1, <2>2, <2>3, <3>1, OrphanFrame, Zenon
    <2>4. CASE VmExits
      <3>1. requests' = <<>> /\ UNCHANGED <<server, waiter, inbox, backlog>> /\ guest' = "Off"
          BY <2>1, <2>4, Zenon DEF VmExits, Sever, Cut
      <3>2. (Rebooting' => Rebooting) /\ (Coming' => Coming) /\ (Crowded' => Crowded)
          BY <1>2, <2>1, <3>1, Zenon DEF Coming, Crowded
      <3> QED
          BY <2>1, <2>2, <3>1, <3>2, OrphanFrame, Zenon
    <2>5. CASE Head(requests).req = "Reboot" /\ Sever
      <3>1. requests' = <<>> /\ UNCHANGED <<server, waiter, inbox, backlog>>
          BY <2>1, <2>5, Zenon DEF Sever, Cut
      <3>2. Rebooting
          BY <1>0, <2>1, <2>5, TailElements, Zenon DEF Rebooting, StreamTypes
      <3> QED
          BY <2>1, <2>2, <3>1, <3>2, Zenon DEF OrphanInv, Crowded
    <2> QED
        BY <1>14, <2>3, <2>4, <2>5, Zenon DEF handle_request
  <1>15. CASE UNCHANGED vars
    <2>1. UNCHANGED <<Fresh, Orphaned, Coming, Crowded, Rebooting, server, waiter, inbox, pc>>
        BY <1>15, Zenon DEF vars, Fresh, Orphaned, Coming, Crowded, Rebooting
    <2> QED
        BY <2>1, OrphanFrame, Zenon
  <1> QED
      BY <1>5, <1>6, <1>7, <1>8, <1>9, <1>10, <1>11, <1>12, <1>13, <1>14, <1>15,
         Zenon DEF Next, RealmStep, AppStep, Environment

(* What a step that changes no configuration and provisions nothing anew    *)
(* has to keep.                                                             *)
LEMMA CfgFrame ==
    ASSUME CfgInv, UNCHANGED <<memCfg, diskCfg>>, state' = state \/ state' # "Running",
           guestCfg' \in {0, guestCfg} \/ \E j \in DOMAIN requests : guestCfg' = requests[j].cfg,
           \A i \in DOMAIN requests' :
               (\E j \in DOMAIN requests : requests'[i] = requests[j]) \/ requests'[i].cfg \in {0, memCfg},
           pc' \in {"Send", "Recv"} /\ op' \in {"Start", "Reboot"} =>
               pc \in {"Send", "Recv"} /\ op \in {"Start", "Reboot"}
    PROVE  CfgInv'
  <1>1. Fits(guestCfg') /\ \A i \in DOMAIN requests' : Fits(requests'[i].cfg)
      BY Zenon DEF CfgInv, Fits
  <1> QED
      BY <1>1, Zenon DEF CfgInv, Fits

LEMMA CfgStep == IInv /\ LinkInv /\ CfgInv /\ [Next]_vars => CfgInv'
  <1> SUFFICES ASSUME IInv, LinkInv, CfgInv, [Next]_vars PROVE CfgInv'
      BY Zenon
  <1>0. ControlInv /\ StreamTypes
      BY Zenon DEF IInv
  <1> DEFINE Asked == pc \in {"Send", "Recv"} /\ op \in {"Start", "Reboot"}
  <1>1. ASSUME UNCHANGED <<memCfg, diskCfg>>, state' = state \/ state' # "Running", guestCfg' \in {0, guestCfg},
               requests' \in {requests, <<>>}, Asked' => Asked
        PROVE  CfgInv'
      BY <1>0, <1>1, RequestsKept, CfgFrame, Zenon
  <1>2. ASSUME NEW r \in Requests, NEW sent \in BOOLEAN, send_command(r, sent), UNCHANGED <<memCfg, diskCfg, state, guestCfg>>,
               Asked' => Asked
        PROVE  CfgInv'
    <2>1. \A i \in DOMAIN requests' :
              (\E j \in DOMAIN requests : requests'[i] = requests[j]) \/ requests'[i].cfg \in {0, memCfg}
        BY <1>0, <1>2, RequestSent, Zenon
    <2> QED
        BY <1>2, <2>1, CfgFrame, Zenon
  <1>3. ASSUME NEW ok, shutdown(ok)
        PROVE  guestCfg' \in {0, guestCfg} /\ requests' \in {requests, <<>>}
      BY <1>3, Zenon DEF shutdown, Sever
  <1>4. ASSUME NEW r, NEW out, read_response(r, out) PROVE UNCHANGED requests
      BY <1>4, Zenon DEF read_response
  <1>5. CASE update_config \/ create_application
    <2>1. CASE UNCHANGED <<memCfg, diskCfg, state>>
        BY <1>1, <1>5, <2>1, Zenon DEF update_config, create_application, Issue, Return
    <2>2. CASE memCfg' = memCfg + 1 /\ (diskCfg' = memCfg' \/ diskCfg' = diskCfg) /\ (state' # "Running" \/ diskCfg' = diskCfg)
      <3>1. diskCfg' <= memCfg' /\ (diskCfg' = diskCfg => memCfg' # diskCfg')
          BY <1>0, <2>2, BoundsAssumption DEF ControlInv, ControlTypes, CfgInv
      <3>2. ~Asked'
          BY <1>5, Zenon DEF update_config, create_application, Issue, Return
      <3> QED
          BY <2>2, <3>1, <3>2, Zenon DEF CfgInv, Fits
    <2>3. CASE update_config
        BY <2>2, <2>3, Zenon DEF update_config
    <2>4. CASE create_application
      <3>1. CASE state = "Halted" /\ memCfg' = memCfg + 1 /\ diskCfg' = memCfg' /\ UNCHANGED state
          BY <2>2, <3>1, Zenon
      <3> QED
          BY <2>1, <2>4, <3>1, Zenon DEF create_application
    <2> QED
        BY <1>5, <2>3, <2>4, Zenon
  <1>6. CASE RealmCommand
    <2>1. CASE destroy
      <3>1. UNCHANGED <<memCfg, diskCfg>> /\ state' # "Running" /\ pc' = "Idle" /\ \E ok \in BOOLEAN : shutdown(ok)
          BY <2>1, Zenon DEF destroy, Issue
      <3> QED
          BY <1>1, <1>3, <3>1, Zenon
    <2>2. CASE (\E o \in {"Start", "Stop", "Reboot", "Fetch", "GetData"} : begin_command(o))
               \/ update_application \/ \E o \in {"StartApp", "StopApp"} : begin_app(o)
        BY <1>1, <2>2, Zenon DEF begin_command, update_application, begin_app, Issue, FirstPc
    <2> QED
        BY <1>5, <1>6, <2>1, <2>2, Zenon DEF RealmCommand
  <1>7. CASE lock_client \/ app_lock \/ app_lock_client \/ prepare_applications \/ create_provisioning_config \/ acquire_realm_sender
      BY <1>1, <1>7, Zenon DEF lock_client, AfterLock, app_lock, app_lock_client, prepare_applications, create_provisioning_config,
         acquire_realm_sender, Goto, Return
  <1>8. CASE launch_realm
      BY <1>1, <1>8, Zenon DEF launch_realm, launch_vm, VmHandler, Goto, Return
  <1>9. CASE reboot_realm \/ send_shutdown
      BY <1>2, <1>9, Zenon DEF reboot_realm, send_shutdown, Goto, Return
  <1>10. CASE try_connect
    <2>1. CASE inbox # "None" /\ UNCHANGED requests
      <3>1. guestCfg = 0 /\ requests = <<>>
          BY <2>1, Zenon DEF LinkInv
      <3>2. DOMAIN requests = {}
          BY <3>1
      <3> QED
          BY <1>10, <2>1, <3>1, <3>2, Zenon DEF try_connect, CfgInv, Fits
    <2>2. CASE ConnectFailed /\ UNCHANGED requests
        BY <1>1, <1>10, <2>2, Zenon DEF try_connect, ConnectFailed, Return, Release
    <2> QED
        BY <1>10, <2>1, <2>2, Zenon DEF try_connect
  <1>11. CASE send_request
    <2>1. PICK sent \in BOOLEAN : send_command(RealmRequest, sent)
        BY <1>11, Zenon DEF send_request
    <2>2. UNCHANGED <<memCfg, diskCfg, guestCfg, state, op>> /\ (Asked' => Asked) /\ RealmRequest \in Requests
        BY <1>11, Zenon DEF send_request, Answered, Goto, Return, Release, RealmRequest
    <2> QED
        BY <1>2, <2>1, <2>2, Zenon
  <1>12. CASE recv_response
    <2>1. UNCHANGED <<memCfg, diskCfg, guestCfg, requests, op>> /\ pc = "Recv" /\ ~Asked'
        BY <1>4, <1>12, Zenon DEF recv_response, Answered, Return, Release
    <2>2. state' = state \/ op \in {"Start", "Reboot"}
        BY <1>12, Zenon DEF recv_response, Answered
    <2> QED
        BY <2>1, <2>2, Zenon DEF CfgInv, Fits
  <1>13. CASE handle_start_response \/ vm_shutdown
    <2>1. UNCHANGED <<memCfg, diskCfg>> /\ (state' = state \/ state' # "Running") /\ ~Asked'
        BY <1>13, Zenon DEF handle_start_response, vm_shutdown, Return
    <2>2. guestCfg' \in {0, guestCfg} /\ requests' \in {requests, <<>>}
        BY <1>3, <1>13, Zenon DEF handle_start_response, vm_shutdown
    <2> QED
        BY <1>1, <2>1, <2>2, Zenon
  <1>14. CASE handle_shutdown_response \/ app_recv
      BY <1>1, <1>4, <1>14, Zenon DEF handle_shutdown_response, app_recv, Return, Release
  <1>15. CASE app_send
    <2>1. appPc \in {"Send", "SendKill"} => appOp \in Requests
        BY <1>0, Zenon DEF ControlInv, PcOp
    <2> QED
        BY <1>2, <1>15, <2>1, Zenon DEF app_send
  <1>16. CASE guest_connect \/ handle_accept \/ guest_orphaned \/ vm_dies
      BY <1>1, <1>16, Zenon DEF guest_connect, handle_accept, guest_orphaned, vm_dies, VmExits, Sever
  <1>17. CASE handle_request
    <2>1. UNCHANGED realmVars /\ requests # <<>>
        BY <1>17, Zenon DEF handle_request
    <2>2. CASE Sever /\ guestCfg' = 0
        BY <1>1, <2>1, <2>2, Zenon DEF Sever
    <2>3. CASE requests' = Tail(requests)
      <3>1. \A i \in DOMAIN requests' : \E j \in DOMAIN requests : requests'[i] = requests[j]
          BY <1>0, <2>1, <2>3, RequestsKept, Zenon
      <3>2. 1 \in DOMAIN requests /\ Head(requests) = requests[1]
          BY <1>0, <2>1, TailElements, Zenon DEF StreamTypes
      <3>3. guestCfg' \in {0, guestCfg} \/ guestCfg' = requests[1].cfg
          BY <1>17, <3>2, Zenon DEF handle_request, VmExits
      <3> QED
          BY <2>1, <3>1, <3>2, <3>3, CfgFrame, Zenon
    <2> QED
        BY <1>17, <2>2, <2>3, Zenon DEF handle_request, VmExits
  <1>18. CASE UNCHANGED vars
      BY <1>1, <1>18, Zenon DEF vars
  <1> QED
      BY <1>5, <1>6, <1>7, <1>8, <1>9, <1>10, <1>11, <1>12, <1>13, <1>14, <1>15, <1>16, <1>17, <1>18,
         Zenon DEF Next, RealmStep, AppStep, Environment

(* The inductive invariant of a realm: where a command can be, in which     *)
(* state of the realm, and what its streams carry.                          *)
THEOREM Invariance == Spec => []IInv
  <1>1. IInv /\ [Next]_vars => IInv'
      BY ControlStep, StreamsStep, KilledStep, SeenStep, Zenon DEF IInv
  <1>2. QED
      BY <1>1, InitIInv, PTL DEF Spec

(* Every reachable state has its types, and a realm command that returned   *)
(* left an outcome for its client.                                          *)
THEOREM TypeCorrect == Spec => []TypeOK
  <1>1. IInv => TypeOK
      BY Zenon DEF IInv, ControlInv, TypeOK
  <1>2. QED
      BY <1>1, Invariance, PTL

(* A realm in use has a VM recorded, and a destroyed realm left none        *)
(* running unless it could not be killed.                                   *)
THEOREM VmAgreesWithState == Spec => []VmFollowsState
  <1>1. IInv => VmFollowsState
      BY Zenon DEF IInv, ControlInv, ActiveRealmHasVm, KilledWithRealm, VmFollowsState
  <1>2. QED
      BY <1>1, Invariance, PTL

(* The invariant of the connection, on top of the one of the realm. *)
THEOREM LinkInvariance == Spec => [](LockInv /\ LinkInv /\ QuietInv /\ OrphanInv /\ CfgInv)
  <1> DEFINE Inv == LockInv /\ LinkInv /\ QuietInv /\ OrphanInv /\ CfgInv
  <1>1. IInv /\ Inv /\ [Next]_vars => Inv'
      BY LockStep, LinkStep, QuietStep, OrphanStep, CfgStep, Zenon DEF IInv
  <1>2. Init => Inv
      BY InitLink, Zenon
  <1> HIDE DEF Inv
  <1>3. Spec => []Inv
      BY <1>1, <1>2, Invariance, PTL DEF Spec
  <1> QED
      BY <1>3, Zenon DEF Inv

(* Until a read times out or a reboot gives up waiting for the realm, a     *)
(* task reads the response to its own request: the mutex held from the send *)
(* to the read keeps realm and application commands apart, and what Reboot  *)
(* is answered goes away with its stream when the realm does reconnect.     *)
THEOREM RepliesOwn == Spec => []RepliesMatch
  <1>1. StreamTypes /\ QuietInv => RepliesMatch
    <2> SUFFICES ASSUME StreamTypes, QuietInv, Awaited # "Nothing", "Unread" \notin seen
                 PROVE  /\ Len(requests) + Len(replies) <= 1
                        /\ \A i \in DOMAIN replies : replies[i].to = Awaited
        BY Zenon DEF RepliesMatch
    <2>1. Only(Awaited)
        BY Zenon DEF QuietInv
    <2>2. /\ requests = <<>> => Len(requests) = 0
          /\ replies = <<>> => Len(replies) = 0 /\ DOMAIN replies = {}
          /\ Len(replies) = 1 => DOMAIN replies = {1}
        BY DEF StreamTypes
    <2>3. Len(requests) + Len(replies) <= 1
      <3>1. (Len(requests) = 0 /\ Len(replies) \in {0, 1}) \/ (Len(requests) = 1 /\ Len(replies) = 0)
          BY <2>1, <2>2, Zenon DEF Only, Quiet
      <3>2. \A a, b \in {0, 1} : a = 0 \/ b = 0 => a + b <= 1
          OBVIOUS
      <3> QED
          BY <3>1, <3>2, Zenon
    <2>4. \A i \in DOMAIN replies : replies[i].to = Awaited
        BY <2>1, <2>2, Zenon DEF Only, Quiet
    <2> QED
        BY <2>3, <2>4, Zenon
  <1>2. IInv /\ LockInv /\ LinkInv /\ QuietInv /\ OrphanInv /\ CfgInv => RepliesMatch
      BY <1>1, Zenon DEF IInv
  <1> QED
      BY <1>2, Invariance, LinkInvariance, PTL

(* Running is never reported of a realm that was provisioned with an older  *)
(* configuration, late requests and failed reboots included.                *)
THEOREM RunningCurrent == Spec => []RunningMeansCurrentConfig
  <1>1. LockInv /\ LinkInv /\ QuietInv /\ OrphanInv /\ CfgInv => RunningMeansCurrentConfig
      BY Zenon DEF CfgInv, Fits, RunningMeansCurrentConfig
  <1> QED
      BY <1>1, LinkInvariance, PTL

(* The listener ends only on the connection of an abandoned realm, or of    *)
(* one that outran try_connect.                                             *)
THEOREM ListenerEnds == Spec => []ListenerEndsOnlyOnOrphan
  <1>1. LockInv /\ LinkInv /\ QuietInv /\ OrphanInv /\ CfgInv => ListenerEndsOnlyOnOrphan
      BY Zenon DEF OrphanInv, Orphaned, ListenerEndsOnlyOnOrphan
  <1> QED
      BY <1>1, LinkInvariance, PTL

(* A command that answers Ok has had its effect, on the state, the VM and   *)
(* the stream.                                                              *)
THEOREM OkIsDone == Spec => OkMeansDone
  <1> DEFINE Done == pc # "Idle" /\ pc' = "Idle" /\ result' = "Ok" =>
                         /\ op \in {"Start", "Reboot"} => state' = "Running" /\ vm' # "NotLaunched" /\ sender' # "None"
                         /\ op = "Stop" => state' = "Halted"
                         /\ op = "Stop" \/ (op = "Fetch" /\ state' = "Halted") => vm' = "NotLaunched" /\ sender' = "None"
  <1>1. IInv /\ IInv' /\ LockInv /\ LinkInv /\ QuietInv /\ OrphanInv /\ CfgInv /\ [Next]_vars => [Done]_vars
    <2> SUFFICES ASSUME IInv, IInv', LinkInv, Next, pc # "Idle", pc' = "Idle", result' = "Ok" PROVE Done
        BY Zenon
    <2>1. RealmStep
        BY Zenon DEF Next, RealmCommand, begin_command, Issue, update_application, create_application, destroy, begin_app,
           lock_client, AfterLock, app_lock, app_lock_client, AppStep, app_lock, app_send, app_recv, Environment, guest_connect, handle_accept,
           handle_request, guest_orphaned, vm_dies
    <2>0. CASE update_config
        BY <2>0, Zenon DEF update_config, IInv, ControlInv, PcOp
    <2>2. recv_response \/ vm_shutdown \/ update_config
      <3>1. ~(prepare_applications \/ launch_realm \/ create_provisioning_config \/ reboot_realm \/ acquire_realm_sender)
          BY Zenon DEF prepare_applications, launch_realm, create_provisioning_config, reboot_realm, acquire_realm_sender,
             Goto, Return
      <3>2. ~(try_connect \/ send_request)
          BY Zenon DEF try_connect, ConnectFailed, send_request, Answered, Goto, Return, Release
      <3>3. ~(handle_start_response \/ send_shutdown \/ handle_shutdown_response)
          BY Zenon DEF handle_start_response, send_shutdown, handle_shutdown_response, Goto, Return, Release
      <3> QED
          BY <2>1, <3>1, <3>2, <3>3, Zenon DEF RealmStep
    <2>3. CASE recv_response
      <3>1. /\ pc = "Recv" /\ UNCHANGED <<vm, sender>>
            /\ \/ op \in {"Start", "Reboot"} /\ state' = "Running"
               \/ op = "GetData" \/ (op = "Fetch" /\ state' # "Halted")
          BY <2>3, Zenon DEF recv_response, Answered, Return, Release
      <3> QED
          BY <3>1, Zenon DEF IInv, ControlInv, ActiveRealmHasVm, LinkInv
    <2>4. CASE vm_shutdown
      <3>1. pc = "VmShutdown" /\ op \in {"Stop", "Fetch"} /\ sender = "None"
          BY <2>4, Zenon DEF vm_shutdown, LinkInv, IInv, ControlInv, PcOp
      <3>2. PICK ok \in BOOLEAN : /\ shutdown(ok) /\ Return(IF ~ok THEN "Err" ELSE IF op = "Stop" THEN "Ok" ELSE fetched)
                                  /\ state' = IF ok /\ op = "Stop" THEN "Halted" ELSE state
          BY <2>4, Zenon DEF vm_shutdown
      <3>3. ok
          BY <3>2, Zenon DEF Return
      <3>4. vm' = "NotLaunched" /\ sender' = "None"
          BY <3>1, <3>2, <3>3, Zenon DEF shutdown, Sever, Cut
      <3> QED
          BY <3>1, <3>2, <3>3, <3>4, Zenon
    <2> QED
        BY <2>0, <2>2, <2>3, <2>4, Zenon
  <1> QED
      BY <1>1, Invariance, LinkInvariance, PTL DEF Spec, OkMeansDone

(* RealmManager implements RealmLifecycle: with the invariant, every step   *)
(* changes the state and the recorded VM as one abstract step, or neither.  *)
THEOREM Refinement == Spec => ImplementsLifecycle
  <1> DEFINE held == vm # "NotLaunched"
  <1>1. Init => Lifecycle!Init
      BY Zenon DEF Init, Lifecycle!Init
  <1>2. IInv /\ [Next]_vars => [Lifecycle!Next]_<<state, held>>
    <2> SUFFICES ASSUME IInv, [Next]_vars PROVE [Lifecycle!Next]_<<state, held>>
        BY Zenon
    <2> USE DEF IInv, ControlInv, ControlTypes, PcOp, PcState, GuestNeedsVm, ActiveRealmHasVm
    <2>1. CASE UNCHANGED <<state, vm>>
        BY <2>1, Zenon
    <2>2. CASE update_config
        BY <2>2, Zenon DEF update_config, Lifecycle!Next, Lifecycle!Updated
    <2>3. CASE destroy
        BY <2>3, Zenon DEF destroy, Issue, shutdown, Lifecycle!Next, Lifecycle!Destroyed
    <2>4. CASE launch_realm
        BY <2>4, Zenon DEF launch_realm, launch_vm, VmHandler, Lifecycle!Next, Lifecycle!Launch, Lifecycle!Probe
    <2>5. CASE recv_response \/ send_request
        BY <2>5, ZenonT(60) DEF recv_response, send_request, Answered, Lifecycle!Next, Lifecycle!Acknowledged, Lifecycle!Rebooted
    <2>6. CASE handle_start_response
        BY <2>6, Zenon DEF handle_start_response, get_status, shutdown, Lifecycle!Next, Lifecycle!StartFails
    <2>7. CASE vm_shutdown
        BY <2>7, ZenonT(60) DEF vm_shutdown, shutdown, Lifecycle!Next, Lifecycle!Stopped, Lifecycle!Probe
    <2>8. CASE handle_request \/ guest_orphaned \/ vm_dies
        BY <2>8, Zenon DEF handle_request, guest_orphaned, vm_dies, VmExits
    <2>9. CASE RealmCommand
        BY <2>9, <2>1, <2>3, Zenon DEF RealmCommand, begin_command, update_application, create_application, begin_app
    <2>10. CASE RealmStep
        BY <2>10, <2>1, <2>2, <2>4, <2>5, <2>6, <2>7, ZenonT(60) DEF RealmStep, prepare_applications, create_provisioning_config,
           reboot_realm, acquire_realm_sender, try_connect, send_shutdown, handle_shutdown_response
    <2>11. CASE lock_client \/ app_lock \/ app_lock_client \/ AppStep \/ guest_connect \/ handle_accept
        BY <2>11, <2>1, Zenon DEF lock_client, app_lock, app_lock_client, AppStep, app_lock, app_send, app_recv, guest_connect, handle_accept
    <2>12. QED
        BY <2>1, <2>8, <2>9, <2>10, <2>11, Zenon DEF Next, Environment, vars
  <1>3. QED
      BY <1>1, <1>2, Invariance, PTL DEF Spec, ImplementsLifecycle, Lifecycle!Spec
===============================================================================
