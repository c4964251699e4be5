----------------------------- MODULE WardenDaemon -----------------------------
(***************************************************************************)
(* The warden daemon as its clients see it: one ClientHandler task per     *)
(* client, the WardenDaemon map of realms, and the mutexes and reference   *)
(* counts the tasks share.  What a command does to its realm is the matter *)
(* of RealmManager; here it is the locks it takes, in the order and for    *)
(* the time it holds them, and the realm's state as far as commands are    *)
(* refused by it (Running and NeedReboot are one state, "Active").         *)
(*                                                                         *)
(* Every realm of the map is an object of its own, so that a realm created *)
(* under the uuid of a destroyed one shares no lock with it.  A realm has  *)
(* one mutex, one for its client handler, and one per application.         *)
(***************************************************************************)
EXTENDS Naturals, FiniteSets

CONSTANTS
    Clients,      \* the connected clients
    Uuids,        \* realm uuids
    Apps,         \* the applications of a realm
    Commands,     \* the WardenCommands the clients use
    Nobody,       \* holder of a free mutex
    MaxRealms,    \* bound on the realms ever created
    MaxCommands   \* bound on the commands ever issued

Objects == 1..MaxRealms
NoRealm == 0

RealmCommands == {"Start", "Stop", "Reboot", "Fetch", "CreateApp", "Update"}
AppCommands == {"StartApp", "StopApp"}
WardenCommands == {"CreateRealm", "Destroy", "List", "Inspect"}

NoApp == "none"

ASSUME ConstantsAssumption ==
    /\ Nobody \notin Clients /\ NoApp \notin Apps /\ Uuids # {}
    /\ MaxRealms \in Nat /\ MaxCommands \in Nat
    /\ Commands \subseteq RealmCommands \cup AppCommands \cup WardenCommands

VARIABLES
    pc,          \* the await a client's task is at
    cmd,         \* the command it handles
    obj,         \* the realm it works on, through its Arc or the locked map
    handle,      \* the realm whose Arc it owns
    uuid,        \* the uuid of the realm it creates
    app,         \* the application of a Start/Stop/UpdateApplication
    todo,        \* applications it still has to lock in turn
    visit,       \* realms list_realms still has to inspect
    warden,      \* holder of the WardenDaemon mutex
    realmLock, clientLock, appLock,   \* holders of the mutexes of a realm
    realms,      \* WardenDaemon.realms_managers
    state,       \* RealmManager.state of every realm
    created, issued,   \* counters for the bounds
    cancelled,   \* the CancellationToken
    joined       \* the UnixSocketServer has joined all its clients

taskVars == <<pc, cmd, obj, handle, uuid, app, todo, visit>>
lockVars == <<warden, realmLock, clientLock, appLock>>
realmVars == <<realms, state, created>>
daemonVars == <<issued, cancelled, joined>>
vars == <<taskVars, lockVars, realmVars, daemonVars>>

Pcs == {"Idle", "Warden", "Create", "Realm", "Prepare", "Client", "Config", "Rpc", "Client2", "Rpc2",
        "App", "Finish", "Drop", "Remove", "AppLock", "AppClient", "AppRpc", "Exited"}
States == {"Halted", "Provisioning", "Active"}
-------------------------------------------------------------------------------
Init ==
    /\ pc = [c \in Clients |-> "Idle"] /\ cmd = [c \in Clients |-> "List"]
    /\ obj = [c \in Clients |-> NoRealm] /\ handle = [c \in Clients |-> NoRealm]
    /\ uuid = [c \in Clients |-> CHOOSE u \in Uuids : TRUE]
    /\ app = [c \in Clients |-> NoApp]
    /\ todo = [c \in Clients |-> {}] /\ visit = [c \in Clients |-> {}]
    /\ warden = Nobody
    /\ realmLock = [o \in Objects |-> Nobody] /\ clientLock = [o \in Objects |-> Nobody]
    /\ appLock = [o \in Objects |-> [a \in Apps |-> Nobody]]
    /\ realms = [u \in Uuids |-> NoRealm]
    /\ state = [o \in Objects |-> "Halted"]
    /\ created = 0 /\ issued = 0 /\ cancelled = FALSE /\ joined = FALSE

Goto(c, next) == pc' = [pc EXCEPT ![c] = next]

Registered(o) == \E u \in Uuids : realms[u] = o

(* Arc::strong_count of a realm of the map is not 1. *)
Shared(o) == \E c \in Clients : handle[c] = o

Lock(locks, o, c) == [locks EXCEPT ![o] = c]
Unlock(locks, o) == [locks EXCEPT ![o] = Nobody]
-------------------------------------------------------------------------------
(* ClientHandler                                                            *)

(* handle_client_requests receives a command ... *)
handle_client_requests(c) ==
    /\ pc[c] = "Idle" /\ issued < MaxCommands
    /\ \E k \in Commands : cmd' = [cmd EXCEPT ![c] = k]
    /\ Goto(c, "Warden") /\ issued' = issued + 1
    /\ app' = [app EXCEPT ![c] = NoApp]
    /\ UNCHANGED <<obj, handle, uuid, todo, visit, lockVars, realmVars, cancelled, joined>>

(* ... or finds the token cancelled. *)
exit_client(c) ==
    /\ pc[c] = "Idle" /\ cancelled
    /\ Goto(c, "Exited")
    /\ UNCHANGED <<cmd, obj, handle, uuid, app, todo, visit, lockVars, realmVars, daemonVars>>

(* get_realm: the map's mutex is held for the lookup only, the Arc is kept. *)
get_realm(c) ==
    /\ pc[c] = "Warden" /\ cmd[c] \in RealmCommands \cup AppCommands /\ warden = Nobody
    /\ \E u \in Uuids :
        \/ realms[u] = NoRealm /\ Goto(c, "Idle") /\ UNCHANGED <<obj, handle>>
        \/ /\ realms[u] # NoRealm /\ Goto(c, "Realm")
           /\ obj' = [obj EXCEPT ![c] = realms[u]] /\ handle' = [handle EXCEPT ![c] = realms[u]]
    /\ UNCHANGED <<cmd, uuid, app, todo, visit, lockVars, realmVars, daemonVars>>
-------------------------------------------------------------------------------
(* WardenDaemon: its mutex is held through all of the following.            *)

(* create_realm: RealmExists at once, or the fabric's work ... *)
create_realm(c) ==
    /\ pc[c] = "Warden" /\ cmd[c] = "CreateRealm" /\ warden = Nobody
    /\ \E u \in Uuids :
        \/ realms[u] # NoRealm /\ Goto(c, "Idle") /\ UNCHANGED <<uuid, warden>>
        \/ /\ realms[u] = NoRealm /\ Goto(c, "Create")
           /\ uuid' = [uuid EXCEPT ![c] = u] /\ warden' = c
    /\ UNCHANGED <<cmd, obj, handle, app, todo, visit, realmLock, clientLock, appLock, realmVars, daemonVars>>

(* ... whose realm is then entered in the map. *)
insert_realm(c) ==
    /\ pc[c] = "Create"
    /\ Goto(c, "Idle") /\ warden' = Nobody
    /\ \/ UNCHANGED <<realms, created>>
       \/ /\ created < MaxRealms /\ created' = created + 1
          /\ realms' = [realms EXCEPT ![uuid[c]] = created']
    /\ UNCHANGED <<cmd, obj, handle, uuid, app, todo, visit, realmLock, clientLock, appLock, state, daemonVars>>

(* Mutant: the reference count is not checked. *)
ensure_realm_can_be_deleted_unchecked(c) ==
    /\ pc[c] = "Warden" /\ cmd[c] = "Destroy" /\ warden = Nobody
    /\ \E u \in Uuids :
        \/ realms[u] = NoRealm /\ Goto(c, "Idle") /\ UNCHANGED <<obj, warden>>
        \/ /\ realms[u] # NoRealm
           /\ Goto(c, "Realm") /\ warden' = c /\ obj' = [obj EXCEPT ![c] = realms[u]]
    /\ UNCHANGED <<cmd, handle, uuid, app, todo, visit, realmLock, clientLock, appLock, realmVars, daemonVars>>

(* destroy_realm: ensure_realm_can_be_deleted refuses a realm whose Arc a   *)
(* client owns, and goes on to lock the others.                             *)
ensure_realm_can_be_deleted(c) ==
    /\ pc[c] = "Warden" /\ cmd[c] = "Destroy" /\ warden = Nobody
    /\ \E u \in Uuids :
        \/ /\ realms[u] = NoRealm \/ Shared(realms[u])
           /\ Goto(c, "Idle") /\ UNCHANGED <<obj, warden>>
        \/ /\ realms[u] # NoRealm /\ ~Shared(realms[u])
           /\ Goto(c, "Realm") /\ warden' = c /\ obj' = [obj EXCEPT ![c] = realms[u]]
    /\ UNCHANGED <<cmd, handle, uuid, app, todo, visit, realmLock, clientLock, appLock, realmVars, daemonVars>>

inspect_realm(c) ==
    /\ pc[c] = "Warden" /\ cmd[c] = "Inspect" /\ warden = Nobody
    /\ \E u \in Uuids :
        \/ realms[u] = NoRealm /\ Goto(c, "Idle") /\ UNCHANGED <<obj, warden>>
        \/ /\ realms[u] # NoRealm
           /\ Goto(c, "Realm") /\ warden' = c /\ obj' = [obj EXCEPT ![c] = realms[u]]
    /\ UNCHANGED <<cmd, handle, uuid, app, todo, visit, realmLock, clientLock, appLock, realmVars, daemonVars>>

(* list_realms: every realm of the map in turn. *)
list_realms(c) ==
    /\ pc[c] = "Warden" /\ cmd[c] = "List" /\ warden = Nobody
    /\ \/ /\ \A u \in Uuids : realms[u] = NoRealm
          /\ Goto(c, "Idle") /\ UNCHANGED <<obj, visit, warden>>
       \/ \E u \in Uuids :
          /\ realms[u] # NoRealm
          /\ Goto(c, "Realm") /\ warden' = c
          /\ obj' = [obj EXCEPT ![c] = realms[u]]
          /\ visit' = [visit EXCEPT ![c] = {o \in Objects : Registered(o)} \ {realms[u]}]
    /\ UNCHANGED <<cmd, handle, uuid, app, todo, realmLock, clientLock, appLock, realmVars, daemonVars>>

(* Mutant: the map is unlocked between the check and the removal. *)
AfterGetRealmData_unlocks_map(c) ==
    \/ /\ visit[c] # {}
       /\ \E o \in visit[c] : obj' = [obj EXCEPT ![c] = o] /\ visit' = [visit EXCEPT ![c] = @ \ {o}]
       /\ Goto(c, "Realm") /\ UNCHANGED warden
    \/ /\ visit[c] = {} /\ warden' = Nobody
       /\ Goto(c, IF cmd[c] = "Destroy" /\ state[obj[c]] = "Halted" THEN "Remove" ELSE "Idle")
       /\ UNCHANGED <<obj, visit>>

(* After the get_realm_data of a realm: the next realm of list_realms, the  *)
(* check of its state by destroy_realm, or the response; a read of the      *)
(* addresses that fails, possible for an Active realm, ends list_realms.    *)
AfterGetRealmData(c) ==
    \/ /\ visit[c] # {}
       /\ \E o \in visit[c] : /\ obj' = [obj EXCEPT ![c] = o]
                              /\ visit' = [visit EXCEPT ![c] = @ \ {o}]
       /\ Goto(c, "Realm") /\ UNCHANGED warden
    \/ /\ visit[c] = {} /\ cmd[c] = "Destroy" /\ state[obj[c]] = "Halted"
       /\ Goto(c, "Remove") /\ UNCHANGED <<obj, visit, warden>>
    \/ /\ visit[c] = {} \/ state[obj[c]] = "Active"
       /\ cmd[c] = "Destroy" => state[obj[c]] # "Halted"
       /\ visit' = [visit EXCEPT ![c] = {}]
       /\ Goto(c, "Idle") /\ warden' = Nobody /\ UNCHANGED obj

(* The rest of destroy_realm: remove, Arc::into_inner, destroy, clean_up. *)
destroy_realm(c) ==
    /\ pc[c] = "Remove"
    /\ realms' = [u \in Uuids |-> IF realms[u] = obj[c] THEN NoRealm ELSE realms[u]]
    /\ Goto(c, "Idle") /\ warden' = Nobody
    /\ UNCHANGED <<cmd, obj, handle, uuid, app, todo, visit, realmLock, clientLock, appLock,
                   state, created, daemonVars>>
-------------------------------------------------------------------------------
(* RealmManager, with the realm's mutex held.                               *)

(* The commands that go on with an application of the realm, if the state   *)
(* check at their head lets them.                                           *)
UsesApp(c, st) ==
    \/ cmd[c] = "Update" /\ st # "Provisioning"
    \/ cmd[c] \in AppCommands /\ st = "Active"

(* What the state check lets a command do first. *)
FirstPc(c, st, a) ==
    IF cmd[c] \in {"Start", "Fetch"} /\ st = "Halted" THEN "Prepare"
    ELSE IF cmd[c] \in {"Stop", "Reboot", "Fetch", "List", "Inspect", "Destroy"} /\ st = "Active" THEN "Client"
    ELSE IF cmd[c] = "Update" /\ a # NoApp THEN "App"
    ELSE "Finish"

(* realm.lock().await, up to the next await; NoApp stands for an            *)
(* application the realm does not have.                                     *)
lock_realm(c) ==
    /\ pc[c] = "Realm" /\ realmLock[obj[c]] = Nobody
    /\ realmLock' = Lock(realmLock, obj[c], c)
    /\ \E a \in Apps \cup {NoApp} :
        /\ a # NoApp => UsesApp(c, state[obj[c]])
        /\ app' = [app EXCEPT ![c] = a]
        /\ Goto(c, FirstPc(c, state[obj[c]], a))
    /\ todo' = [todo EXCEPT ![c] = IF pc'[c] = "Prepare" THEN Apps ELSE {}]
    /\ UNCHANGED <<cmd, obj, handle, uuid, visit, warden, clientLock, appLock, realmVars, daemonVars>>

(* prepare_applications: configure_disk under the mutex of each application *)
(* in turn; then the VM is launched, and start leaves Halted.               *)
prepare_applications(c) ==
    /\ pc[c] = "Prepare"
    /\ \/ \E a \in todo[c] :
          /\ appLock[obj[c]][a] = Nobody
          /\ todo' = [todo EXCEPT ![c] = @ \ {a}]
          /\ UNCHANGED state
          /\ UNCHANGED pc \/ Goto(c, "Finish")
       \/ /\ todo[c] = {} /\ Goto(c, "Client")
          /\ state' = IF cmd[c] = "Start" THEN [state EXCEPT ![obj[c]] = "Provisioning"] ELSE state
          /\ UNCHANGED todo
       \/ todo[c] = {} /\ Goto(c, "Finish") /\ UNCHANGED <<todo, state>>
    /\ UNCHANGED <<cmd, obj, handle, uuid, app, visit, lockVars, realms, created, daemonVars>>

(* realm_client_handler.lock().await *)
lock_client(c) ==
    /\ pc[c] \in {"Client", "Client2"} /\ clientLock[obj[c]] = Nobody
    /\ clientLock' = Lock(clientLock, obj[c], c)
    /\ Goto(c, IF pc[c] = "Client2" THEN "Rpc2" ELSE IF cmd[c] \in {"Start", "Reboot"} THEN "Config" ELSE "Rpc")
    /\ todo' = [todo EXCEPT ![c] = IF pc'[c] = "Config" THEN Apps ELSE {}]
    /\ UNCHANGED <<cmd, obj, handle, uuid, app, visit, warden, realmLock, appLock, realmVars, daemonVars>>

(* create_provisioning_config: get_data under the mutex of each application *)
(* in turn, while the client handler stays locked.                          *)
create_provisioning_config(c) ==
    /\ pc[c] = "Config"
    /\ \/ \E a \in todo[c] :
          /\ appLock[obj[c]][a] = Nobody
          /\ todo' = [todo EXCEPT ![c] = @ \ {a}]
          /\ \/ UNCHANGED <<pc, clientLock>>
             \/ Goto(c, "Finish") /\ clientLock' = Unlock(clientLock, obj[c])
       \/ todo[c] = {} /\ Goto(c, "Rpc") /\ UNCHANGED <<todo, clientLock>>
    /\ UNCHANGED <<cmd, obj, handle, uuid, app, visit, warden, realmLock, appLock, realmVars, daemonVars>>

(* Mutant: a fetch keeps the client handler locked for its shutdown. *)
call_realm_keeps_client(c) ==
    /\ pc[c] \in {"Rpc", "Rpc2"}
    /\ Goto(c, IF pc[c] = "Rpc" /\ cmd[c] = "Fetch" /\ state[obj[c]] = "Halted" THEN "Client2" ELSE "Finish")
    /\ clientLock' = IF pc'[c] = "Client2" THEN clientLock ELSE Unlock(clientLock, obj[c])
    /\ \/ cmd[c] \in {"Start", "Stop"} /\ \E st \in {"Active", "Halted"} : state' = [state EXCEPT ![obj[c]] = st]
       \/ cmd[c] \notin {"Start", "Stop"} /\ UNCHANGED state
    /\ UNCHANGED <<cmd, obj, handle, uuid, app, todo, visit, warden, realmLock, appLock, realms, created, daemonVars>>

(* The exchange with the realm, which every command's timeouts end, and     *)
(* what the command then does to the realm's state.                         *)
call_realm(c) ==
    /\ pc[c] \in {"Rpc", "Rpc2"}
    /\ clientLock' = Unlock(clientLock, obj[c])
    /\ Goto(c, IF pc[c] = "Rpc" /\ cmd[c] = "Fetch" /\ state[obj[c]] = "Halted" THEN "Client2" ELSE "Finish")
    /\ \/ cmd[c] \in {"Start", "Stop"} /\ \E st \in {"Active", "Halted"} : state' = [state EXCEPT ![obj[c]] = st]
       \/ cmd[c] \notin {"Start", "Stop"} /\ UNCHANGED state
    /\ UNCHANGED <<cmd, obj, handle, uuid, app, todo, visit, warden, realmLock, appLock, realms, created, daemonVars>>

(* update_application: update_config under the application's mutex. *)
update_application(c) ==
    /\ pc[c] = "App" /\ appLock[obj[c]][app[c]] = Nobody
    /\ Goto(c, "Finish")
    /\ app' = [app EXCEPT ![c] = NoApp]
    /\ UNCHANGED <<cmd, obj, handle, uuid, todo, visit, lockVars, realmVars, daemonVars>>

(* The guard of the realm's mutex is dropped ... *)
unlock_realm(c) ==
    /\ pc[c] = "Finish"
    /\ realmLock' = Unlock(realmLock, obj[c])
    /\ \/ /\ cmd[c] \in WardenCommands /\ AfterGetRealmData(c)
       \/ /\ cmd[c] \notin WardenCommands
          /\ Goto(c, "Drop") /\ UNCHANGED <<obj, visit, warden>>
    /\ UNCHANGED <<cmd, handle, uuid, app, todo, clientLock, appLock, realmVars, daemonVars>>

(* Mutant: a refused application command goes on to the application. *)
drop_realm_ignores_error(c) ==
    /\ pc[c] = "Drop"
    /\ handle' = [handle EXCEPT ![c] = NoRealm]
    /\ Goto(c, IF cmd[c] \in AppCommands THEN "AppLock" ELSE "Idle")
    /\ UNCHANGED <<cmd, obj, uuid, app, todo, visit, lockVars, realmVars, daemonVars>>

(* ... and after it the Arc; get_application has left an application. *)
drop_realm(c) ==
    /\ pc[c] = "Drop"
    /\ handle' = [handle EXCEPT ![c] = NoRealm]
    /\ Goto(c, IF app[c] # NoApp THEN "AppLock" ELSE "Idle")
    /\ UNCHANGED <<cmd, obj, uuid, app, todo, visit, lockVars, realmVars, daemonVars>>
-------------------------------------------------------------------------------
(* ApplicationManager: start and stop lock the client handler while the     *)
(* application's mutex is held.                                             *)
lock_application(c) ==
    /\ pc[c] = "AppLock" /\ appLock[obj[c]][app[c]] = Nobody
    /\ appLock' = [appLock EXCEPT ![obj[c]][app[c]] = c]
    /\ Goto(c, "AppClient")
    /\ UNCHANGED <<cmd, obj, handle, uuid, app, todo, visit, warden, realmLock, clientLock, realmVars, daemonVars>>

lock_application_client(c) ==
    /\ pc[c] = "AppClient" /\ clientLock[obj[c]] = Nobody
    /\ clientLock' = Lock(clientLock, obj[c], c)
    /\ Goto(c, "AppRpc")
    /\ UNCHANGED <<cmd, obj, handle, uuid, app, todo, visit, warden, realmLock, appLock, realmVars, daemonVars>>

call_application(c) ==
    /\ pc[c] = "AppRpc"
    /\ clientLock' = Unlock(clientLock, obj[c])
    /\ appLock' = [appLock EXCEPT ![obj[c]][app[c]] = Nobody]
    /\ Goto(c, "Idle")
    /\ UNCHANGED <<cmd, obj, handle, uuid, app, todo, visit, warden, realmLock, realmVars, daemonVars>>
-------------------------------------------------------------------------------
(* Daemon::run: a signal, or the end of a listener, cancels the token ...   *)
cancel ==
    /\ ~cancelled /\ cancelled' = TRUE
    /\ UNCHANGED <<taskVars, lockVars, realmVars, issued, joined>>

(* ... and UnixSocketServer::listen joins its clients before run returns.   *)
join_clients ==
    /\ cancelled /\ ~joined /\ \A c \in Clients : pc[c] = "Exited"
    /\ joined' = TRUE
    /\ UNCHANGED <<taskVars, lockVars, realmVars, issued, cancelled>>

(* The steps that wait for a mutex, and the others. *)
Acquire(c) ==
    \/ get_realm(c) \/ create_realm(c) \/ ensure_realm_can_be_deleted(c) \/ inspect_realm(c)
    \/ list_realms(c) \/ lock_realm(c) \/ lock_client(c) \/ update_application(c)
    \/ lock_application(c) \/ lock_application_client(c)

Work(c) ==
    \/ insert_realm(c) \/ destroy_realm(c) \/ prepare_applications(c) \/ create_provisioning_config(c)
    \/ call_realm(c) \/ unlock_realm(c) \/ drop_realm(c) \/ call_application(c)

Next ==
    \/ \E c \in Clients : handle_client_requests(c) \/ exit_client(c) \/ Acquire(c) \/ Work(c)
    \/ cancel \/ join_clients

(* The runtime polls every task that is ready and hands a mutex over in     *)
(* order of arrival; a client whose token is cancelled gets to see it.      *)
Fairness ==
    /\ \A c \in Clients : SF_vars(Acquire(c)) /\ SF_vars(Work(c)) /\ WF_vars(exit_client(c))
    /\ WF_vars(join_clients)

Spec == Init /\ [][Next]_vars /\ Fairness
-------------------------------------------------------------------------------
AppPcs == {"App", "AppLock", "AppClient", "AppRpc"}

(* Types, and that a task at an application's mutex has an application of   *)
(* its realm.                                                               *)
TypeOK ==
    /\ pc \in [Clients -> Pcs] /\ cmd \in [Clients -> RealmCommands \cup AppCommands \cup WardenCommands]
    /\ obj \in [Clients -> Objects \cup {NoRealm}] /\ handle \in [Clients -> Objects \cup {NoRealm}]
    /\ uuid \in [Clients -> Uuids] /\ app \in [Clients -> Apps \cup {NoApp}]
    /\ \A c \in Clients : pc[c] \in AppPcs => app[c] # NoApp
    /\ todo \in [Clients -> SUBSET Apps] /\ visit \in [Clients -> SUBSET Objects]
    /\ warden \in Clients \cup {Nobody}
    /\ realmLock \in [Objects -> Clients \cup {Nobody}] /\ clientLock \in [Objects -> Clients \cup {Nobody}]
    /\ appLock \in [Objects -> [Apps -> Clients \cup {Nobody}]]
    /\ realms \in [Uuids -> Objects \cup {NoRealm}] /\ state \in [Objects -> States]
    /\ created \in 0..MaxRealms /\ issued \in 0..MaxCommands
    /\ cancelled \in BOOLEAN /\ joined \in BOOLEAN

(* What ensure_realm_can_be_deleted checked is still true when              *)
(* destroy_realm acts on it, after the awaits of get_realm_data: the realm  *)
(* it drops is Halted, and no client has obtained an Arc of it, so that     *)
(* `Arc::into_inner(realm).expect("At this point Arc must be owned!")`      *)
(* never panics.                                                            *)
DestroyIsSafe ==
    \A c \in Clients : pc[c] = "Remove" =>
        Registered(obj[c]) /\ ~Shared(obj[c]) /\ state[obj[c]] = "Halted"

(* No client is left with the Arc of a realm that is not in the map: a      *)
(* command waiting for a realm's mutex never finds the realm destroyed.     *)
HandlesAreRegistered ==
    \A c \in Clients : handle[c] # NoRealm => Registered(handle[c])

(* Client c waits for a mutex that d holds. *)
WaitsFor(c, d) ==
    \/ pc[c] = "Warden" /\ warden = d
    \/ pc[c] = "Realm" /\ realmLock[obj[c]] = d
    \/ pc[c] \in {"Client", "Client2", "AppClient"} /\ clientLock[obj[c]] = d
    \/ pc[c] \in {"Prepare", "Config"} /\ \E a \in todo[c] : appLock[obj[c]][a] = d
    \/ pc[c] \in {"App", "AppLock"} /\ appLock[obj[c]][app[c]] = d

(* No group of clients waits for each other in a circle: whatever commands  *)
(* meet, the mutexes of the map, a realm, its client handler and its        *)
(* applications are taken in this order.                                    *)
NoCircularWait ==
    \A S \in SUBSET Clients : S # {} => \E c \in S : \A d \in S : ~WaitsFor(c, d)

(* A daemon that is told to stop joins its clients and returns, as the      *)
(* tests in start_and_shutdown_test.rs await after a signal.                *)
ShutdownCompletes == cancelled ~> joined
===============================================================================
