-------------------------- MODULE WardenDaemonProofs --------------------------
(***************************************************************************)
(* Theorems about WardenDaemon for any number of clients, realms and       *)
(* applications: destroy_realm owns the realm it drops, finds it as it     *)
(* checked it, and leaves no client with a realm that is gone; and without *)
(* application commands no clients wait for each other in a circle.        *)
(***************************************************************************)
EXTENDS WardenDaemon, TLAPS

(* The awaits between obtaining a realm's Arc and dropping it. *)
HandlePcs == {"Realm", "Prepare", "Client", "Config", "Rpc", "Client2", "Rpc2", "App", "Finish", "Drop"}

(* A command of the WardenDaemon past its lock of the map. *)
InWarden(c) == cmd[c] \in WardenCommands /\ pc[c] \notin {"Idle", "Warden", "Exited"}

(* The control of a single task. *)
TaskInv ==
    \A c \in Clients :
        /\ pc[c] = "Create" => cmd[c] = "CreateRealm"
        /\ pc[c] = "Remove" => cmd[c] = "Destroy"
        /\ pc[c] \in {"AppLock", "AppClient", "AppRpc"} => cmd[c] \in AppCommands
        /\ pc[c] \in HandlePcs \cup {"Remove", "AppLock", "AppClient", "AppRpc"} => obj[c] \in Objects
        /\ pc[c] \in {"App", "Drop"} => cmd[c] \notin WardenCommands
        /\ app[c] # NoApp => pc[c] \notin {"Prepare", "Client", "Config", "Rpc", "Client2", "Rpc2"}
        /\ app[c] # NoApp /\ pc[c] \in {"Finish", "Drop"} => cmd[c] \in AppCommands

(* Who holds the map, and who owns Arcs. *)
WardenInv ==
    \A c \in Clients :
        /\ InWarden(c) => warden = c
        /\ visit[c] # {} => cmd[c] = "List" /\ InWarden(c)
        /\ handle[c] = (IF cmd[c] \notin WardenCommands /\ pc[c] \in HandlePcs THEN obj[c] ELSE NoRealm)
        /\ pc[c] = "Create" => realms[uuid[c]] = NoRealm

(* What ensure_realm_can_be_deleted established stays true. *)
DestroyInv ==
    \A c \in Clients : InWarden(c) /\ cmd[c] = "Destroy" => Registered(obj[c]) /\ ~Shared(obj[c])

(* The realm about to be dropped is in the state that was read. *)
DestroyedIsHalted == \A c \in Clients : pc[c] = "Remove" => state[obj[c]] = "Halted"

SafeInv == TypeOK /\ TaskInv /\ WardenInv /\ DestroyInv /\ HandlesAreRegistered /\ DestroyedIsHalted

USE DEF Pcs, States, AppPcs, HandlePcs, RealmCommands, AppCommands, WardenCommands, Goto,
        taskVars, lockVars, realmVars, daemonVars

(* Realms are numbered from 1; 0 is none. *)
LEMMA NoRealmIsNone == NoRealm \notin Objects
  BY DEF NoRealm, Objects

(* The initial values have their types. *)
LEMMA InitTypes == Init => TypeOK
  <1> SUFFICES ASSUME Init PROVE TypeOK
      BY Zenon
  <1> USE ConstantsAssumption DEF Init
  <1>1. uuid \in [Clients -> Uuids]
      BY Zenon
  <1>2. created \in 0..MaxRealms /\ issued \in 0..MaxCommands
      OBVIOUS
  <1>3. QED
      BY <1>1, <1>2, Zenon DEF TypeOK

(* The types, in three parts. *)
TaskTypes ==
    /\ pc \in [Clients -> Pcs] /\ cmd \in [Clients -> RealmCommands \cup AppCommands \cup WardenCommands]
    /\ obj \in [Clients -> Objects \cup {NoRealm}] /\ handle \in [Clients -> Objects \cup {NoRealm}]
    /\ uuid \in [Clients -> Uuids] /\ app \in [Clients -> Apps \cup {NoApp}]
    /\ \A c \in Clients : pc[c] \in AppPcs => app[c] # NoApp
    /\ todo \in [Clients -> SUBSET Apps] /\ visit \in [Clients -> SUBSET Objects]

LockTypes ==
    /\ warden \in Clients \cup {Nobody}
    /\ realmLock \in [Objects -> Clients \cup {Nobody}] /\ clientLock \in [Objects -> Clients \cup {Nobody}]

RealmTypes ==
    /\ appLock \in [Objects -> [Apps -> Clients \cup {Nobody}]]
    /\ realms \in [Uuids -> Objects \cup {NoRealm}] /\ state \in [Objects -> States]
    /\ created \in 0..MaxRealms /\ issued \in 0..MaxCommands
    /\ cancelled \in BOOLEAN /\ joined \in BOOLEAN

LEMMA TypeParts == TypeOK => TaskTypes /\ LockTypes /\ RealmTypes
  BY Zenon DEF TypeOK, TaskTypes, LockTypes, RealmTypes

LEMMA TypePartsPrime == TaskTypes' /\ LockTypes' /\ RealmTypes' => TypeOK'
  BY Zenon DEF TypeOK, TaskTypes, LockTypes, RealmTypes

(* Every step preserves the types. *)
LEMMA TypeStep ==
  TypeOK /\ [Next]_vars => TypeOK'
  <1> SUFFICES ASSUME TypeOK, [Next]_vars PROVE TypeOK'
      BY Zenon
  <1>T. TaskTypes /\ LockTypes /\ RealmTypes
      BY TypeParts, Zenon
  <1>P. TaskTypes' /\ LockTypes' /\ RealmTypes' => TypeOK'
      BY TypePartsPrime, Zenon
  <1>R. realms \in [Uuids -> Objects \cup {NoRealm}]
      BY <1>T, Zenon DEF RealmTypes
  <1> USE <1>T
  <1>1. CASE UNCHANGED vars
      BY <1>1, <1>P, Zenon DEF vars, TaskTypes, LockTypes, RealmTypes
  <1>2. CASE cancel \/ join_clients
    <2>1. TaskTypes' /\ LockTypes'
        BY <1>2, ZenonT(60) DEF cancel, join_clients, TaskTypes, LockTypes
    <2>2. RealmTypes'
        BY <1>2, Zenon DEF cancel, join_clients, RealmTypes
    <2>3. QED
        BY <2>1, <2>2, <1>P, Zenon
  <1>3. ASSUME NEW c \in Clients, handle_client_requests(c) PROVE TypeOK'
    <2>1. TaskTypes'
        BY <1>3, ConstantsAssumption DEF handle_client_requests, TaskTypes
    <2>2. LockTypes'
        BY <1>3, Zenon DEF handle_client_requests, LockTypes
    <2>3. RealmTypes'
        BY <1>3, ConstantsAssumption DEF handle_client_requests, RealmTypes
    <2>4. QED
        BY <2>1, <2>2, <2>3, <1>P, Zenon
  <1>4. ASSUME NEW c \in Clients, exit_client(c) PROVE TypeOK'
    <2>1. TaskTypes'
        BY <1>4, Zenon DEF exit_client, TaskTypes
    <2>2. LockTypes'
        BY <1>4, Zenon DEF exit_client, LockTypes
    <2>3. RealmTypes'
        BY <1>4, Zenon DEF exit_client, RealmTypes
    <2>4. QED
        BY <2>1, <2>2, <2>3, <1>P, Zenon
  <1>5. ASSUME NEW c \in Clients, get_realm(c) PROVE TypeOK'
    <2>1. TaskTypes'
        BY <1>5, <1>R, ZenonT(60) DEF get_realm, TaskTypes
    <2>2. LockTypes'
        BY <1>5, Zenon DEF get_realm, LockTypes
    <2>3. RealmTypes'
        BY <1>5, Zenon DEF get_realm, RealmTypes
    <2>4. QED
        BY <2>1, <2>2, <2>3, <1>P, Zenon
  <1>6. ASSUME NEW c \in Clients, create_realm(c) PROVE TypeOK'
    <2>1. TaskTypes'
        BY <1>6 DEF create_realm, TaskTypes
    <2>2. LockTypes'
        BY <1>6, Zenon DEF create_realm, LockTypes
    <2>3. RealmTypes'
        BY <1>6, Zenon DEF create_realm, RealmTypes
    <2>4. QED
        BY <2>1, <2>2, <2>3, <1>P, Zenon
  <1>7. ASSUME NEW c \in Clients, insert_realm(c) PROVE TypeOK'
    <2>1. TaskTypes' /\ LockTypes'
        BY <1>7, Zenon DEF insert_realm, TaskTypes, LockTypes
    <2>2. created' \in 0..MaxRealms
        BY <1>7, ConstantsAssumption DEF insert_realm, RealmTypes
    <2>3. realms' = realms \/ created' \in Objects
        BY <1>7, ConstantsAssumption DEF insert_realm, RealmTypes, Objects
    <2>4. RealmTypes'
        BY <1>7, <2>2, <2>3, Zenon DEF insert_realm, RealmTypes
    <2>5. QED
        BY <2>1, <2>4, <1>P, Zenon
  <1>8. ASSUME NEW c \in Clients, ensure_realm_can_be_deleted(c) PROVE TypeOK'
    <2>1. TaskTypes'
        BY <1>8, <1>R, ZenonT(60) DEF ensure_realm_can_be_deleted, TaskTypes
    <2>2. LockTypes'
        BY <1>8, Zenon DEF ensure_realm_can_be_deleted, LockTypes
    <2>3. RealmTypes'
        BY <1>8, Zenon DEF ensure_realm_can_be_deleted, RealmTypes
    <2>4. QED
        BY <2>1, <2>2, <2>3, <1>P, Zenon
  <1>9. ASSUME NEW c \in Clients, inspect_realm(c) PROVE TypeOK'
    <2>1. TaskTypes'
        BY <1>9, <1>R, ZenonT(60) DEF inspect_realm, TaskTypes
    <2>2. LockTypes'
        BY <1>9, Zenon DEF inspect_realm, LockTypes
    <2>3. RealmTypes'
        BY <1>9, Zenon DEF inspect_realm, RealmTypes
    <2>4. QED
        BY <2>1, <2>2, <2>3, <1>P, Zenon
  <1>10. ASSUME NEW c \in Clients, list_realms(c) PROVE TypeOK'
    <2>1. TaskTypes'
        BY <1>10, <1>R DEF list_realms, TaskTypes
    <2>2. LockTypes'
        BY <1>10, Zenon DEF list_realms, LockTypes
    <2>3. RealmTypes'
        BY <1>10, Zenon DEF list_realms, RealmTypes
    <2>4. QED
        BY <2>1, <2>2, <2>3, <1>P, Zenon
  <1>11. ASSUME NEW c \in Clients, destroy_realm(c) PROVE TypeOK'
    <2>1. TaskTypes'
        BY <1>11, Zenon DEF destroy_realm, TaskTypes
    <2>2. LockTypes'
        BY <1>11, Zenon DEF destroy_realm, LockTypes
    <2>3. RealmTypes'
        BY <1>11, Zenon DEF destroy_realm, RealmTypes
    <2>4. QED
        BY <2>1, <2>2, <2>3, <1>P, Zenon
  <1>12. ASSUME NEW c \in Clients, lock_realm(c) PROVE TypeOK'
    <2>1. TaskTypes'
        BY <1>12 DEF lock_realm, FirstPc, UsesApp, TaskTypes
    <2>2. LockTypes'
        BY <1>12, Zenon DEF lock_realm, Lock, LockTypes
    <2>3. RealmTypes'
        BY <1>12, Zenon DEF lock_realm, RealmTypes
    <2>4. QED
        BY <2>1, <2>2, <2>3, <1>P, Zenon
  <1>13. ASSUME NEW c \in Clients, prepare_applications(c) PROVE TypeOK'
    <2>1. TaskTypes'
        BY <1>13 DEF prepare_applications, TaskTypes
    <2>2. LockTypes'
        BY <1>13, Zenon DEF prepare_applications, LockTypes
    <2>3. RealmTypes'
        BY <1>13, Zenon DEF prepare_applications, RealmTypes
    <2>4. QED
        BY <2>1, <2>2, <2>3, <1>P, Zenon
  <1>14. ASSUME NEW c \in Clients, lock_client(c) PROVE TypeOK'
    <2>1. TaskTypes'
        BY <1>14, Zenon DEF lock_client, TaskTypes
    <2>2. LockTypes'
        BY <1>14, Zenon DEF lock_client, Lock, LockTypes
    <2>3. RealmTypes'
        BY <1>14, Zenon DEF lock_client, RealmTypes
    <2>4. QED
        BY <2>1, <2>2, <2>3, <1>P, Zenon
  <1>15. ASSUME NEW c \in Clients, create_provisioning_config(c) PROVE TypeOK'
    <2>1. TaskTypes'
        BY <1>15 DEF create_provisioning_config, TaskTypes
    <2>2. LockTypes'
        BY <1>15, Zenon DEF create_provisioning_config, Unlock, LockTypes
    <2>3. RealmTypes'
        BY <1>15, Zenon DEF create_provisioning_config, RealmTypes
    <2>4. QED
        BY <2>1, <2>2, <2>3, <1>P, Zenon
  <1>16. ASSUME NEW c \in Clients, call_realm(c) PROVE TypeOK'
    <2>1. TaskTypes'
        BY <1>16, Zenon DEF call_realm, TaskTypes
    <2>2. LockTypes'
        BY <1>16, Zenon DEF call_realm, Unlock, LockTypes
    <2>3. RealmTypes'
        BY <1>16, Zenon DEF call_realm, RealmTypes
    <2>4. QED
        BY <2>1, <2>2, <2>3, <1>P, Zenon
  <1>17. ASSUME NEW c \in Clients, update_application(c) PROVE TypeOK'
    <2>1. TaskTypes'
        BY <1>17, Zenon DEF update_application, TaskTypes
    <2>2. LockTypes'
        BY <1>17, Zenon DEF update_application, LockTypes
    <2>3. RealmTypes'
        BY <1>17, Zenon DEF update_application, RealmTypes
    <2>4. QED
        BY <2>1, <2>2, <2>3, <1>P, Zenon
  <1>18. ASSUME NEW c \in Clients, unlock_realm(c) PROVE TypeOK'
    <2>1. TaskTypes'
        BY <1>18 DEF unlock_realm, AfterGetRealmData, TaskTypes
    <2>2. LockTypes'
        BY <1>18, Zenon DEF unlock_realm, Unlock, AfterGetRealmData, LockTypes
    <2>3. RealmTypes'
        BY <1>18, Zenon DEF unlock_realm, RealmTypes
    <2>4. QED
        BY <2>1, <2>2, <2>3, <1>P, Zenon
  <1>19. ASSUME NEW c \in Clients, drop_realm(c) PROVE TypeOK'
    <2>1. TaskTypes'
        BY <1>19, Zenon DEF drop_realm, TaskTypes
    <2>2. LockTypes'
        BY <1>19, Zenon DEF drop_realm, LockTypes
    <2>3. RealmTypes'
        BY <1>19, Zenon DEF drop_realm, RealmTypes
    <2>4. QED
        BY <2>1, <2>2, <2>3, <1>P, Zenon
  <1>20. ASSUME NEW c \in Clients, lock_application(c) PROVE TypeOK'
    <2>1. TaskTypes'
        BY <1>20, Zenon DEF lock_application, TaskTypes
    <2>2. LockTypes'
        BY <1>20, Zenon DEF lock_application, LockTypes
    <2>3. RealmTypes'
        BY <1>20, Zenon DEF lock_application, RealmTypes
    <2>4. QED
        BY <2>1, <2>2, <2>3, <1>P, Zenon
  <1>21. ASSUME NEW c \in Clients, lock_application_client(c) PROVE TypeOK'
    <2>1. TaskTypes'
        BY <1>21, Zenon DEF lock_application_client, TaskTypes
    <2>2. LockTypes'
        BY <1>21, Zenon DEF lock_application_client, Lock, LockTypes
    <2>3. RealmTypes'
        BY <1>21, Zenon DEF lock_application_client, RealmTypes
    <2>4. QED
        BY <2>1, <2>2, <2>3, <1>P, Zenon
  <1>22. ASSUME NEW c \in Clients, call_application(c) PROVE TypeOK'
    <2>1. TaskTypes'
        BY <1>22, Zenon DEF call_application, TaskTypes
    <2>2. LockTypes'
        BY <1>22, Zenon DEF call_application, Unlock, LockTypes
    <2>3. RealmTypes'
        BY <1>22, Zenon DEF call_application, RealmTypes
    <2>4. QED
        BY <2>1, <2>2, <2>3, <1>P, Zenon
  <1>23. QED
    <2> HIDE DEF TypeOK
    <2>1. ASSUME NEW c \in Clients, Acquire(c) PROVE TypeOK'
        BY <2>1, <1>5, <1>6, <1>8, <1>9, <1>10, <1>12, <1>14, <1>17, <1>20, <1>21, Zenon DEF Acquire
    <2>2. ASSUME NEW c \in Clients, Work(c) PROVE TypeOK'
        BY <2>2, <1>7, <1>11, <1>13, <1>15, <1>16, <1>18, <1>19, <1>22, Zenon DEF Work
    <2>3. QED
        BY <1>1, <1>2, <1>3, <1>4, <2>1, <2>2, Zenon DEF Next

(* Every step preserves the control of the tasks. *)
LEMMA TaskStep ==
  TypeOK /\ TaskInv /\ [Next]_vars => TaskInv'
  <1> SUFFICES ASSUME TypeOK, TaskInv, [Next]_vars PROVE TaskInv'
      BY Zenon
  <1> USE ConstantsAssumption DEF TypeOK, TaskInv
  <1>1. CASE UNCHANGED vars
      BY <1>1, Zenon DEF vars
  <1>2. CASE cancel \/ join_clients
      BY <1>2, ZenonT(60) DEF cancel, join_clients
  <1>3. ASSUME NEW c \in Clients, handle_client_requests(c) PROVE TaskInv'
      BY <1>3, ConstantsAssumption DEF handle_client_requests
  <1>4. ASSUME NEW c \in Clients, exit_client(c) PROVE TaskInv'
      BY <1>4, ZenonT(60) DEF exit_client
  <1>5. ASSUME NEW c \in Clients, get_realm(c) PROVE TaskInv'
      BY <1>5 DEF get_realm
  <1>6. ASSUME NEW c \in Clients, create_realm(c) PROVE TaskInv'
      BY <1>6 DEF create_realm
  <1>7. ASSUME NEW c \in Clients, insert_realm(c) PROVE TaskInv'
      BY <1>7, ConstantsAssumption, ZenonT(60) DEF insert_realm
  <1>8. ASSUME NEW c \in Clients, ensure_realm_can_be_deleted(c) PROVE TaskInv'
      BY <1>8 DEF ensure_realm_can_be_deleted
  <1>9. ASSUME NEW c \in Clients, inspect_realm(c) PROVE TaskInv'
      BY <1>9 DEF inspect_realm
  <1>10. ASSUME NEW c \in Clients, list_realms(c) PROVE TaskInv'
      BY <1>10 DEF list_realms
  <1>11. ASSUME NEW c \in Clients, destroy_realm(c) PROVE TaskInv'
      BY <1>11, ZenonT(60) DEF destroy_realm
  <1>12. ASSUME NEW c \in Clients, lock_realm(c) PROVE TaskInv'
      BY <1>12 DEF lock_realm, FirstPc, UsesApp, Lock
  <1>13. ASSUME NEW c \in Clients, prepare_applications(c) PROVE TaskInv'
    <2>1. /\ UNCHANGED <<cmd, obj, app>> /\ pc'[c] \in {"Prepare", "Finish", "Client"}
          /\ \A d \in Clients : d # c => pc'[d] = pc[d]
        BY <1>13, ZenonT(60) DEF prepare_applications
    <2>2. QED
        BY <1>13, <2>1 DEF prepare_applications
  <1>14. ASSUME NEW c \in Clients, lock_client(c) PROVE TaskInv'
      BY <1>14 DEF lock_client, Lock
  <1>15. ASSUME NEW c \in Clients, create_provisioning_config(c) PROVE TaskInv'
    <2>1. /\ UNCHANGED <<cmd, obj, app>> /\ pc'[c] \in {"Config", "Finish", "Rpc"}
          /\ \A d \in Clients : d # c => pc'[d] = pc[d]
        BY <1>15 DEF create_provisioning_config, Unlock
    <2>2. QED
        BY <1>15, <2>1 DEF create_provisioning_config
  <1>16. ASSUME NEW c \in Clients, call_realm(c) PROVE TaskInv'
    <2>1. /\ UNCHANGED <<cmd, obj, app>> /\ pc'[c] \in {"Client2", "Finish"}
          /\ \A d \in Clients : d # c => pc'[d] = pc[d]
        BY <1>16, ZenonT(60) DEF call_realm, Unlock
    <2>2. QED
        BY <1>16, <2>1 DEF call_realm
  <1>17. ASSUME NEW c \in Clients, update_application(c) PROVE TaskInv'
      BY <1>17 DEF update_application
  <1>18. ASSUME NEW c \in Clients, unlock_realm(c) PROVE TaskInv'
      BY <1>18 DEF unlock_realm, AfterGetRealmData, Unlock
  <1>19. ASSUME NEW c \in Clients, drop_realm(c) PROVE TaskInv'
      BY <1>19, ZenonT(60) DEF drop_realm
  <1>20. ASSUME NEW c \in Clients, lock_application(c) PROVE TaskInv'
      BY <1>20 DEF lock_application
  <1>21. ASSUME NEW c \in Clients, lock_application_client(c) PROVE TaskInv'
      BY <1>21 DEF lock_application_client, Lock
  <1>22. ASSUME NEW c \in Clients, call_application(c) PROVE TaskInv'
      BY <1>22, ZenonT(60) DEF call_application, Unlock
  <1>23. QED
    <2> HIDE DEF TypeOK, TaskInv
    <2>1. ASSUME NEW c \in Clients, Acquire(c) PROVE TaskInv'
        BY <2>1, <1>5, <1>6, <1>8, <1>9, <1>10, <1>12, <1>14, <1>17, <1>20, <1>21, Zenon DEF Acquire
    <2>2. ASSUME NEW c \in Clients, Work(c) PROVE TaskInv'
        BY <2>2, <1>7, <1>11, <1>13, <1>15, <1>16, <1>18, <1>19, <1>22, Zenon DEF Work
    <2>3. QED
        BY <1>1, <1>2, <1>3, <1>4, <2>1, <2>2, Zenon DEF Next

(* Every step preserves the ownership of the map and of the Arcs. *)
LEMMA WardenStep ==
  TypeOK /\ TaskInv /\ WardenInv /\ [Next]_vars => WardenInv'
  <1> SUFFICES ASSUME TypeOK, TaskInv, WardenInv, [Next]_vars PROVE WardenInv'
      BY Zenon
  <1> USE ConstantsAssumption DEF TypeOK, TaskInv, WardenInv, InWarden
  <1>1. CASE UNCHANGED vars
      BY <1>1, Zenon DEF vars
  <1>2. CASE cancel \/ join_clients
      BY <1>2 DEF cancel, join_clients
  <1>3. ASSUME NEW c \in Clients, handle_client_requests(c) PROVE WardenInv'
      BY <1>3, ConstantsAssumption DEF handle_client_requests
  <1>4. ASSUME NEW c \in Clients, exit_client(c) PROVE WardenInv'
      BY <1>4 DEF exit_client
  <1>5. ASSUME NEW c \in Clients, get_realm(c) PROVE WardenInv'
      BY <1>5 DEF get_realm
  <1>6. ASSUME NEW c \in Clients, create_realm(c) PROVE WardenInv'
      BY <1>6 DEF create_realm
  <1>7. ASSUME NEW c \in Clients, insert_realm(c) PROVE WardenInv'
    <2>1. \A d \in Clients : d # c => ~InWarden(d)
        BY <1>7, ZenonT(60) DEF insert_realm
    <2>2. QED
        BY <1>7, <2>1 DEF insert_realm
  <1>8. ASSUME NEW c \in Clients, ensure_realm_can_be_deleted(c) PROVE WardenInv'
      BY <1>8 DEF ensure_realm_can_be_deleted
  <1>9. ASSUME NEW c \in Clients, inspect_realm(c) PROVE WardenInv'
      BY <1>9 DEF inspect_realm
  <1>10. ASSUME NEW c \in Clients, list_realms(c) PROVE WardenInv'
      BY <1>10 DEF list_realms
  <1>11. ASSUME NEW c \in Clients, destroy_realm(c) PROVE WardenInv'
    <2>1. \A d \in Clients : d # c => ~InWarden(d)
        BY <1>11, Zenon DEF destroy_realm
    <2>2. QED
        BY <1>11, <2>1 DEF destroy_realm
  <1>12. ASSUME NEW c \in Clients, lock_realm(c) PROVE WardenInv'
      BY <1>12 DEF lock_realm, FirstPc, UsesApp, Lock
  <1>13. ASSUME NEW c \in Clients, prepare_applications(c) PROVE WardenInv'
      BY <1>13 DEF prepare_applications
  <1>14. ASSUME NEW c \in Clients, lock_client(c) PROVE WardenInv'
      BY <1>14 DEF lock_client, Lock
  <1>15. ASSUME NEW c \in Clients, create_provisioning_config(c) PROVE WardenInv'
    <2>1. /\ UNCHANGED <<cmd, obj, handle, visit, uuid, warden, realms>> /\ pc[c] = "Config"
          /\ \E p \in {"Config", "Finish", "Rpc"} : pc' = [pc EXCEPT ![c] = p]
        BY <1>15 DEF create_provisioning_config
    <2>2. QED
        BY <2>1
  <1>16. ASSUME NEW c \in Clients, call_realm(c) PROVE WardenInv'
      BY <1>16 DEF call_realm, Unlock
  <1>17. ASSUME NEW c \in Clients, update_application(c) PROVE WardenInv'
      BY <1>17 DEF update_application
  <1>18. ASSUME NEW c \in Clients, unlock_realm(c) PROVE WardenInv'
      BY <1>18 DEF unlock_realm, AfterGetRealmData, Unlock
  <1>19. ASSUME NEW c \in Clients, drop_realm(c) PROVE WardenInv'
      BY <1>19 DEF drop_realm
  <1>20. ASSUME NEW c \in Clients, lock_application(c) PROVE WardenInv'
      BY <1>20 DEF lock_application
  <1>21. ASSUME NEW c \in Clients, lock_application_client(c) PROVE WardenInv'
      BY <1>21 DEF lock_application_client, Lock
  <1>22. ASSUME NEW c \in Clients, call_application(c) PROVE WardenInv'
    <2>1. UNCHANGED <<cmd, obj, handle, visit, uuid, warden, realms>> /\ pc' = [pc EXCEPT ![c] = "Idle"]
        BY <1>22, Zenon DEF call_application
    <2>2. cmd[c] \notin WardenCommands /\ pc[c] \notin HandlePcs
        BY <1>22, Zenon DEF call_application
    <2>3. QED
        BY <2>1, <2>2
  <1>23. QED
    <2> HIDE DEF TypeOK, TaskInv, WardenInv, InWarden
    <2>1. ASSUME NEW c \in Clients, Acquire(c) PROVE WardenInv'
        BY <2>1, <1>5, <1>6, <1>8, <1>9, <1>10, <1>12, <1>14, <1>17, <1>20, <1>21, Zenon DEF Acquire
    <2>2. ASSUME NEW c \in Clients, Work(c) PROVE WardenInv'
        BY <2>2, <1>7, <1>11, <1>13, <1>15, <1>16, <1>18, <1>19, <1>22, Zenon DEF Work
    <2>3. QED
        BY <1>1, <1>2, <1>3, <1>4, <2>1, <2>2, Zenon DEF Next
-------------------------------------------------------------------------------


(* Every step preserves what destroy_realm relies on. *)
LEMMA DestroyStep ==
  TypeOK /\ TaskInv /\ WardenInv /\ DestroyInv /\ [Next]_vars => DestroyInv'
  <1> SUFFICES ASSUME TypeOK, TaskInv, WardenInv, DestroyInv, [Next]_vars PROVE DestroyInv'
      BY Zenon
  <1>T. /\ pc \in [Clients -> Pcs] /\ obj \in [Clients -> Objects \cup {NoRealm}] /\ DOMAIN cmd = Clients
        /\ handle \in [Clients -> Objects \cup {NoRealm}] /\ realms \in [Uuids -> Objects \cup {NoRealm}]
        /\ uuid \in [Clients -> Uuids] /\ created \in 0..MaxRealms
      BY Zenon DEF TypeOK
  <1>C. Nobody \notin Clients /\ MaxRealms \in Nat
      BY ConstantsAssumption, Zenon
  <1>W. \A c \in Clients : (InWarden(c) => warden = c) /\ (visit[c] # {} => cmd[c] = "List")
                           /\ (pc[c] = "Create" => realms[uuid[c]] = NoRealm)
      BY Zenon DEF WardenInv
  <1> USE <1>T, <1>C, <1>W DEF TaskInv, DestroyInv, InWarden, Registered, Shared
  <1>1. CASE UNCHANGED vars
      BY <1>1 DEF vars
  <1>2. CASE cancel \/ join_clients
      BY <1>2 DEF cancel, join_clients
  <1>3. ASSUME NEW c \in Clients, handle_client_requests(c) PROVE DestroyInv'
      BY <1>3 DEF handle_client_requests
  <1>4. ASSUME NEW c \in Clients, exit_client(c) PROVE DestroyInv'
      BY <1>4 DEF exit_client
  <1>5. ASSUME NEW c \in Clients, get_realm(c) PROVE DestroyInv'
    <2>1. \A d \in Clients : ~InWarden(d) /\ ~InWarden(d)'
        BY <1>5 DEF get_realm
    <2>2. QED
        BY <2>1, Zenon
  <1>6. ASSUME NEW c \in Clients, create_realm(c) PROVE DestroyInv'
      BY <1>6 DEF create_realm
  <1>7. ASSUME NEW c \in Clients, insert_realm(c) PROVE DestroyInv'
      BY <1>7 DEF insert_realm
  <1>8. ASSUME NEW c \in Clients, ensure_realm_can_be_deleted(c) PROVE DestroyInv'
      BY <1>8 DEF ensure_realm_can_be_deleted
  <1>9. ASSUME NEW c \in Clients, inspect_realm(c) PROVE DestroyInv'
      BY <1>9 DEF inspect_realm
  <1>10. ASSUME NEW c \in Clients, list_realms(c) PROVE DestroyInv'
      BY <1>10 DEF list_realms
  <1>11. ASSUME NEW c \in Clients, destroy_realm(c) PROVE DestroyInv'
      BY <1>11 DEF destroy_realm
  <1>12. ASSUME NEW c \in Clients, lock_realm(c) PROVE DestroyInv'
      BY <1>12 DEF lock_realm, FirstPc, UsesApp, Lock
  <1>13. ASSUME NEW c \in Clients, prepare_applications(c) PROVE DestroyInv'
      BY <1>13 DEF prepare_applications
  <1>14. ASSUME NEW c \in Clients, lock_client(c) PROVE DestroyInv'
      BY <1>14 DEF lock_client, Lock
  <1>15. ASSUME NEW c \in Clients, create_provisioning_config(c) PROVE DestroyInv'
    <2>1. /\ UNCHANGED <<cmd, obj, handle, realms>> /\ pc[c] = "Config"
          /\ \A d \in Clients : d # c => pc'[d] = pc[d]
        BY <1>15, Zenon DEF create_provisioning_config
    <2>2. QED
        BY <2>1
  <1>16. ASSUME NEW c \in Clients, call_realm(c) PROVE DestroyInv'
      BY <1>16 DEF call_realm, Unlock
  <1>17. ASSUME NEW c \in Clients, update_application(c) PROVE DestroyInv'
      BY <1>17 DEF update_application
  <1>18. ASSUME NEW c \in Clients, unlock_realm(c) PROVE DestroyInv'
    <2>1. /\ UNCHANGED <<cmd, handle, realms>> /\ pc[c] = "Finish"
          /\ \A d \in Clients : d # c => pc'[d] = pc[d] /\ obj'[d] = obj[d]
          /\ cmd[c] = "Destroy" => obj' = obj
        BY <1>18, ZenonT(60) DEF unlock_realm, AfterGetRealmData
    <2>2. QED
        BY <2>1
  <1>19. ASSUME NEW c \in Clients, drop_realm(c) PROVE DestroyInv'
    <2>1. \A d \in Clients : InWarden(d) /\ cmd[d] = "Destroy" => obj[d] # NoRealm
        BY ConstantsAssumption DEF Pcs, HandlePcs, Objects, NoRealm
    <2>2. /\ UNCHANGED <<cmd, obj, realms>> /\ handle' = [handle EXCEPT ![c] = NoRealm]
          /\ \A d \in Clients : InWarden(d)' => InWarden(d)
        BY <1>19, Zenon DEF drop_realm
    <2>3. QED
        BY <2>1, <2>2
  <1>20. ASSUME NEW c \in Clients, lock_application(c) PROVE DestroyInv'
      BY <1>20 DEF lock_application
  <1>21. ASSUME NEW c \in Clients, lock_application_client(c) PROVE DestroyInv'
      BY <1>21 DEF lock_application_client, Lock
  <1>22. ASSUME NEW c \in Clients, call_application(c) PROVE DestroyInv'
      BY <1>22 DEF call_application, Unlock
  <1>23. QED
    <2> HIDE DEF DestroyInv, TaskInv, InWarden, Registered, Shared
    <2>1. ASSUME NEW c \in Clients, Acquire(c) PROVE DestroyInv'
        BY <2>1, <1>5, <1>6, <1>8, <1>9, <1>10, <1>12, <1>14, <1>17, <1>20, <1>21, Zenon DEF Acquire
    <2>2. ASSUME NEW c \in Clients, Work(c) PROVE DestroyInv'
        BY <2>2, <1>7, <1>11, <1>13, <1>15, <1>16, <1>18, <1>19, <1>22, Zenon DEF Work
    <2>3. QED
        BY <1>1, <1>2, <1>3, <1>4, <2>1, <2>2, Zenon DEF Next

(* Every step keeps the realms of the Arcs in the map. *)
LEMMA HandlesStep ==
  TypeOK /\ TaskInv /\ WardenInv /\ DestroyInv /\ HandlesAreRegistered /\ [Next]_vars => HandlesAreRegistered'
  <1> SUFFICES ASSUME TypeOK, TaskInv, WardenInv, DestroyInv, HandlesAreRegistered, [Next]_vars PROVE HandlesAreRegistered'
      BY Zenon
  <1>T. /\ pc \in [Clients -> Pcs] /\ obj \in [Clients -> Objects \cup {NoRealm}] /\ DOMAIN cmd = Clients
        /\ handle \in [Clients -> Objects \cup {NoRealm}] /\ realms \in [Uuids -> Objects \cup {NoRealm}]
        /\ uuid \in [Clients -> Uuids] /\ created \in 0..MaxRealms
      BY Zenon DEF TypeOK
  <1>C. Nobody \notin Clients /\ MaxRealms \in Nat
      BY ConstantsAssumption, Zenon
  <1>R. \A c \in Clients : pc[c] = "Remove" => ~Shared(obj[c])
      BY Zenon DEF TaskInv, DestroyInv, InWarden
  <1>W. \A c \in Clients : pc[c] = "Create" => realms[uuid[c]] = NoRealm
      BY Zenon DEF WardenInv
  <1> USE <1>T, <1>C, <1>R, <1>W DEF HandlesAreRegistered, Registered, Shared
  <1>1. CASE UNCHANGED vars
      BY <1>1, Zenon DEF vars
  <1>2. CASE cancel \/ join_clients
      BY <1>2 DEF cancel, join_clients
  <1>3. ASSUME NEW c \in Clients, handle_client_requests(c) PROVE HandlesAreRegistered'
      BY <1>3, Zenon DEF handle_client_requests
  <1>4. ASSUME NEW c \in Clients, exit_client(c) PROVE HandlesAreRegistered'
      BY <1>4, Zenon DEF exit_client
  <1>5. ASSUME NEW c \in Clients, get_realm(c) PROVE HandlesAreRegistered'
      BY <1>5 DEF get_realm
  <1>6. ASSUME NEW c \in Clients, create_realm(c) PROVE HandlesAreRegistered'
      BY <1>6, Zenon DEF create_realm
  <1>7. ASSUME NEW c \in Clients, insert_realm(c) PROVE HandlesAreRegistered'
      BY <1>7 DEF insert_realm
  <1>8. ASSUME NEW c \in Clients, ensure_realm_can_be_deleted(c) PROVE HandlesAreRegistered'
      BY <1>8, Zenon DEF ensure_realm_can_be_deleted
  <1>9. ASSUME NEW c \in Clients, inspect_realm(c) PROVE HandlesAreRegistered'
      BY <1>9, Zenon DEF inspect_realm
  <1>10. ASSUME NEW c \in Clients, list_realms(c) PROVE HandlesAreRegistered'
      BY <1>10, Zenon DEF list_realms
  <1>11. ASSUME NEW c \in Clients, destroy_realm(c) PROVE HandlesAreRegistered'
      BY <1>11 DEF destroy_realm
  <1>12. ASSUME NEW c \in Clients, lock_realm(c) PROVE HandlesAreRegistered'
      BY <1>12, Zenon DEF lock_realm, FirstPc, UsesApp, Lock
  <1>13. ASSUME NEW c \in Clients, prepare_applications(c) PROVE HandlesAreRegistered'
      BY <1>13, Zenon DEF prepare_applications
  <1>14. ASSUME NEW c \in Clients, lock_client(c) PROVE HandlesAreRegistered'
      BY <1>14, Zenon DEF lock_client, Lock
  <1>15. ASSUME NEW c \in Clients, create_provisioning_config(c) PROVE HandlesAreRegistered'
      BY <1>15, Zenon DEF create_provisioning_config, Unlock
  <1>16. ASSUME NEW c \in Clients, call_realm(c) PROVE HandlesAreRegistered'
      BY <1>16, Zenon DEF call_realm, Unlock
  <1>17. ASSUME NEW c \in Clients, update_application(c) PROVE HandlesAreRegistered'
      BY <1>17, Zenon DEF update_application
  <1>18. ASSUME NEW c \in Clients, unlock_realm(c) PROVE HandlesAreRegistered'
      BY <1>18, Zenon DEF unlock_realm, AfterGetRealmData, Unlock
  <1>19. ASSUME NEW c \in Clients, drop_realm(c) PROVE HandlesAreRegistered'
      BY <1>19, Zenon DEF drop_realm
  <1>20. ASSUME NEW c \in Clients, lock_application(c) PROVE HandlesAreRegistered'
      BY <1>20, Zenon DEF lock_application
  <1>21. ASSUME NEW c \in Clients, lock_application_client(c) PROVE HandlesAreRegistered'
      BY <1>21, Zenon DEF lock_application_client, Lock
  <1>22. ASSUME NEW c \in Clients, call_application(c) PROVE HandlesAreRegistered'
      BY <1>22, Zenon DEF call_application, Unlock
  <1>23. QED
    <2> HIDE DEF HandlesAreRegistered, Registered, Shared
    <2>1. ASSUME NEW c \in Clients, Acquire(c) PROVE HandlesAreRegistered'
        BY <2>1, <1>5, <1>6, <1>8, <1>9, <1>10, <1>12, <1>14, <1>17, <1>20, <1>21, Zenon DEF Acquire
    <2>2. ASSUME NEW c \in Clients, Work(c) PROVE HandlesAreRegistered'
        BY <2>2, <1>7, <1>11, <1>13, <1>15, <1>16, <1>18, <1>19, <1>22, Zenon DEF Work
    <2>3. QED
        BY <1>1, <1>2, <1>3, <1>4, <2>1, <2>2, Zenon DEF Next

(* Every step keeps the realm that destroy_realm drops Halted. *)
LEMMA HaltedStep ==
  TypeOK /\ TaskInv /\ WardenInv /\ DestroyInv /\ DestroyedIsHalted /\ [Next]_vars => DestroyedIsHalted'
  <1> SUFFICES ASSUME TypeOK, TaskInv, WardenInv, DestroyInv, DestroyedIsHalted, [Next]_vars PROVE DestroyedIsHalted'
      BY Zenon
  <1>T. /\ pc \in [Clients -> Pcs] /\ obj \in [Clients -> Objects \cup {NoRealm}] /\ DOMAIN cmd = Clients
        /\ state \in [Objects -> States] /\ created \in 0..MaxRealms /\ realms \in [Uuids -> Objects \cup {NoRealm}]
      BY Zenon DEF TypeOK
  <1>R. \A d \in Clients : pc[d] = "Remove" =>
          /\ warden = d /\ cmd[d] = "Destroy" /\ obj[d] \in Objects
          /\ \A e \in Clients : handle[e] # obj[d]
      BY Zenon DEF TaskInv, WardenInv, DestroyInv, InWarden, Shared
  <1>H. \A c \in Clients : pc[c] \in HandlePcs =>
          /\ obj[c] \in Objects
          /\ cmd[c] \in WardenCommands => warden = c
          /\ cmd[c] \notin WardenCommands => handle[c] = obj[c]
      BY Zenon DEF TaskInv, WardenInv, InWarden
  <1>C. Nobody \notin Clients /\ MaxRealms \in Nat
      BY ConstantsAssumption, Zenon
  <1>W. \A c \in Clients : pc[c] = "Create" => warden = c
      BY Zenon DEF TaskInv, WardenInv, InWarden
  <1> USE <1>T, <1>R, <1>H, <1>C, <1>W DEF DestroyedIsHalted
  <1>1. CASE UNCHANGED vars
      BY <1>1, Zenon DEF vars
  <1>2. CASE cancel \/ join_clients
      BY <1>2 DEF cancel, join_clients
  <1>3. ASSUME NEW c \in Clients, handle_client_requests(c) PROVE DestroyedIsHalted'
      BY <1>3, Zenon DEF handle_client_requests
  <1>4. ASSUME NEW c \in Clients, exit_client(c) PROVE DestroyedIsHalted'
      BY <1>4, Zenon DEF exit_client
  <1>5. ASSUME NEW c \in Clients, get_realm(c) PROVE DestroyedIsHalted'
      BY <1>5, ZenonT(60) DEF get_realm
  <1>6. ASSUME NEW c \in Clients, create_realm(c) PROVE DestroyedIsHalted'
      BY <1>6 DEF create_realm
  <1>7. ASSUME NEW c \in Clients, insert_realm(c) PROVE DestroyedIsHalted'
      BY <1>7, Zenon DEF insert_realm
  <1>8. ASSUME NEW c \in Clients, ensure_realm_can_be_deleted(c) PROVE DestroyedIsHalted'
      BY <1>8 DEF ensure_realm_can_be_deleted
  <1>9. ASSUME NEW c \in Clients, inspect_realm(c) PROVE DestroyedIsHalted'
      BY <1>9 DEF inspect_realm
  <1>10. ASSUME NEW c \in Clients, list_realms(c) PROVE DestroyedIsHalted'
      BY <1>10 DEF list_realms
  <1>11. ASSUME NEW c \in Clients, destroy_realm(c) PROVE DestroyedIsHalted'
      BY <1>11, Zenon DEF destroy_realm
  <1>12. ASSUME NEW c \in Clients, lock_realm(c) PROVE DestroyedIsHalted'
      BY <1>12 DEF lock_realm, FirstPc, UsesApp, Lock
  <1>13. ASSUME NEW c \in Clients, prepare_applications(c) PROVE DestroyedIsHalted'
    <2>1. /\ UNCHANGED <<cmd, obj>> /\ pc[c] = "Prepare" /\ pc'[c] # "Remove"
          /\ \A d \in Clients : d # c => pc'[d] = pc[d]
        BY <1>13, Zenon DEF prepare_applications
    <2>2. /\ \A o \in Objects : o # obj[c] => state'[o] = state[o]
          /\ cmd[c] # "Start" => state' = state
        BY <1>13 DEF prepare_applications
    <2>3. ASSUME NEW d \in Clients, pc[d] = "Remove", cmd[c] = "Start" PROVE obj[d] # obj[c]
        BY <2>1, <2>3
    <2>4. QED
        BY <2>1, <2>2, <2>3
  <1>14. ASSUME NEW c \in Clients, lock_client(c) PROVE DestroyedIsHalted'
      BY <1>14, Zenon DEF lock_client, Lock
  <1>15. ASSUME NEW c \in Clients, create_provisioning_config(c) PROVE DestroyedIsHalted'
      BY <1>15 DEF create_provisioning_config, Unlock
  <1>16. ASSUME NEW c \in Clients, call_realm(c) PROVE DestroyedIsHalted'
      BY <1>16 DEF call_realm, Unlock
  <1>17. ASSUME NEW c \in Clients, update_application(c) PROVE DestroyedIsHalted'
      BY <1>17, Zenon DEF update_application
  <1>18. ASSUME NEW c \in Clients, unlock_realm(c) PROVE DestroyedIsHalted'
      BY <1>18 DEF unlock_realm, AfterGetRealmData, Unlock
  <1>19. ASSUME NEW c \in Clients, drop_realm(c) PROVE DestroyedIsHalted'
      BY <1>19, Zenon DEF drop_realm
  <1>20. ASSUME NEW c \in Clients, lock_application(c) PROVE DestroyedIsHalted'
      BY <1>20, Zenon DEF lock_application
  <1>21. ASSUME NEW c \in Clients, lock_application_client(c) PROVE DestroyedIsHalted'
      BY <1>21, Zenon DEF lock_application_client, Lock
  <1>22. ASSUME NEW c \in Clients, call_application(c) PROVE DestroyedIsHalted'
      BY <1>22, Zenon DEF call_application, Unlock
  <1>23. QED
    <2> HIDE DEF DestroyedIsHalted
    <2>1. ASSUME NEW c \in Clients, Acquire(c) PROVE DestroyedIsHalted'
        BY <2>1, <1>5, <1>6, <1>8, <1>9, <1>10, <1>12, <1>14, <1>17, <1>20, <1>21, Zenon DEF Acquire
    <2>2. ASSUME NEW c \in Clients, Work(c) PROVE DestroyedIsHalted'
        BY <2>2, <1>7, <1>11, <1>13, <1>15, <1>16, <1>18, <1>19, <1>22, Zenon DEF Work
    <2>3. QED
        BY <1>1, <1>2, <1>3, <1>4, <2>1, <2>2, Zenon DEF Next

(* The initial state satisfies the invariants. *)
LEMMA InitSafe == Init => SafeInv
  BY InitTypes, ConstantsAssumption
  DEF Init, SafeInv, TaskInv, WardenInv, DestroyInv, HandlesAreRegistered, DestroyedIsHalted, InWarden

(* The safety of the map of realms, for any number of clients, realms and   *)
(* applications: an inductive invariant of which the following theorems     *)
(* name the parts.                                                          *)
THEOREM Invariance == Spec => []SafeInv
  <1>1. SafeInv /\ [Next]_vars => SafeInv'
      BY TypeStep, TaskStep, WardenStep, DestroyStep, HandlesStep, HaltedStep, Zenon DEF SafeInv
  <1>2. QED
      BY InitSafe, <1>1, PTL DEF Spec

(* Every variable keeps its type, and a task at an application's mutex has  *)
(* an application of its realm.                                             *)
THEOREM TypeCorrect == Spec => []TypeOK
  <1>1. SafeInv => TypeOK
      BY Zenon DEF SafeInv
  <1>2. QED
      BY <1>1, Invariance, PTL

(* The realm that destroy_realm drops is as ensure_realm_can_be_deleted     *)
(* accepted it: Halted, and its Arc owned by the map alone, so that the     *)
(* expect on Arc::into_inner never fails.                                   *)
THEOREM DestroyActsOnWhatItChecked == Spec => []DestroyIsSafe
  <1>1. SafeInv => DestroyIsSafe
      BY Zenon DEF SafeInv, TaskInv, DestroyInv, DestroyedIsHalted, DestroyIsSafe, InWarden
  <1>2. QED
      BY <1>1, Invariance, PTL

(* A client that waits for a realm's mutex waits for a realm of the map. *)
THEOREM NoStaleHandle == Spec => []HandlesAreRegistered
  <1>1. SafeInv => HandlesAreRegistered
      BY Zenon DEF SafeInv
  <1>2. QED
      BY <1>1, Invariance, PTL
-------------------------------------------------------------------------------
(* The holder of a mutex is between the lock and the unlock of it. *)
LockInv ==
    \A c \in Clients :
        /\ warden = c => InWarden(c)
        /\ \A o \in Objects : realmLock[o] = c => obj[c] = o /\ pc[c] \in HandlePcs \ {"Realm", "Drop"}
        /\ \A o \in Objects : clientLock[o] = c => obj[c] = o /\ pc[c] \in {"Config", "Rpc", "Rpc2", "AppRpc"}

(* Clients that start and stop no applications lock none for long. *)
NoAppInv ==
    /\ \A c \in Clients : cmd[c] \notin AppCommands
    /\ \A o \in Objects, a \in Apps : appLock[o][a] = Nobody

(* Initially nothing is locked. *)
LEMMA InitLocks == Init => LockInv /\ NoAppInv
  BY ConstantsAssumption DEF Init, LockInv, NoAppInv, InWarden

(* Every step preserves the places of the mutexes' holders. *)
LEMMA LockStep ==
  TypeOK /\ TaskInv /\ WardenInv /\ LockInv /\ [Next]_vars => LockInv'
  <1> SUFFICES ASSUME TypeOK, TaskInv, WardenInv, LockInv, [Next]_vars PROVE LockInv'
      BY Zenon
  <1>T. /\ pc \in [Clients -> Pcs] /\ obj \in [Clients -> Objects \cup {NoRealm}] /\ DOMAIN cmd = Clients
        /\ DOMAIN realmLock = Objects /\ DOMAIN clientLock = Objects
      BY Zenon DEF TypeOK
  <1>N. Nobody \notin Clients
      BY ConstantsAssumption, Zenon
  <1>O. \A c \in Clients :
          /\ pc[c] \in HandlePcs \cup {"Remove", "AppLock", "AppClient", "AppRpc"} => obj[c] \in Objects
          /\ pc[c] \in {"Drop", "AppRpc"} => cmd[c] \notin WardenCommands
      BY Zenon DEF TaskInv
  <1> HIDE DEF TypeOK, TaskInv, WardenInv
  <1> USE <1>T, <1>N, <1>O DEF LockInv, InWarden
  <1>1. CASE UNCHANGED vars
      BY <1>1 DEF vars
  <1>2. CASE cancel \/ join_clients
      BY <1>2 DEF cancel, join_clients
  <1>3. ASSUME NEW c \in Clients, handle_client_requests(c) PROVE LockInv'
      BY <1>3 DEF handle_client_requests
  <1>4. ASSUME NEW c \in Clients, exit_client(c) PROVE LockInv'
      BY <1>4 DEF exit_client
  <1>5. ASSUME NEW c \in Clients, get_realm(c) PROVE LockInv'
      BY <1>5 DEF get_realm
  <1>6. ASSUME NEW c \in Clients, create_realm(c) PROVE LockInv'
      BY <1>6 DEF create_realm
  <1>7. ASSUME NEW c \in Clients, insert_realm(c) PROVE LockInv'
      BY <1>7 DEF insert_realm
  <1>8. ASSUME NEW c \in Clients, ensure_realm_can_be_deleted(c) PROVE LockInv'
      BY <1>8 DEF ensure_realm_can_be_deleted
  <1>9. ASSUME NEW c \in Clients, inspect_realm(c) PROVE LockInv'
      BY <1>9 DEF inspect_realm
  <1>10. ASSUME NEW c \in Clients, list_realms(c) PROVE LockInv'
      BY <1>10 DEF list_realms
  <1>11. ASSUME NEW c \in Clients, destroy_realm(c) PROVE LockInv'
      BY <1>11 DEF destroy_realm
  <1>12. ASSUME NEW c \in Clients, lock_realm(c) PROVE LockInv'
      BY <1>12 DEF lock_realm, FirstPc, UsesApp, Lock
  <1>13. ASSUME NEW c \in Clients, prepare_applications(c) PROVE LockInv'
      BY <1>13 DEF prepare_applications
  <1>14. ASSUME NEW c \in Clients, lock_client(c) PROVE LockInv'
      BY <1>14 DEF lock_client, Lock
  <1>15. ASSUME NEW c \in Clients, create_provisioning_config(c) PROVE LockInv'
      BY <1>15 DEF create_provisioning_config, Unlock
  <1>16. ASSUME NEW c \in Clients, call_realm(c) PROVE LockInv'
      BY <1>16 DEF call_realm, Unlock
  <1>17. ASSUME NEW c \in Clients, update_application(c) PROVE LockInv'
      BY <1>17 DEF update_application
  <1>18. ASSUME NEW c \in Clients, unlock_realm(c) PROVE LockInv'
    <2>1. /\ UNCHANGED <<cmd, clientLock>> /\ pc[c] = "Finish"
          /\ \A d \in Clients : d # c => pc'[d] = pc[d] /\ obj'[d] = obj[d]
        BY <1>18 DEF unlock_realm, AfterGetRealmData
    <2>2. \A o \in Objects : realmLock'[o] = IF o = obj[c] THEN Nobody ELSE realmLock[o]
        BY <1>18, Zenon DEF unlock_realm, Unlock
    <2>3. warden' \in {warden, Nobody}
        BY <1>18, Zenon DEF unlock_realm, AfterGetRealmData
    <2>4. warden' = c => pc'[c] \in {"Realm", "Remove", "Drop"}
        BY <1>18 DEF unlock_realm, AfterGetRealmData
    <2>5. warden' = c => InWarden(c)'
        BY <2>1, <2>3, <2>4
    <2>6. ASSUME NEW d \in Clients, warden' = d PROVE InWarden(d)'
      <3>1. CASE d = c
          BY <2>5, <2>6, <3>1, Zenon
      <3>2. CASE d # c
        <4>1. warden = d
            BY <2>3, <2>6, Zenon
        <4>2. InWarden(d)
            BY <4>1, Zenon
        <4>3. QED
            BY <2>1, <3>2, <4>2, Zenon
      <3>3. QED
          BY <3>1, <3>2, Zenon
    <2>7. ASSUME NEW d \in Clients, NEW o \in Objects, realmLock'[o] = d
          PROVE  obj'[d] = o /\ pc'[d] \in HandlePcs \ {"Realm", "Drop"}
      <3>1. o # obj[c] /\ realmLock[o] = d
          BY <2>2, <2>7, ZenonT(60)
      <3>2. obj[d] = o /\ pc[d] \in HandlePcs \ {"Realm", "Drop"}
          BY <3>1, Zenon
      <3>3. QED
          BY <2>1, <3>1, <3>2, Zenon
    <2>8. ASSUME NEW d \in Clients, NEW o \in Objects, clientLock'[o] = d
          PROVE  obj'[d] = o /\ pc'[d] \in {"Config", "Rpc", "Rpc2", "AppRpc"}
      <3>1. clientLock[o] = d
          BY <2>1, <2>8, Zenon
      <3>2. obj[d] = o /\ pc[d] \in {"Config", "Rpc", "Rpc2", "AppRpc"}
          BY <3>1, ZenonT(60)
      <3>3. QED
          BY <2>1, <3>2, Zenon
    <2>9. QED
        BY <2>6, <2>7, <2>8, Zenon
  <1>19. ASSUME NEW c \in Clients, drop_realm(c) PROVE LockInv'
      BY <1>19 DEF drop_realm
  <1>20. ASSUME NEW c \in Clients, lock_application(c) PROVE LockInv'
      BY <1>20 DEF lock_application
  <1>21. ASSUME NEW c \in Clients, lock_application_client(c) PROVE LockInv'
      BY <1>21 DEF lock_application_client, Lock
  <1>22. ASSUME NEW c \in Clients, call_application(c) PROVE LockInv'
    <2>1. /\ UNCHANGED <<cmd, obj, warden, realmLock>> /\ pc[c] = "AppRpc"
          /\ \A d \in Clients : d # c => pc'[d] = pc[d]
        BY <1>22, Zenon DEF call_application
    <2>2. \A o \in Objects : clientLock'[o] = IF o = obj[c] THEN Nobody ELSE clientLock[o]
        BY <1>22, Zenon DEF call_application, Unlock
    <2>3. QED
        BY <2>1, <2>2
  <1>23. QED
    <2> HIDE DEF LockInv, InWarden
    <2>1. ASSUME NEW c \in Clients, Acquire(c) PROVE LockInv'
        BY <2>1, <1>5, <1>6, <1>8, <1>9, <1>10, <1>12, <1>14, <1>17, <1>20, <1>21, Zenon DEF Acquire
    <2>2. ASSUME NEW c \in Clients, Work(c) PROVE LockInv'
        BY <2>2, <1>7, <1>11, <1>13, <1>15, <1>16, <1>18, <1>19, <1>22, Zenon DEF Work
    <2>3. QED
        BY <1>1, <1>2, <1>3, <1>4, <2>1, <2>2, Zenon DEF Next

(* Without application commands no application stays locked. *)
LEMMA NoAppStep ==
  ASSUME Commands \cap AppCommands = {}
  PROVE  TypeOK /\ TaskInv /\ NoAppInv /\ [Next]_vars => NoAppInv'
  <1> SUFFICES ASSUME TypeOK, TaskInv, NoAppInv, [Next]_vars PROVE NoAppInv'
      BY Zenon
  <1>T. /\ DOMAIN cmd = Clients /\ appLock \in [Objects -> [Apps -> Clients \cup {Nobody}]]
        /\ app \in [Clients -> Apps \cup {NoApp}]
      BY Zenon DEF TypeOK
  <1>O. \A c \in Clients :
          /\ pc[c] \in {"AppLock", "AppClient", "AppRpc"} => cmd[c] \in AppCommands
          /\ pc[c] \in HandlePcs => obj[c] \in Objects
      BY Zenon DEF TaskInv
  <1> USE <1>T, <1>O DEF NoAppInv
  <1>1. CASE UNCHANGED vars
      BY <1>1, Zenon DEF vars
  <1>2. CASE cancel \/ join_clients
      BY <1>2, ZenonT(60) DEF cancel, join_clients
  <1>3. ASSUME NEW c \in Clients, handle_client_requests(c) PROVE NoAppInv'
      BY <1>3, Zenon DEF handle_client_requests
  <1>4. ASSUME NEW c \in Clients, exit_client(c) PROVE NoAppInv'
      BY <1>4, Zenon DEF exit_client
  <1>5. ASSUME NEW c \in Clients, get_realm(c) PROVE NoAppInv'
      BY <1>5, Zenon DEF get_realm
  <1>6. ASSUME NEW c \in Clients, create_realm(c) PROVE NoAppInv'
      BY <1>6, Zenon DEF create_realm
  <1>7. ASSUME NEW c \in Clients, insert_realm(c) PROVE NoAppInv'
      BY <1>7, Zenon DEF insert_realm
  <1>8. ASSUME NEW c \in Clients, ensure_realm_can_be_deleted(c) PROVE NoAppInv'
      BY <1>8, Zenon DEF ensure_realm_can_be_deleted
  <1>9. ASSUME NEW c \in Clients, inspect_realm(c) PROVE NoAppInv'
      BY <1>9, Zenon DEF inspect_realm
  <1>10. ASSUME NEW c \in Clients, list_realms(c) PROVE NoAppInv'
      BY <1>10, Zenon DEF list_realms
  <1>11. ASSUME NEW c \in Clients, destroy_realm(c) PROVE NoAppInv'
      BY <1>11, Zenon DEF destroy_realm
  <1>12. ASSUME NEW c \in Clients, lock_realm(c) PROVE NoAppInv'
      BY <1>12, ZenonT(60) DEF lock_realm, FirstPc, UsesApp, Lock
  <1>13. ASSUME NEW c \in Clients, prepare_applications(c) PROVE NoAppInv'
      BY <1>13, Zenon DEF prepare_applications
  <1>14. ASSUME NEW c \in Clients, lock_client(c) PROVE NoAppInv'
      BY <1>14, Zenon DEF lock_client, Lock
  <1>15. ASSUME NEW c \in Clients, create_provisioning_config(c) PROVE NoAppInv'
      BY <1>15, Zenon DEF create_provisioning_config, Unlock
  <1>16. ASSUME NEW c \in Clients, call_realm(c) PROVE NoAppInv'
      BY <1>16, Zenon DEF call_realm, Unlock
  <1>17. ASSUME NEW c \in Clients, update_application(c) PROVE NoAppInv'
      BY <1>17, Zenon DEF update_application
  <1>18. ASSUME NEW c \in Clients, unlock_realm(c) PROVE NoAppInv'
      BY <1>18, Zenon DEF unlock_realm, AfterGetRealmData, Unlock
  <1>19. ASSUME NEW c \in Clients, drop_realm(c) PROVE NoAppInv'
      BY <1>19, Zenon DEF drop_realm
  <1>20. ASSUME NEW c \in Clients, lock_application(c) PROVE NoAppInv'
      BY <1>20, Zenon DEF lock_application
  <1>21. ASSUME NEW c \in Clients, lock_application_client(c) PROVE NoAppInv'
      BY <1>21, Zenon DEF lock_application_client, Lock
  <1>22. ASSUME NEW c \in Clients, call_application(c) PROVE NoAppInv'
      BY <1>22, Zenon DEF call_application, Unlock
  <1>23. QED
    <2> HIDE DEF NoAppInv
    <2>1. ASSUME NEW c \in Clients, Acquire(c) PROVE NoAppInv'
        BY <2>1, <1>5, <1>6, <1>8, <1>9, <1>10, <1>12, <1>14, <1>17, <1>20, <1>21, Zenon DEF Acquire
    <2>2. ASSUME NEW c \in Clients, Work(c) PROVE NoAppInv'
        BY <2>2, <1>7, <1>11, <1>13, <1>15, <1>16, <1>18, <1>19, <1>22, Zenon DEF Work
    <2>3. QED
        BY <1>1, <1>2, <1>3, <1>4, <2>1, <2>2, Zenon DEF Next

(* The holders' places leave no circle: a client waits for the map only     *)
(* with nothing locked, for a realm with at most the map, and for a client  *)
(* handler with at most these two, and nobody that has locked a client      *)
(* handler waits.                                                           *)
LEMMA LockOrder == SafeInv /\ LockInv /\ NoAppInv => NoCircularWait
  <1> SUFFICES ASSUME SafeInv, LockInv, NoAppInv,
                      NEW S \in SUBSET Clients, S # {},
                      \A c \in S : \E d \in S : WaitsFor(c, d)
               PROVE  FALSE
      BY Zenon DEF NoCircularWait
  <1>T. /\ \A c \in Clients : todo[c] \subseteq Apps /\ app[c] \in Apps \cup {NoApp}
        /\ \A c \in Clients : pc[c] \in AppPcs => app[c] # NoApp
        /\ \A c \in Clients : pc[c] \in HandlePcs \cup {"AppLock", "AppClient"} => obj[c] \in Objects
        /\ \A c \in Clients : pc[c] \in {"AppLock", "AppClient"} => cmd[c] \in AppCommands
      BY Zenon DEF SafeInv, TypeOK, TaskInv
  <1>N. Nobody \notin Clients
      BY ConstantsAssumption, Zenon
  <1> USE <1>T
  <1>1. \A c \in S : pc[c] \in {"Warden", "Realm", "Client", "Client2"}
      BY <1>N DEF WaitsFor, NoAppInv
  <1>2. \A c \in S : pc[c] \notin {"Client", "Client2"}
      BY <1>1 DEF WaitsFor, LockInv
  <1>3. \A c \in S : pc[c] # "Realm"
      BY <1>1, <1>2 DEF WaitsFor, LockInv
  <1>4. \A c \in S : pc[c] # "Warden"
      BY <1>1, <1>2, <1>3 DEF WaitsFor, LockInv, InWarden
  <1>5. QED
      BY <1>1, <1>2, <1>3, <1>4, ZenonT(60)

(* As long as no client starts or stops an application, no group of clients *)
(* waits for each other, however many there are: the mutexes of the map, a  *)
(* realm and its client handler are taken in this order.                    *)
THEOREM NoDeadlockWithoutAppCommands ==
  ASSUME Commands \cap AppCommands = {}
  PROVE  Spec => []NoCircularWait
  <1>1. SafeInv /\ LockInv /\ NoAppInv /\ [Next]_vars => LockInv' /\ NoAppInv'
      BY LockStep, NoAppStep, Zenon DEF SafeInv
  <1>2. QED
      BY InitLocks, <1>1, LockOrder, Invariance, PTL DEF Spec
===============================================================================
