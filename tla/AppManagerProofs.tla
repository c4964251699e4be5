--------------------------- MODULE AppManagerProofs ---------------------------
(***************************************************************************)
(* Theorems about AppManager, for any finite set of applications and any   *)
(* number of requests and faults: what is measured, and what is left when  *)
(* the realm goes down.                                                    *)
(***************************************************************************)
EXTENDS AppManager, FiniteSetTheorems, SequenceTheorems, TLAPS

(* An application that provision has taken in has been set up, and only one *)
(* that is being set up gets devices, first that of its image.              *)
TaskInv ==
    /\ \A a \in apps : task[a] = "Ok"
    /\ \A a \in Apps : /\ task[a] = "image_device" => devices[a] = <<>>
                       /\ task[a] \in {"image_mount", "install", "data_device"} => devices[a] = <<"image">>

(* What has been joined and measured at each await of provision. As long as *)
(* no application was taken in, nothing was measured, and another           *)
(* ProvisionInfo can replace the list.                                      *)
Provisioning == {"Spawn", "Join", "Measure", "AutoStart"}
PhaseInv ==
    /\ rem \in Seq(Apps \cup {Partial})
    /\ apps = {} => rem = <<>>
    /\ mgr \in Provisioning => reply = "None"
    /\ mgr = "Spawn" => apps = {}
    /\ mgr = "Join" => apps \subseteq Listed /\ rem = <<>>
    /\ mgr = "Measure" => apps = Listed /\ Len(rem) = at - 1 /\ at <= Len(list) + 1 /\ \A i \in DOMAIN rem : rem[i] = list[i]
    /\ mgr = "AutoStart" => apps = Listed /\ rem = list

(* shutdown_all_apps has cleaned up those it is done with, or has failed.   *)
CleanInv ==
    mgr = "StopAll" =>
        \A a \in apps \ (failed \cup todo) : mounts[a] = {} /\ kernel[a] = {} /\ handler[a] = "Idle"

ManagerInv == TypeOK /\ TaskInv /\ PhaseInv /\ CleanInv /\ RemFollowsRequest /\ OthersAreCleanedUp
-------------------------------------------------------------------------------
LEMMA CardType == Cardinality(Apps) \in Nat
  BY ConstantsAssumption, FS_CardinalityType, Zenon

LEMMA FaultType == TypeOK /\ (Fault \/ UNCHANGED faults) => faults' \in 0..MaxFaults
  BY ConstantsAssumption DEF TypeOK, Fault

LEMMA ReceiveType ==
    ASSUME TypeOK, NEW k, NEW a, Receive(k, a)
    PROVE  requests' \in 0..MaxRequests /\ mgr = "Recv" /\ kind' = k /\ app' = a
  BY ConstantsAssumption DEF TypeOK, Receive

(* The list of a ProvisionInfo. *)
LEMMA ListType ==
    ASSUME TypeOK
    PROVE  /\ list \in Seq(Apps) /\ Len(list) \in 0..Cardinality(Apps) /\ DOMAIN list = 1..Len(list)
           /\ Listed \subseteq Apps
           /\ \A i \in 1..Len(list) : list[i] \in Listed
  <1>1. CASE list = <<>>
    <2>1. list \in Seq(Apps) /\ Len(list) = 0 /\ DOMAIN list = 1..0
        BY <1>1
    <2>2. Listed = {}
        BY <2>1 DEF Listed
    <2> QED
        BY <2>1, <2>2, CardType
  <1>2. CASE list \in Orders
    <2>1. list \in [1..Cardinality(Apps) -> Apps]
        BY <1>2, Zenon DEF Orders
    <2>2. list \in Seq(Apps) /\ Len(list) = Cardinality(Apps)
        BY <2>1, CardType
    <2> QED
        BY <2>1, <2>2, CardType DEF Listed
  <1> QED
      BY <1>1, <1>2, Zenon DEF TypeOK

(* The stages and their order. *)
StageNames == {"image_device", "image_mount", "install", "data_device", "data_mount", "overlay", "prepare"}
LEMMA StageType ==
    /\ {Stages[i] : i \in DOMAIN Stages} = StageNames
    /\ Stages[1] = "image_device"
    /\ \A a : InSetup(a) <=> task[a] \in StageNames
  <1>1. DOMAIN Stages = 1..7
      BY DEF Stages
  <1>2. /\ Stages[1] = "image_device" /\ Stages[2] = "image_mount" /\ Stages[3] = "install" /\ Stages[4] = "data_device"
        /\ Stages[5] = "data_mount" /\ Stages[6] = "overlay" /\ Stages[7] = "prepare"
      BY Zenon DEF Stages
  <1>3. \A i \in 1..7 : i = 1 \/ i = 2 \/ i = 3 \/ i = 4 \/ i = 5 \/ i = 6 \/ i = 7
      OBVIOUS
  <1>4. 1 \in 1..7 /\ 2 \in 1..7 /\ 3 \in 1..7 /\ 4 \in 1..7 /\ 5 \in 1..7 /\ 6 \in 1..7 /\ 7 \in 1..7
      OBVIOUS
  <1>5. {Stages[i] : i \in DOMAIN Stages} = StageNames
    <2>1. ASSUME NEW i \in DOMAIN Stages PROVE Stages[i] \in StageNames
        BY <1>1, <1>2, <1>3, Zenon DEF StageNames
    <2>2. ASSUME NEW s \in StageNames PROVE \E i \in DOMAIN Stages : s = Stages[i]
        BY <1>1, <1>2, <1>4, Zenon DEF StageNames
    <2> QED
        BY <2>1, <2>2, Zenon
  <1> QED
      BY <1>2, <1>5, Zenon DEF InSetup

LEMMA NextStages ==
    /\ NextStage("image_device") = "image_mount" /\ NextStage("image_mount") = "install"
    /\ NextStage("install") = "data_device" /\ NextStage("data_device") = "data_mount"
    /\ NextStage("data_mount") = "overlay" /\ NextStage("overlay") = "prepare" /\ NextStage("prepare") = "Ok"
  <1>1. DOMAIN Stages = 1..7 /\ Len(Stages) = 7
      BY DEF Stages
  <1>2. /\ Stages[1] = "image_device" /\ Stages[2] = "image_mount" /\ Stages[3] = "install" /\ Stages[4] = "data_device"
        /\ Stages[5] = "data_mount" /\ Stages[6] = "overlay" /\ Stages[7] = "prepare"
      BY Zenon DEF Stages
  <1>3. \A i, j \in 1..7 : Stages[i] = Stages[j] => i = j
      BY <1>2
  <1>4. \A j \in 1..7 : (CHOOSE i \in DOMAIN Stages : Stages[i] = Stages[j]) = j
      BY <1>1, <1>3, Zenon
  <1> HIDE DEF Stages
  <1>5. \A j \in 1..7 : NextStage(Stages[j]) = IF j = 7 THEN "Ok" ELSE Stages[j + 1]
    <2> SUFFICES ASSUME NEW j \in 1..7 PROVE NextStage(Stages[j]) = IF j = 7 THEN "Ok" ELSE Stages[j + 1]
        BY Zenon
    <2> DEFINE c == CHOOSE i \in DOMAIN Stages : Stages[i] = Stages[j]
    <2>1. NextStage(Stages[j]) = IF c = Len(Stages) THEN "Ok" ELSE Stages[c + 1]
        BY Zenon DEF NextStage
    <2>2. c = j
        BY <1>4, Zenon
    <2> QED
        BY <1>1, <2>1, <2>2, Zenon
  <1> QED
      BY <1>2, <1>5

LEMMA Appended ==
    ASSUME NEW S, NEW s \in Seq(S), NEW x \in S
    PROVE  /\ Append(s, x) \in Seq(S) /\ Len(Append(s, x)) = Len(s) + 1
           /\ \A i \in 1..Len(s) : Append(s, x)[i] = s[i]
           /\ Append(s, x)[Len(s) + 1] = x
  OBVIOUS

(* The devices of an application, in the order of their creation. *)
LEMMA Devices ==
    /\ Append(<<>>, "image") = <<"image">> /\ Append(<<"image">>, "data") = <<"image", "data">>
    /\ SubSeq(<<"image", "data">>, 1, 1) = <<"image">>
  <1> DEFINE S == {"image", "data"}
             one == <<"image">>
             two == <<"image", "data">>
  <1>1. one \in Seq(S) /\ Len(one) = 1 /\ one[1] = "image"
      OBVIOUS
  <1>2. two \in Seq(S) /\ Len(two) = 2 /\ two[1] = "image" /\ two[2] = "data"
      OBVIOUS
  <1>3. Append(<<>>, "image") = <<"image">>
      OBVIOUS
  <1> HIDE DEF one, two
  <1>4. Append(one, "data") = two
    <2>1. /\ Append(one, "data") \in Seq(S) /\ Len(Append(one, "data")) = 2
          /\ Append(one, "data")[1] = "image" /\ Append(one, "data")[2] = "data"
      <3>1. "data" \in S /\ 1 \in 1..Len(one) /\ Len(one) + 1 = 2
          BY <1>1
      <3> HIDE DEF S
      <3>2. \A s \in Seq(S) : \A x \in S :
                 /\ Append(s, x) \in Seq(S) /\ Len(Append(s, x)) = Len(s) + 1
                 /\ \A i \in 1..Len(s) : Append(s, x)[i] = s[i]
                 /\ Append(s, x)[Len(s) + 1] = x
          BY Appended, Zenon
      <3>3. Append(one, "data") \in Seq(S) /\ Len(Append(one, "data")) = Len(one) + 1
          BY <1>1, <3>1, <3>2, Zenon
      <3>4. Append(one, "data")[Len(one) + 1] = "data"
          BY <1>1, <3>1, <3>2, Zenon
      <3>5. Append(one, "data")[1] = one[1]
          BY <1>1, <3>1, <3>2, Zenon
      <3> QED
          BY <1>1, <3>1, <3>3, <3>4, <3>5, Zenon
    <2> QED
        BY <1>2, <2>1
  <1>5. SubSeq(two, 1, 1) = one
    <2>1. SubSeq(two, 1, 1) \in Seq(S) /\ Len(SubSeq(two, 1, 1)) = 1 /\ SubSeq(two, 1, 1)[1] = "image"
        BY <1>2
    <2> QED
        BY <1>1, <2>1
  <1> QED
      BY <1>3, <1>4, <1>5, Zenon DEF one, two
-------------------------------------------------------------------------------
LEMMA InitManager == Init => ManagerInv
  <1> SUFFICES ASSUME Init PROVE ManagerInv
      BY Zenon
  <1>1. 0 \in 0..MaxRequests /\ 0 \in 0..MaxFaults /\ 1 \in 1..Cardinality(Apps) + 1
      BY ConstantsAssumption, CardType
  <1>2. TypeOK
      BY <1>1, Zenon DEF Init, TypeOK, NoApp
  <1>3. rem \in Seq(Apps \cup {Partial}) /\ DOMAIN rem = {}
      BY DEF Init
  <1>4. TaskInv /\ PhaseInv /\ CleanInv
      BY <1>3, Zenon DEF Init, TaskInv, PhaseInv, CleanInv, Provisioning
  <1>5. RemFollowsRequest /\ OthersAreCleanedUp
      BY <1>3, Zenon DEF Init, RemFollowsRequest, OthersAreCleanedUp
  <1> QED
      BY <1>2, <1>4, <1>5, Zenon DEF ManagerInv

(* A step outside of provision. *)
LEMMA Elsewhere ==
    ASSUME ManagerInv, UNCHANGED <<list, at, apps, task, devices, rem>>,
           mgr' \notin Provisioning \/ UNCHANGED mgr, (reply' # "Provisioned" /\ mgr \notin Provisioning) \/ UNCHANGED reply
    PROVE  TaskInv' /\ PhaseInv' /\ RemFollowsRequest'
  <1>1. TaskInv'
      BY Zenon DEF ManagerInv, TaskInv
  <1>2. PhaseInv'
      BY Zenon DEF ManagerInv, PhaseInv, Provisioning, Listed
  <1>3. RemFollowsRequest'
      BY Zenon DEF ManagerInv, RemFollowsRequest, Listed
  <1> QED
      BY <1>1, <1>2, <1>3, Zenon

(* The requests on one application, and the others that change nothing. *)
LEMMA RequestSteps ==
    ASSUME ManagerInv,
           read_only \/ stopped \/ \E a \in Apps : start_app(a) \/ stop_app(a) \/ check_status(a)
    PROVE  ManagerInv'
  <1>0. TypeOK
      BY Zenon DEF ManagerInv
  <1>1. /\ UNCHANGED <<list, at, todo, apps, task, aborted, rem, devices, kernel, mounts, conn, failed>>
        /\ mgr \in {"Recv", "Stop"} /\ mgr' \in {"Stop", "Reply"}
        /\ reply' \in {"None", "Success", "Error", "Exited", "IsRunning", "NotStarted"} /\ (mgr' = "Reply" => reply' # "None")
      BY Zenon DEF read_only, stopped, start_app, stop_app, check_status, Receive, Respond, NotFound, provisionVars, diskVars
  <1>2. /\ kind' \in {"Read", "StartApp", "StopApp", "CheckStatus", kind} /\ app' \in Apps \cup {NoApp, app}
        /\ handler' \in [Apps -> {"Idle", "Up", "Exited", "Lost"}]
      BY <1>0, Zenon DEF TypeOK, read_only, stopped, start_app, stop_app, check_status, Receive, Spawn, SpawnFails
  <1>3. requests' \in 0..MaxRequests
      BY <1>0, ReceiveType, Zenon DEF TypeOK, read_only, stopped, start_app, stop_app, check_status, bounds
  <1>4. faults' \in 0..MaxFaults
    <2>1. Fault \/ UNCHANGED faults
        BY Zenon DEF read_only, stopped, start_app, stop_app, check_status, bounds, Spawn, SpawnFails
    <2> QED
        BY <1>0, <2>1, FaultType, Zenon
  <1>5. TypeOK'
      BY <1>0, <1>1, <1>2, <1>3, <1>4 DEF TypeOK
  <1>6. TaskInv' /\ PhaseInv' /\ RemFollowsRequest'
      BY <1>1, Elsewhere, Zenon DEF Provisioning
  <1> QED
      BY <1>1, <1>5, <1>6, Zenon DEF ManagerInv, CleanInv, OthersAreCleanedUp

(* Going down begins, and the response is sent. *)
LEMMA DownSteps ==
    ASSUME ManagerInv, perform_reboot \/ send_msg \/ reboot
    PROVE  ManagerInv'
  <1>0. TypeOK
      BY Zenon DEF ManagerInv
  <1>1. UNCHANGED <<list, at, apps, task, aborted, rem, devices, kernel, mounts, handler, conn, failed>>
      BY Zenon DEF perform_reboot, send_msg, reboot, provisionVars, diskVars
  <1>2. /\ mgr \in {"Recv", "Reply", "StopAll"} /\ mgr' \in {"Recv", "Reply", "StopAll", "Off", "Panicked"}
        /\ reply' \in {"None", "Error", reply} /\ (mgr' = "Reply" => reply' # "None")
        /\ kind' \in {"Power", "SendFailed", kind} /\ app' \in {NoApp, app}
      BY Zenon DEF perform_reboot, send_msg, reboot, Receive, Respond
  <1>3. /\ todo' \in {todo, apps}
        /\ mgr' = "StopAll" => todo' = apps
        /\ mgr' \in {"Off", "Panicked"} => mgr = "StopAll" /\ todo = {}
      BY Zenon DEF perform_reboot, send_msg, reboot, Receive, Respond, provisionVars
  <1>4. requests' \in 0..MaxRequests
      BY <1>0, ReceiveType, Zenon DEF TypeOK, perform_reboot, send_msg, reboot, bounds
  <1>5. faults' \in 0..MaxFaults
    <2>1. Fault \/ UNCHANGED faults
        BY Zenon DEF perform_reboot, send_msg, reboot, bounds
    <2> QED
        BY <1>0, <2>1, FaultType, Zenon
  <1>6. TypeOK'
      BY <1>0, <1>1, <1>2, <1>3, <1>4, <1>5 DEF TypeOK
  <1>7. TaskInv' /\ PhaseInv' /\ RemFollowsRequest'
      BY <1>1, <1>2, Elsewhere, Zenon DEF Provisioning
  <1>8. CleanInv' /\ OthersAreCleanedUp'
      BY <1>1, <1>3, Zenon DEF ManagerInv, CleanInv, OthersAreCleanedUp
  <1> QED
      BY <1>6, <1>7, <1>8, Zenon DEF ManagerInv

(* The processes of the applications, and the host. *)
LEMMA OutsideSteps ==
    ASSUME ManagerInv, disconnect \/ \E a \in Apps : app_exits(a) \/ app_lost(a)
    PROVE  ManagerInv'
  <1>0. TypeOK
      BY Zenon DEF ManagerInv
  <1>1. /\ UNCHANGED <<mgr, kind, app, reply, list, at, todo, apps, task, aborted, rem, devices, kernel, mounts, requests>>
        /\ mgr \notin {"Off", "Panicked"}
      BY Zenon DEF disconnect, app_exits, app_lost, Alive, requestVars, provisionVars, diskVars, bounds
  <1>2. /\ handler' \in [Apps -> {"Idle", "Up", "Exited", "Lost"}] /\ failed \subseteq failed' /\ failed' \subseteq Apps
        /\ \A a \in Apps \ failed' : handler[a] = "Idle" => handler'[a] = "Idle"
      BY <1>0, Zenon DEF TypeOK, disconnect, app_exits, app_lost
  <1>3. conn' \in BOOLEAN /\ faults' \in 0..MaxFaults
    <2>1. conn' \in BOOLEAN /\ (Fault \/ UNCHANGED faults)
        BY <1>0, Zenon DEF TypeOK, disconnect, app_exits, app_lost, bounds
    <2> QED
        BY <1>0, <2>1, FaultType, Zenon
  <1>4. TypeOK'
      BY <1>0, <1>1, <1>2, <1>3 DEF TypeOK
  <1>5. TaskInv' /\ PhaseInv' /\ RemFollowsRequest'
      BY <1>1, Elsewhere, Zenon
  <1>6. CleanInv' /\ OthersAreCleanedUp'
      BY <1>0, <1>1, <1>2, Zenon DEF TypeOK, ManagerInv, CleanInv, OthersAreCleanedUp
  <1> QED
      BY <1>4, <1>5, <1>6, Zenon DEF ManagerInv

(* shutdown_all_apps stops and cleans up one application. *)
LEMMA ShutdownStep ==
    ASSUME ManagerInv, NEW a \in Apps, shutdown_app(a)
    PROVE  ManagerInv'
  <1>0. TypeOK
      BY Zenon DEF ManagerInv
  <1>1. /\ UNCHANGED <<mgr, kind, app, reply, list, at, apps, task, aborted, rem, conn, requests>>
        /\ mgr = "StopAll" /\ a \in todo /\ todo' = todo \ {a} /\ handler[a] # "Up" /\ a \in apps
        /\ handler' = [handler EXCEPT ![a] = IF handler[a] = "Exited" THEN "Idle" ELSE handler[a]]
        /\ Clean(a) \/ CleanFails(a)
      BY <1>0, Zenon DEF shutdown_app, TypeOK, requestVars
  <1>2. handler' \in [Apps -> {"Idle", "Up", "Exited", "Lost"}]
      BY <1>0, <1>1, Zenon DEF TypeOK
  <1>3. faults' \in 0..MaxFaults
    <2>1. Fault \/ UNCHANGED faults
        BY <1>1, Zenon DEF Clean, CleanFails
    <2> QED
        BY <1>0, <2>1, FaultType, Zenon
  <1>4. /\ failed \subseteq failed' /\ failed' \subseteq Apps
        /\ mounts' \in [Apps -> SUBSET AllMounts]
        /\ \A b \in Apps \ {a} : mounts'[b] = mounts[b] /\ kernel'[b] = kernel[b] /\ devices'[b] = devices[b] /\ handler'[b] = handler[b]
        /\ a \in failed' \/ (mounts'[a] = {} /\ kernel'[a] = {} /\ handler'[a] = "Idle")
    <2>1. CASE Clean(a)
        BY <1>0, <1>1, <2>1, Zenon DEF TypeOK, Clean
    <2>2. CASE CleanFails(a)
        BY <1>0, <1>1, <2>2 DEF TypeOK, CleanFails, diskVars, AllMounts
    <2> QED
        BY <1>1, <2>1, <2>2, Zenon
  <1>5. devices' \in [Apps -> {<<>>, <<"image">>, <<"data">>, <<"image", "data">>}] /\ kernel' \in [Apps -> SUBSET {"image", "data"}]
    <2>1. CASE UNCHANGED <<devices, kernel>> \/ Clean(a)
        BY <1>0, <2>1, Zenon DEF TypeOK, Clean
    <2>2. ASSUME NEW n \in 1..Len(devices[a]),
                 devices' = [devices EXCEPT ![a] = SubSeq(devices[a], 1, n - 1)],
                 kernel' = [kernel EXCEPT ![a] = {devices[a][i] : i \in 1..n}]
          PROVE  devices' \in [Apps -> {<<>>, <<"image">>, <<"data">>, <<"image", "data">>}] /\ kernel' \in [Apps -> SUBSET {"image", "data"}]
      <3>1. devices[a] \in {<<>>, <<"image">>, <<"data">>, <<"image", "data">>}
          BY <1>0, Zenon DEF TypeOK
      <3>2. SubSeq(devices[a], 1, n - 1) \in {<<>>, <<"image">>, <<"data">>, <<"image", "data">>}
        <4>1. CASE devices[a] = <<>>
            BY <2>2, <4>1
        <4>2. CASE devices[a] \in {<<"image">>, <<"data">>}
          <5>1. Len(devices[a]) = 1
              BY <4>2
          <5>2. n = 1
              BY <5>1
          <5> QED
              BY <4>2, <5>2
        <4>3. CASE devices[a] = <<"image", "data">>
          <5>1. n = 1 \/ n = 2
              BY <2>2, <4>3
          <5>2. n = 1 => SubSeq(devices[a], 1, n - 1) = <<>>
              BY <4>3
          <5>3. n = 2 => SubSeq(devices[a], 1, n - 1) = <<"image">>
              BY <4>3, Devices
          <5> QED
              BY <5>1, <5>2, <5>3, Zenon
        <4> QED
            BY <3>1, <4>1, <4>2, <4>3, Zenon
      <3>3. {devices[a][i] : i \in 1..n} \subseteq {"image", "data"}
          BY <2>2, <3>1
      <3> QED
          BY <1>0, <2>2, <3>2, <3>3, Zenon DEF TypeOK
    <2> QED
        BY <1>1, <2>1, <2>2, Zenon DEF CleanFails, diskVars
  <1>6. TypeOK'
      BY <1>0, <1>1, <1>2, <1>3, <1>4, <1>5, Zenon DEF TypeOK
  <1>7. TaskInv'
      BY <1>0, <1>1, <1>4 DEF TypeOK, ManagerInv, TaskInv
  <1>8. PhaseInv' /\ RemFollowsRequest' /\ OthersAreCleanedUp'
      BY <1>1, Zenon DEF ManagerInv, PhaseInv, RemFollowsRequest, OthersAreCleanedUp, Provisioning, Listed
  <1>9. CleanInv'
      BY <1>0, <1>1, <1>4 DEF TypeOK, ManagerInv, CleanInv
  <1> QED
      BY <1>6, <1>7, <1>8, <1>9, Zenon DEF ManagerInv

(* A stage of a setup. *)
LEMMA SetupStep ==
    ASSUME ManagerInv, NEW a \in Apps, setup(a)
    PROVE  ManagerInv'
  <1>0. TypeOK /\ TaskInv
      BY Zenon DEF ManagerInv
  <1>1. /\ UNCHANGED <<mgr, kind, app, reply, list, at, todo, apps, aborted, rem, handler, conn, requests>>
        /\ mgr \notin {"Off", "Panicked"}
        /\ decrypt_partition(a) \/ mount_stage(a) \/ launcher_stage(a) \/ drop_aborted(a)
      BY Zenon DEF setup, Alive, requestVars
  <1>2. task[a] \in StageNames
      BY <1>1, StageType, Zenon DEF decrypt_partition, mount_stage, launcher_stage, drop_aborted, StageNames, AllMounts
  <1>3. a \notin apps
      BY <1>0, <1>2, Zenon DEF TaskInv, StageNames
  <1>4. faults' \in 0..MaxFaults
    <2>1. Fault \/ UNCHANGED faults
        BY <1>1, Zenon DEF decrypt_partition, mount_stage, launcher_stage, drop_aborted
    <2> QED
        BY <1>0, <2>1, FaultType, Zenon
  <1>5. /\ failed' \in {failed, failed \cup {a}}
        /\ \E s \in {NextStage(task[a]), "Err", "Aborted"} : task' = [task EXCEPT ![a] = s]
      BY <1>1, Zenon DEF decrypt_partition, mount_stage, launcher_stage, drop_aborted, SetupFails, Advance
  <1>6. task' \in [Apps -> StageNames \cup {"None", "Ok", "Err", "Aborted"}]
    <2>1. NextStage(task[a]) \in StageNames \cup {"Ok"}
        BY <1>2, NextStages, Zenon DEF StageNames
    <2>2. task \in [Apps -> StageNames \cup {"None", "Ok", "Err", "Aborted"}]
        BY <1>0, StageType, Zenon DEF TypeOK
    <2> QED
        BY <1>5, <2>1, <2>2, Zenon
  <1>7. /\ mounts' \in [Apps -> SUBSET AllMounts] /\ kernel' \in [Apps -> SUBSET {"image", "data"}]
        /\ \A b \in Apps \ {a} : mounts'[b] = mounts[b] /\ kernel'[b] = kernel[b] /\ devices'[b] = devices[b] /\ task'[b] = task[b]
    <2>1. mounts' \in [Apps -> SUBSET AllMounts] /\ \A b \in Apps \ {a} : mounts'[b] = mounts[b] /\ task'[b] = task[b]
        BY <1>0, <1>1, <1>5 DEF TypeOK, decrypt_partition, mount_stage, launcher_stage, drop_aborted, diskVars
    <2>2. kernel' \in [Apps -> SUBSET {"image", "data"}] /\ \A b \in Apps \ {a} : kernel'[b] = kernel[b]
        BY <1>0, <1>1 DEF TypeOK, decrypt_partition, mount_stage, launcher_stage, drop_aborted, diskVars
    <2>3. \A b \in Apps \ {a} : devices'[b] = devices[b]
        BY <1>0, <1>1, Zenon DEF TypeOK, decrypt_partition, mount_stage, launcher_stage, drop_aborted, diskVars
    <2> QED
        BY <2>1, <2>2, <2>3, Zenon
  <1>8. /\ devices' \in [Apps -> {<<>>, <<"image">>, <<"data">>, <<"image", "data">>}]
        /\ task'[a] = "image_device" => devices'[a] = <<>>
        /\ task'[a] \in {"image_mount", "install", "data_device"} => devices'[a] = <<"image">>
    <2>1. task[a] = "image_device" => devices[a] = <<>>
        BY <1>0, Zenon DEF TaskInv
    <2>2. task[a] \in {"image_mount", "install", "data_device"} => devices[a] = <<"image">>
        BY <1>0, Zenon DEF TaskInv
    <2>3. CASE UNCHANGED devices /\ task'[a] \in {"Err", "Aborted"}
        BY <1>0, <2>3, Zenon DEF TypeOK
    <2>4. CASE UNCHANGED devices /\ task[a] \notin {"image_device", "data_device"} /\ task'[a] = NextStage(task[a])
        BY <1>0, <1>2, <2>2, <2>4, NextStages, Zenon DEF TypeOK, StageNames
    <2>5. CASE /\ task[a] = "image_device" /\ devices' = [devices EXCEPT ![a] = Append(devices[a], "image")]
               /\ task'[a] \in {"image_mount", "Aborted"}
        BY <1>0, <2>1, <2>5, Devices, Zenon DEF TypeOK
    <2>6. CASE /\ task[a] = "data_device" /\ devices' = [devices EXCEPT ![a] = Append(devices[a], "data")]
               /\ task'[a] \in {"data_mount", "Aborted"}
        BY <1>0, <2>2, <2>6, Devices, Zenon DEF TypeOK
    <2>7. CASE decrypt_partition(a)
        BY <1>0, <2>3, <2>5, <2>6, <2>7, NextStages DEF TypeOK, decrypt_partition, SetupFails, Advance
    <2>8. CASE mount_stage(a)
        BY <1>0, <2>3, <2>4, <2>8, Zenon DEF TypeOK, mount_stage, SetupFails, Advance, AllMounts
    <2>9. CASE launcher_stage(a) \/ drop_aborted(a)
        BY <1>0, <2>3, <2>4, <2>9, Zenon DEF TypeOK, launcher_stage, drop_aborted, SetupFails, Advance, diskVars
    <2> QED
        BY <1>1, <2>7, <2>8, <2>9, Zenon
  <1>9. TypeOK'
      BY <1>0, <1>1, <1>4, <1>5, <1>6, <1>7, <1>8, StageType DEF TypeOK
  <1>10. TaskInv'
      BY <1>0, <1>1, <1>3, <1>7, <1>8, Zenon DEF TypeOK, TaskInv
  <1>11. PhaseInv' /\ RemFollowsRequest'
      BY <1>1, Zenon DEF ManagerInv, PhaseInv, RemFollowsRequest, Provisioning, Listed
  <1>12. CleanInv' /\ OthersAreCleanedUp'
      BY <1>0, <1>1, <1>3, <1>5, <1>7, Zenon DEF TypeOK, ManagerInv, CleanInv, OthersAreCleanedUp
  <1> QED
      BY <1>9, <1>10, <1>11, <1>12, Zenon DEF ManagerInv

(* provision begins, with a list, or refuses. *)
LEMMA ProvisionStep ==
    ASSUME ManagerInv, provision
    PROVE  ManagerInv'
  <1>0. TypeOK /\ requests' \in 0..MaxRequests
      BY ReceiveType, Zenon DEF ManagerInv, provision
  <1>1. /\ UNCHANGED <<todo, apps, task, aborted, rem, devices, kernel, mounts, handler, conn, failed, faults>>
        /\ mgr = "Recv" /\ kind' = "Provision" /\ app' = NoApp
        /\ \/ mgr' = "Reply" /\ reply' = "Error" /\ UNCHANGED <<list, at>>
           \/ apps = {} /\ mgr' = "Spawn" /\ reply' = "None" /\ at' = 1 /\ list' \in Orders \cup {<<>>}
      BY <1>0, Zenon DEF provision, Receive, Respond, diskVars
  <1>2. at' \in 1..Cardinality(Apps) + 1
      BY <1>0, <1>1, CardType DEF TypeOK
  <1>3. TypeOK'
      BY <1>0, <1>1, <1>2, Zenon DEF TypeOK
  <1>4. DOMAIN <<>> = {}
      OBVIOUS
  <1>5. TaskInv' /\ PhaseInv' /\ RemFollowsRequest'
    <2>1. CASE mgr' = "Reply"
        BY <1>1, <2>1, Elsewhere, Zenon DEF Provisioning
    <2>2. CASE mgr' = "Spawn"
        BY <1>1, <1>4, <2>2, Zenon DEF ManagerInv, TaskInv, PhaseInv, RemFollowsRequest, Provisioning
    <2> QED
        BY <1>1, <2>1, <2>2, Zenon
  <1> QED
      BY <1>1, <1>3, <1>5, Zenon DEF ManagerInv, CleanInv, OthersAreCleanedUp

(* A provisioning that fails before it measures leaves the applications it  *)
(* has taken in.                                                            *)
LEMMA FailsStep ==
    ASSUME ManagerInv, mgr \in {"Spawn", "Join"}, ProvisionFails, Fault \/ UNCHANGED faults,
           UNCHANGED <<kind, app, list, at, todo, apps, rem, diskVars, handler, conn, failed, requests>>
    PROVE  ManagerInv'
  <1>0. TypeOK /\ faults' \in 0..MaxFaults
      BY FaultType, Zenon DEF ManagerInv
  <1>1. task' \in [Apps -> {Stages[i] : i \in DOMAIN Stages} \cup {"None", "Ok", "Err", "Aborted"}]
      BY <1>0, Zenon DEF TypeOK, ProvisionFails
  <1>2. mgr' = "Reply" /\ reply' = "Error" /\ aborted' \subseteq Apps
      BY <1>0, Zenon DEF TypeOK, ProvisionFails, Respond
  <1>3. TypeOK'
      BY <1>0, <1>1, <1>2, Zenon DEF TypeOK, diskVars
  <1>4. TaskInv'
      BY <1>0, Zenon DEF ManagerInv, TaskInv, ProvisionFails, diskVars, TypeOK
  <1>5. PhaseInv' /\ RemFollowsRequest' /\ CleanInv' /\ OthersAreCleanedUp'
      BY <1>2, Zenon DEF ManagerInv, PhaseInv, RemFollowsRequest, CleanInv, OthersAreCleanedUp, Provisioning
  <1> QED
      BY <1>3, <1>4, <1>5, Zenon DEF ManagerInv

LEMMA SpawnStep ==
    ASSUME ManagerInv, spawn_setup
    PROVE  ManagerInv'
  <1>0. TypeOK /\ mgr = "Spawn" /\ apps = {} /\ reply = "None" /\ rem = <<>>
      BY Zenon DEF ManagerInv, spawn_setup, PhaseInv, Provisioning
  <1>1. UNCHANGED <<kind, app, list, todo, apps, rem, kernel, mounts, handler, conn, failed, requests>>
      BY Zenon DEF spawn_setup
  <1>2. CASE /\ at <= Len(list) /\ ~InSetup(list[at])
             /\ task' = [task EXCEPT ![list[at]] = Stages[1]] /\ at' = at + 1
             /\ devices' = [devices EXCEPT ![list[at]] = <<>>]
             /\ aborted' = aborted \ {list[at]}
             /\ UNCHANGED <<mgr, reply, faults>>
    <2>1. at' \in 1..Cardinality(Apps) + 1 /\ list[at] \in Apps
        BY <1>0, <1>2, ListType, CardType DEF TypeOK
    <2>2. /\ task' \in [Apps -> {Stages[i] : i \in DOMAIN Stages} \cup {"None", "Ok", "Err", "Aborted"}]
          /\ devices' \in [Apps -> {<<>>, <<"image">>, <<"data">>, <<"image", "data">>}]
      <3>1. Stages[1] \in {Stages[i] : i \in DOMAIN Stages}
          BY StageType, Zenon DEF StageNames
      <3> QED
          BY <1>0, <1>2, <2>1, <3>1, Zenon DEF TypeOK
    <2>3. TypeOK'
        BY <1>0, <1>1, <1>2, <2>1, <2>2, Zenon DEF TypeOK
    <2>4. TaskInv'
        BY <1>0, <1>1, <1>2, <2>1, StageType, Zenon DEF ManagerInv, TaskInv, TypeOK
    <2>5. PhaseInv' /\ RemFollowsRequest' /\ CleanInv' /\ OthersAreCleanedUp'
        BY <1>0, <1>1, <1>2, Zenon DEF ManagerInv, PhaseInv, RemFollowsRequest, CleanInv, OthersAreCleanedUp, Provisioning
    <2> QED
        BY <2>3, <2>4, <2>5, Zenon DEF ManagerInv
  <1>3. CASE at <= Len(list) /\ ProvisionFails /\ Fault /\ UNCHANGED <<at, devices>>
      BY <1>0, <1>1, <1>3, FailsStep, Zenon DEF diskVars
  <1>4. CASE at > Len(list) /\ mgr' = "Join" /\ UNCHANGED <<reply, at, task, aborted, devices, faults>>
    <2>1. TypeOK'
        BY <1>0, <1>1, <1>4, Zenon DEF TypeOK
    <2>2. TaskInv'
        BY <1>1, <1>4, Zenon DEF ManagerInv, TaskInv
    <2>3. PhaseInv' /\ RemFollowsRequest' /\ CleanInv' /\ OthersAreCleanedUp'
        BY <1>0, <1>1, <1>4, Zenon DEF ManagerInv, PhaseInv, RemFollowsRequest, CleanInv, OthersAreCleanedUp, Provisioning
    <2> QED
        BY <2>1, <2>2, <2>3, Zenon DEF ManagerInv
  <1> QED
      BY <1>2, <1>3, <1>4, Zenon DEF spawn_setup

LEMMA JoinStep ==
    ASSUME ManagerInv, join_next
    PROVE  ManagerInv'
  <1>0. TypeOK /\ mgr = "Join" /\ apps \subseteq Listed /\ reply = "None" /\ rem = <<>>
      BY Zenon DEF ManagerInv, join_next, PhaseInv, Provisioning
  <1>1. UNCHANGED <<kind, app, list, todo, rem, devices, kernel, mounts, handler, conn, failed, requests, faults>>
      BY Zenon DEF join_next, diskVars, bounds
  <1>2. ASSUME NEW a \in Listed \ apps, task[a] = "Ok", apps' = apps \cup {a}, UNCHANGED <<mgr, reply, at, task, aborted>>
        PROVE  ManagerInv'
    <2>1. TypeOK'
        BY <1>0, <1>1, <1>2, ListType, Zenon DEF TypeOK
    <2>2. TaskInv'
        BY <1>1, <1>2, Zenon DEF ManagerInv, TaskInv
    <2>3. PhaseInv' /\ RemFollowsRequest' /\ CleanInv' /\ OthersAreCleanedUp'
      <3>1. a \in Listed' /\ Listed' = Listed
          BY <1>1, <1>2, Zenon DEF Listed
      <3>2. PhaseInv'
          BY <1>0, <1>1, <1>2, <3>1, Zenon DEF ManagerInv, PhaseInv, Provisioning
      <3>3. RemFollowsRequest' /\ CleanInv' /\ OthersAreCleanedUp'
          BY <1>0, <1>1, <1>2, Zenon DEF ManagerInv, RemFollowsRequest, CleanInv, OthersAreCleanedUp
      <3> QED
          BY <3>2, <3>3, Zenon
    <2> QED
        BY <2>1, <2>2, <2>3, Zenon DEF ManagerInv
  <1>3. CASE ProvisionFails /\ UNCHANGED <<at, apps>>
      BY <1>0, <1>1, <1>3, FailsStep, Zenon DEF diskVars
  <1>4. CASE Listed \subseteq apps /\ mgr' = "Measure" /\ at' = 1 /\ UNCHANGED <<reply, apps, task, aborted>>
    <2>1. at' \in 1..Cardinality(Apps) + 1 /\ at' <= Len(list) + 1 /\ Len(rem) = at' - 1 /\ DOMAIN rem = {}
        BY <1>0, <1>4, CardType, ListType
    <2>2. TypeOK'
        BY <1>0, <1>1, <1>4, <2>1, Zenon DEF TypeOK
    <2>3. TaskInv'
        BY <1>1, <1>4, Zenon DEF ManagerInv, TaskInv
    <2>4. PhaseInv'
      <3>1. apps = Listed
          BY <1>0, <1>4, Zenon
      <3> QED
          BY <1>0, <1>1, <1>4, <2>1, <3>1, Zenon DEF ManagerInv, PhaseInv, Provisioning, Listed
    <2>5. RemFollowsRequest' /\ CleanInv' /\ OthersAreCleanedUp'
        BY <1>0, <1>1, <1>4, Zenon
        DEF ManagerInv, RemFollowsRequest, CleanInv, OthersAreCleanedUp, Listed
    <2> QED
        BY <2>2, <2>3, <2>4, <2>5, Zenon DEF ManagerInv
  <1> QED
      BY <1>2, <1>3, <1>4, Zenon DEF join_next

(* extend_rem appends the next of the list. *)
LEMMA MeasureStep ==
    ASSUME ManagerInv, extend_rem
    PROVE  ManagerInv'
  <1>0. /\ TypeOK /\ mgr = "Measure" /\ apps = Listed /\ reply = "None" /\ rem \in Seq(Apps \cup {Partial})
        /\ Len(rem) = at - 1 /\ at <= Len(list) + 1 /\ \A i \in DOMAIN rem : rem[i] = list[i]
      BY Zenon DEF ManagerInv, extend_rem, PhaseInv, Provisioning
  <1>1. UNCHANGED <<kind, app, list, apps, task, aborted, devices, kernel, mounts, handler, conn, failed, requests>>
      BY Zenon DEF extend_rem, diskVars
  <1>2. TaskInv'
      BY <1>1, Zenon DEF ManagerInv, TaskInv
  <1>3. Listed' = Listed
      BY <1>1, Zenon DEF Listed
  <1>4. DOMAIN rem = 1..Len(rem) /\ at \in Nat
      BY <1>0 DEF TypeOK
  <1>5. CASE at <= Len(list) /\ rem' = Append(rem, list[at]) /\ at' = at + 1 /\ UNCHANGED <<mgr, reply, todo, faults>>
    <2>1. at \in 1..Len(list) /\ list[at] \in Apps /\ list[at] \in Listed /\ at' \in 1..Cardinality(Apps) + 1
        BY <1>0, <1>5, ListType, CardType DEF TypeOK
    <2>2. /\ rem' \in Seq(Apps \cup {Partial}) /\ Len(rem') = at' - 1 /\ at' <= Len(list) + 1
          /\ DOMAIN rem' = 1..at /\ \A i \in 1..at : rem'[i] = list[i]
      <3>1. /\ rem' \in Seq(Apps \cup {Partial}) /\ Len(rem') = at
            /\ \A i \in 1..Len(rem) : rem'[i] = rem[i]
            /\ rem'[at] = list[at]
          BY <1>0, <1>4, <1>5, <2>1
      <3>2. DOMAIN rem' = 1..at
          BY <3>1
      <3>3. ASSUME NEW i \in 1..at PROVE rem'[i] = list[i]
        <4>1. CASE i = at
            BY <3>1, <4>1, Zenon
        <4>2. CASE i # at
          <5>1. i \in 1..Len(rem)
              BY <1>0, <1>4, <4>2
          <5> QED
              BY <1>0, <1>4, <3>1, <5>1, Zenon
        <4> QED
            BY <4>1, <4>2, Zenon
      <3> QED
          BY <1>4, <1>5, <2>1, <3>1, <3>2, <3>3, ListType
    <2>3. TypeOK'
        BY <1>0, <1>1, <1>5, <2>1, Zenon DEF TypeOK
    <2>4. PhaseInv'
        BY <1>0, <1>1, <1>3, <1>5, <2>1, <2>2, Zenon DEF ManagerInv, PhaseInv, Provisioning
    <2>5. RemFollowsRequest' /\ CleanInv' /\ OthersAreCleanedUp'
        BY <1>0, <1>1, <1>5, <2>2, Zenon DEF RemFollowsRequest, CleanInv, OthersAreCleanedUp
    <2> QED
        BY <1>2, <2>3, <2>4, <2>5, Zenon DEF ManagerInv
  <1>6. CASE /\ at <= Len(list) /\ Fault /\ Respond("Error") /\ UNCHANGED <<at, todo>>
             /\ rem' \in {rem, Append(rem, Partial)}
    <2>1. at \in 1..Len(list) /\ list[at] \in Listed /\ faults' \in 0..MaxFaults
        BY <1>0, <1>6, ListType, FaultType DEF TypeOK
    <2>2. rem' \in Seq(Apps \cup {Partial}) /\ \A i \in DOMAIN rem' : rem'[i] = Partial \/ (i \in DOMAIN rem /\ rem'[i] = rem[i])
      <3>1. CASE rem' = rem
          BY <1>0, <3>1, Zenon
      <3>2. CASE rem' = Append(rem, Partial)
        <4>1. /\ rem' \in Seq(Apps \cup {Partial}) /\ Len(rem') = Len(rem) + 1
              /\ \A i \in 1..Len(rem) : rem'[i] = rem[i]
              /\ rem'[Len(rem) + 1] = Partial
            BY <1>0, <3>2
        <4>2. DOMAIN rem' = 1..Len(rem) + 1 /\ Len(rem) \in Nat
            BY <1>0, <4>1
        <4>3. \A i \in 1..Len(rem) + 1 : i = Len(rem) + 1 \/ i \in 1..Len(rem)
            BY <4>2
        <4> QED
            BY <1>4, <4>1, <4>2, <4>3, Zenon
      <3> QED
          BY <1>6, <3>1, <3>2, Zenon
    <2>3. TypeOK'
        BY <1>0, <1>1, <1>6, <2>1, Zenon DEF TypeOK, Respond
    <2>4. PhaseInv'
        BY <1>0, <1>1, <1>3, <1>6, <2>1, <2>2, Zenon DEF PhaseInv, Provisioning, Respond
    <2>5. RemFollowsRequest' /\ CleanInv' /\ OthersAreCleanedUp'
        BY <1>0, <1>1, <1>6, <2>2, Zenon DEF RemFollowsRequest, CleanInv, OthersAreCleanedUp, Respond
    <2> QED
        BY <1>2, <2>3, <2>4, <2>5, Zenon DEF ManagerInv
  <1>7. CASE /\ at > Len(list) /\ UNCHANGED <<at, rem, faults>>
             /\ IF AutoStart THEN mgr' = "AutoStart" /\ todo' = apps /\ UNCHANGED reply
                ELSE Respond("Provisioned") /\ UNCHANGED todo
    <2>1. rem = list
      <3>1. at = Len(list) + 1 /\ Len(rem) = Len(list)
          BY <1>0, <1>4, <1>7, ListType
      <3>2. list \in Seq(Apps \cup {Partial})
          BY <1>0, ListType
      <3> QED
          BY <1>0, <1>4, <3>1, <3>2, SeqEqual, Zenon
    <2>2. /\ todo' \subseteq apps
          /\ \/ mgr' = "AutoStart" /\ reply' = "None"
             \/ mgr' = "Reply" /\ reply' = "Provisioned"
        BY <1>0, <1>7, Zenon DEF TypeOK, Respond
    <2>3. TypeOK'
        BY <1>0, <1>1, <1>7, <2>2, Zenon DEF TypeOK
    <2>4. PhaseInv'
        BY <1>0, <1>1, <1>3, <1>7, <2>1, <2>2, Zenon DEF ManagerInv, PhaseInv, Provisioning
    <2>5. RemFollowsRequest' /\ CleanInv' /\ OthersAreCleanedUp'
        BY <1>0, <1>1, <1>3, <1>7, <2>1, <2>2, Zenon DEF RemFollowsRequest, CleanInv, OthersAreCleanedUp
    <2> QED
        BY <1>2, <2>3, <2>4, <2>5, Zenon DEF ManagerInv
  <1> QED
      BY <1>5, <1>6, <1>7, Zenon DEF extend_rem

(* autostart starts them in any order. *)
LEMMA AutostartStep ==
    ASSUME ManagerInv, autostart
    PROVE  ManagerInv'
  <1>0. TypeOK /\ mgr = "AutoStart" /\ apps = Listed /\ reply = "None" /\ rem = list
      BY Zenon DEF ManagerInv, autostart, PhaseInv, Provisioning
  <1>1. UNCHANGED <<kind, app, list, at, apps, task, aborted, rem, devices, kernel, mounts, conn, failed, requests>>
      BY Zenon DEF autostart, diskVars
  <1>2. /\ todo' \subseteq apps
        /\ (mgr' = "AutoStart" /\ reply' = "None") \/ (mgr' = "Reply" /\ reply' \in {"Error", "Provisioned"})
      BY <1>0, Zenon DEF autostart, Respond, TypeOK
  <1>3. handler' \in [Apps -> {"Idle", "Up", "Exited", "Lost"}] /\ faults' \in 0..MaxFaults
    <2>1. handler' \in [Apps -> {"Idle", "Up", "Exited", "Lost"}] /\ (Fault \/ UNCHANGED faults)
        BY <1>0, Zenon DEF autostart, Spawn, SpawnFails, TypeOK
    <2> QED
        BY <1>0, <2>1, FaultType, Zenon
  <1>4. TypeOK'
      BY <1>0, <1>1, <1>2, <1>3, Zenon DEF TypeOK
  <1>5. TaskInv'
      BY <1>1, Zenon DEF ManagerInv, TaskInv
  <1>6. Listed' = Listed
      BY <1>1, Zenon DEF Listed
  <1>7. PhaseInv'
      BY <1>0, <1>1, <1>2, <1>6, Zenon DEF ManagerInv, PhaseInv, Provisioning
  <1>8. RemFollowsRequest' /\ CleanInv' /\ OthersAreCleanedUp'
      BY <1>0, <1>1, <1>2, <1>6, Zenon DEF RemFollowsRequest, CleanInv, OthersAreCleanedUp
  <1> QED
      BY <1>4, <1>5, <1>7, <1>8, Zenon DEF ManagerInv
-------------------------------------------------------------------------------
LEMMA NextManager == ManagerInv /\ [Next]_vars => ManagerInv'
  <1> SUFFICES ASSUME ManagerInv, [Next]_vars PROVE ManagerInv'
      BY Zenon
  <1>1. CASE UNCHANGED vars
    <2>1. UNCHANGED <<requestVars, provisionVars, diskVars, handler, conn, failed, bounds>>
        BY <1>1, Zenon DEF vars
    <2>2. TypeOK'
        BY <2>1 DEF ManagerInv, TypeOK, requestVars, provisionVars, diskVars, bounds
    <2>3. TaskInv' /\ PhaseInv' /\ RemFollowsRequest'
        BY <2>1, Elsewhere, Zenon DEF requestVars, provisionVars, diskVars
    <2>4. CleanInv' /\ OthersAreCleanedUp'
        BY <2>1, Zenon DEF ManagerInv, CleanInv, OthersAreCleanedUp, requestVars, provisionVars, diskVars
    <2> QED
        BY <2>2, <2>3, <2>4, Zenon DEF ManagerInv
  <1> QED
      BY <1>1, RequestSteps, DownSteps, OutsideSteps, ShutdownStep, SetupStep, ProvisionStep, SpawnStep, JoinStep,
         MeasureStep, AutostartStep, Zenon DEF Next, Work

(* The inductive invariant: what has been joined, measured and cleaned up   *)
(* at every await of the Manager.                                           *)
LEMMA ManagerInvariance == Spec => []ManagerInv
  BY InitManager, NextManager, PTL DEF Spec

(* Types, and that handle_request has a response when the Manager replies.  *)
THEOREM TypeCorrect == Spec => []TypeOK
  <1>1. ManagerInv => TypeOK
      BY Zenon DEF ManagerInv
  <1> QED
      BY <1>1, ManagerInvariance, PTL

(* provision extends the REM in the order of the request, whatever order    *)
(* the tasks of its JoinSet finish in and whatever earlier requests failed; *)
(* a success means that all of its applications, and no others, are         *)
(* installed and measured.                                                  *)
THEOREM RemFollows == Spec => []RemFollowsRequest
  <1>1. ManagerInv => RemFollowsRequest
      BY Zenon DEF ManagerInv
  <1> QED
      BY <1>1, ManagerInvariance, PTL

(* shutdown_all_apps leaves no mount, device or process of an application   *)
(* that has not failed itself.                                              *)
THEOREM OthersCleaned == Spec => []OthersAreCleanedUp
  <1>1. ManagerInv => OthersAreCleanedUp
      BY Zenon DEF ManagerInv
  <1> QED
      BY <1>1, ManagerInvariance, PTL
===============================================================================
