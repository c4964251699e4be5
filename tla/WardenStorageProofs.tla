-------------------------- MODULE WardenStorageProofs --------------------------
(***************************************************************************)
(* Theorems about WardenStorage for any realms, applications and sizes and *)
(* any number of operations, faults and crashes: what was acknowledged is  *)
(* kept, disks match their configurations, data is given up only on        *)
(* demand, and what was finished can be loaded.                            *)
(***************************************************************************)
EXTENDS WardenStorage, TLAPS

Busy == pc # "Idle"
AtDisk == pc \in {"disk_truncate", "disk_gpt"}

(* Which operation can be at a step, and in which mode of the daemon.       *)
PcInv ==
    /\ pc \in {"Idle", "create_tap", "save_create", "save_write", "disk_truncate", "disk_gpt", "configured",
               "rm_tap", "rm_dir", "load_apps"}
    /\ pc = "create_tap" => op.name = "create_realm"
    /\ pc \in {"save_create", "save_write"} => op.name \in {"create_realm", "create_app", "update"}
    /\ AtDisk => op.name \in {"create_app", "start", "load"}
    /\ pc = "configured" => op.name = "start"
    /\ pc \in {"rm_tap", "rm_dir"} => op.name = "destroy"
    /\ pc = "load_apps" => op.name = "load"
    /\ op.name \in {"None", "create_realm", "create_app", "update", "start", "destroy", "load"}
    /\ Busy => out = "None" /\ daemon = (IF op.name = "load" THEN "Loading" ELSE "Up")
    /\ daemon = "Loading" => op.name = "load" /\ out = "None"

(* The realm an operation creates or destroys is not registered: nobody was *)
(* told that it exists, or it has lapsed.                                   *)
RealmOpInv ==
    Busy =>
        /\ op.realm \in Realms
        /\ op.name = "create_realm" => op.app = None /\ op.realm \notin realms \cup ack.realms
        /\ op.name = "destroy" => op.app = None /\ op.realm \notin realms /\ op.realm \in lapsed
        /\ op.name \in {"create_realm", "load"} => op.realm \in dir

(* The application an operation works on: what it is given, what it has     *)
(* written, and how far its disk is.                                        *)
AppOpInv ==
    /\ Busy /\ op.name \in {"create_app", "update", "start"} =>
        /\ op.app \in adir /\ Home[op.app] = op.realm /\ op.realm \in realms
        /\ op.name # "create_app" => op.app \in apps
    /\ Busy /\ op.name \in {"create_app", "update"} =>
        /\ op.config \in Configs /\ mem[op.app] = op.config
        /\ op.name = "create_app" \/ pc = "save_write" => ack.config[op.app] = None
        /\ op.name = "update" => op.app \in lapsed
    /\ Busy /\ op.name = "create_app" =>
        /\ size[op.app] = op.config /\ op.config \in Sizes
        /\ pc # "disk_gpt" => disk[op.app] = "Absent"
        /\ AtDisk => acfg[op.app] = op.config
    /\ AtDisk =>
        /\ op.app \in adir /\ size[op.app] = mem[op.app] /\ mem[op.app] \in Sizes
        /\ pc = "disk_truncate" => disk[op.app] # mem[op.app] \/ (op.name = "load" /\ op.app \in unread)
        /\ pc = "disk_gpt" => disk[op.app] = "Raw"
        /\ op.name = "load" => op.app \notin apps /\ mem[op.app] = acfg[op.app] /\ Home[op.app] = op.realm
    /\ pc = "configured" /\ mem[op.app] \in Sizes /\ disk[op.app] = size[op.app] => mem[op.app] = size[op.app]

(* Applications are in the directories of their realms. *)
PlaceInv ==
    /\ \A a \in adir : Home[a] \in dir
    /\ \A a \in Apps \ adir : disk[a] = "Absent"
    /\ daemon = "Up" => toload = {} /\ atoload = {} /\ \A a \in apps : Home[a] \in realms

(* While the daemon loads, every directory that was found has been or will  *)
(* be loaded, once, and what has been loaded is what is on disk.            *)
LoadInv ==
    daemon = "Loading" =>
        /\ \A r \in dir \ lapsed : r \in realms \/ r \in toload \/ (Busy /\ r = op.realm)
        /\ toload \cap realms = {} /\ (Busy => op.realm \notin realms \cup toload)
        /\ \A a \in apps : /\ mem[a] = acfg[a] /\ disk[a] = mem[a]
                           /\ Home[a] \in realms \/ (Busy /\ Home[a] = op.realm)
        /\ \A a \in adir \ lapsed : Home[a] \in realms => a \in apps
        /\ Busy => \A a \in adir \ lapsed : Home[a] = op.realm => a \in apps \cup atoload \/ (AtDisk /\ a = op.app)
        /\ \A a \in atoload : a \notin apps /\ (Busy => Home[a] = op.realm) /\ (AtDisk => a # op.app)

(* Unless something was left unfinished, every directory has a              *)
(* configuration that can be loaded, but for those being worked on.         *)
FinishInv ==
    dirty = "No" =>
        /\ \A r \in dir : cfg[r] = "Valid" \/ (Busy /\ op.name \in {"create_realm", "destroy"} /\ op.realm = r)
        /\ \A a \in adir : \/ acfg[a] \in Sizes
                           \/ Busy /\ op.name \in {"create_app", "update"} /\ op.app = a
                           \/ Busy /\ op.name = "destroy" /\ op.realm = Home[a]

OpRecords == [name : {"None", "create_realm", "create_app", "update", "start", "destroy", "load"},
              realm : Realms \cup {None}, app : Apps \cup {None}, config : Configs \cup {None}]
AckRecords == [realms : SUBSET Realms, gone : SUBSET Realms, config : [Apps -> Configs \cup {None}]]
OpTypes ==
    /\ op \in OpRecords /\ ack \in AckRecords
    /\ dirty \in {"No", "create_realm", "create_app", "update", "start", "destroy", "load", "crash", "invalid"}

StorageInv ==
    /\ TypeOK /\ OpTypes /\ PcInv /\ RealmOpInv /\ AppOpInv /\ PlaceInv /\ LoadInv /\ FinishInv
    /\ AcknowledgedIsKept /\ DiskMatchesConfig /\ LoadsWhatIsFinished
-------------------------------------------------------------------------------
(* Counters. *)
LEMMA FaultType == TypeOK /\ Fault => faults' \in 0..MaxFaults /\ faults' > 0
  BY ConstantsAssumption DEF TypeOK, Fault

LEMMA OpsType == TypeOK /\ ops < MaxOps /\ ops' = ops + 1 => ops' \in 0..MaxOps
  BY ConstantsAssumption DEF TypeOK

LEMMA CrashType == TypeOK /\ crashes < MaxCrashes /\ crashes' = crashes + 1 => crashes' \in 0..MaxCrashes
  BY ConstantsAssumption DEF TypeOK

(* A failure at the disk is noticed before or after the partitions are      *)
(* there.                                                                   *)
DiskKeptOrWritten ==
    disk' = disk \/ (pc = "disk_gpt" /\ disk' = [disk EXCEPT ![op.app] = size[op.app]])

LEMMA DiskWritten ==
    ASSUME StorageInv, DiskKeptOrWritten
    PROVE  /\ disk' \in [Apps -> {"Absent", "Raw"} \cup Sizes]
           /\ \A a \in Apps \ adir : disk'[a] = disk[a]
  <1>0. TypeOK /\ AppOpInv
      BY Zenon DEF StorageInv
  <1>1. pc = "disk_gpt" => op.app \in adir /\ op.app \in Apps /\ size[op.app] \in Sizes
      BY <1>0, Zenon DEF AppOpInv, AtDisk, TypeOK
  <1> QED
      BY <1>0, <1>1, Zenon DEF DiskKeptOrWritten, TypeOK

(* An operation that fails leaves the other files and the memory as they    *)
(* are, and what it has not finished is recorded.                           *)
LEMMA AbandonsStep ==
    ASSUME StorageInv, Busy, op.name # "load", Fault \/ UNCHANGED faults, Abandons, DiskKeptOrWritten,
           UNCHANGED <<dir, adir, cfg, acfg, memory, daemon, loads, op, ack, lapsed, unread, ops, crashes>>
    PROVE  StorageInv'
  <1>0. /\ disk' \in [Apps -> {"Absent", "Raw"} \cup Sizes]
        /\ \A a \in Apps \ adir : disk'[a] = disk[a]
      BY DiskWritten, Zenon
  <1>1. /\ pc' = "Idle" /\ out' = "Err" /\ daemon = "Up" /\ faults' \in 0..MaxFaults
        /\ op.name # "None" /\ op.name # "No" /\ dirty' = (IF dirty = "No" THEN op.name ELSE dirty)
      BY FaultType, Zenon DEF StorageInv, TypeOK, Abandons, Returns, PcInv, Busy, AtDisk
  <1>2. TypeOK' /\ OpTypes' /\ PcInv'
      BY <1>0, <1>1, Zenon DEF StorageInv, TypeOK, OpTypes, PcInv, Busy, AtDisk, files, memory, loads
  <1>3. RealmOpInv' /\ AppOpInv'
      BY <1>0, <1>1, Zenon DEF StorageInv, RealmOpInv, AppOpInv, Busy, AppsOf, AtDisk, files, memory, loads
  <1>4. PlaceInv' /\ LoadInv'
      BY <1>0, <1>1, Zenon DEF StorageInv, PlaceInv, LoadInv, AtDisk, Busy, files, memory, loads
  <1>5. AcknowledgedIsKept'
      BY <1>0, <1>1, Zenon DEF StorageInv, AcknowledgedIsKept, files, memory, loads
  <1>6. FinishInv' /\ DiskMatchesConfig' /\ LoadsWhatIsFinished'
      BY <1>0, <1>1, Zenon DEF StorageInv, FinishInv, DiskMatchesConfig, LoadsWhatIsFinished, Busy, files, memory, loads
  <1> QED
      BY <1>2, <1>3, <1>4, <1>5, <1>6, Zenon DEF StorageInv

(* A load that fails keeps the files. *)
LEMMA LoadFailsStep ==
    ASSUME StorageInv, Busy, op.name = "load", LoadFails, DiskKeptOrWritten, atoload' \subseteq atoload,
           UNCHANGED <<dir, adir, cfg, acfg, memory, toload, op, ack, lapsed, unread, ops, crashes>>,
           dirty' \in {dirty, "load"}, dirty' # "No" \/ faults' > 0, Fault \/ UNCHANGED faults
    PROVE  StorageInv'
  <1>0. /\ disk' \in [Apps -> {"Absent", "Raw"} \cup Sizes]
        /\ \A a \in Apps \ adir : disk'[a] = disk[a]
      BY DiskWritten, Zenon
  <1>1. /\ pc' = "Idle" /\ out' = "Err" /\ daemon' = "Failed" /\ faults' \in 0..MaxFaults /\ daemon = "Loading"
      BY FaultType, Zenon DEF StorageInv, LoadFails, Returns, TypeOK, PcInv, Busy
  <1>2. TypeOK' /\ OpTypes' /\ PcInv'
      BY <1>0, <1>1, Zenon DEF StorageInv, TypeOK, OpTypes, PcInv, Busy, AtDisk, files, memory, loads
  <1>3. RealmOpInv' /\ AppOpInv'
      BY <1>0, <1>1, Zenon DEF StorageInv, RealmOpInv, AppOpInv, Busy, AppsOf, AtDisk, files, memory, loads
  <1>4. PlaceInv' /\ LoadInv'
      BY <1>0, <1>1, Zenon DEF StorageInv, PlaceInv, LoadInv, AtDisk, Busy, files, memory, loads
  <1>5. AcknowledgedIsKept'
      BY <1>0, <1>1, Zenon DEF StorageInv, AcknowledgedIsKept, files, memory, loads
  <1>6. FinishInv' /\ DiskMatchesConfig' /\ LoadsWhatIsFinished'
      BY <1>0, <1>1, Zenon DEF StorageInv, FinishInv, DiskMatchesConfig, LoadsWhatIsFinished, Busy, files, memory, loads
  <1> QED
      BY <1>2, <1>3, <1>4, <1>5, <1>6, Zenon DEF StorageInv

(* A step that only moves an operation on. *)
LEMMA MovesOnStep ==
    ASSUME StorageInv, \/ pc = "create_tap" /\ pc' = "save_create"
                       \/ pc = "rm_tap" /\ pc' = "rm_dir",
           UNCHANGED <<files, memory, daemon, loads, op, out, ack, lapsed, unread, dirty, bounds>>
    PROVE  StorageInv'
  <1>1. TypeOK' /\ OpTypes' /\ PcInv'
      BY Zenon DEF StorageInv, TypeOK, OpTypes, PcInv, Busy, AtDisk, files, memory, bounds, loads
  <1>2. RealmOpInv' /\ AppOpInv'
      BY Zenon DEF StorageInv, RealmOpInv, AppOpInv, Busy, AppsOf, AtDisk, files, memory, bounds, loads
  <1>3. PlaceInv' /\ LoadInv'
      BY Zenon DEF StorageInv, PlaceInv, LoadInv, AtDisk, Busy, files, memory, bounds, loads
  <1>4. AcknowledgedIsKept'
      BY Zenon DEF StorageInv, AcknowledgedIsKept, files, memory, bounds, loads
  <1>5. FinishInv' /\ DiskMatchesConfig' /\ LoadsWhatIsFinished'
      BY Zenon DEF StorageInv, FinishInv, DiskMatchesConfig, LoadsWhatIsFinished, Busy, files, memory, bounds, loads
  <1> QED
      BY <1>1, <1>2, <1>3, <1>4, <1>5, Zenon DEF StorageInv

LEMMA ConfiguredStep ==
    ASSUME StorageInv, configured
    PROVE  StorageInv'
  <1>1. daemon = "Up" /\ op.name = "start" /\ faults' \in 0..MaxFaults
      BY FaultType, Zenon DEF StorageInv, configured, PcInv, Busy, TypeOK
  <1>2. TypeOK' /\ OpTypes' /\ PcInv'
      BY <1>1, Zenon DEF StorageInv, TypeOK, OpTypes, PcInv, Busy, AtDisk, configured, Returns, files, memory, bounds, validate_and_convert_to_bytes, loads
  <1>3. RealmOpInv' /\ AppOpInv'
      BY <1>1, Zenon DEF StorageInv, RealmOpInv, AppOpInv, Busy, AppsOf, AtDisk, configured, Returns, files, memory, bounds, validate_and_convert_to_bytes, loads
  <1>4. PlaceInv' /\ LoadInv'
      BY <1>1, Zenon DEF StorageInv, PlaceInv, LoadInv, AtDisk, Busy, configured, Returns, files, memory, bounds, validate_and_convert_to_bytes, loads
  <1>5. AcknowledgedIsKept'
      BY <1>1, Zenon DEF StorageInv, AcknowledgedIsKept, configured, Returns, files, memory, bounds, validate_and_convert_to_bytes, loads
  <1>6. FinishInv' /\ DiskMatchesConfig' /\ LoadsWhatIsFinished'
      BY <1>1, Zenon DEF StorageInv, FinishInv, DiskMatchesConfig, LoadsWhatIsFinished, Busy, configured, Returns, files, memory, bounds, validate_and_convert_to_bytes, AppOpInv, loads
  <1> QED
      BY <1>2, <1>3, <1>4, <1>5, <1>6, Zenon DEF StorageInv

LEMMA FrameSteps ==
    ASSUME StorageInv, create_tap \/ shutdown_tap \/ configured
    PROVE  StorageInv'
  <1>0. PcInv
      BY Zenon DEF StorageInv
  <1>1. CASE create_tap
    <2>1. CASE pc' = "save_create" /\ UNCHANGED <<out, dirty, faults>>
        BY <1>1, <2>1, MovesOnStep, Zenon DEF create_tap, bounds
    <2>2. CASE Fault /\ Abandons
        BY <1>0, <1>1, <2>2, AbandonsStep, Zenon DEF DiskKeptOrWritten, files, create_tap, PcInv, Busy
    <2> QED
        BY <1>1, <2>1, <2>2, Zenon DEF create_tap
  <1>2. CASE shutdown_tap
    <2>1. CASE pc' = "rm_dir" /\ UNCHANGED <<out, dirty, faults>>
        BY <1>2, <2>1, MovesOnStep, Zenon DEF shutdown_tap, bounds
    <2>2. CASE Fault /\ Abandons
        BY <1>0, <1>2, <2>2, AbandonsStep, Zenon DEF DiskKeptOrWritten, files, shutdown_tap, PcInv, Busy
    <2> QED
        BY <1>2, <2>1, <2>2, Zenon DEF shutdown_tap
  <1>3. CASE configured
      BY <1>3, ConfiguredStep, Zenon
  <1> QED
      BY <1>1, <1>2, <1>3, Zenon

(* save_create of a realm and of an application. *)
LEMMA SaveCreateRealm ==
    ASSUME StorageInv, pc = "save_create", op.app = None, pc' = "save_write",
           cfg' = [cfg EXCEPT ![op.realm] = "Empty"],
           UNCHANGED <<dir, adir, acfg, disk, memory, daemon, loads, op, out, ack, lapsed, unread, dirty, bounds>>
    PROVE  StorageInv'
  <1>1. /\ daemon = "Up" /\ op.name = "create_realm" /\ op.realm \in Realms /\ op.realm \notin ack.realms
        /\ cfg' \in [Realms -> {"Absent", "Empty", "Valid"}] /\ \A r \in Realms : r # op.realm => cfg'[r] = cfg[r]
      BY ConstantsAssumption, Zenon DEF StorageInv, PcInv, RealmOpInv, AppOpInv, Busy, TypeOK
  <1>2. TypeOK' /\ OpTypes' /\ PcInv'
      BY <1>1, Zenon DEF StorageInv, TypeOK, OpTypes, PcInv, Busy, AtDisk, memory, bounds, loads
  <1>3. RealmOpInv' /\ AppOpInv'
      BY <1>1, Zenon DEF StorageInv, RealmOpInv, AppOpInv, Busy, AppsOf, AtDisk, memory, bounds, loads
  <1>4. PlaceInv' /\ LoadInv'
      BY <1>1, Zenon DEF StorageInv, PlaceInv, LoadInv, AtDisk, Busy, memory, bounds, loads
  <1>5. AcknowledgedIsKept'
      BY <1>1 DEF StorageInv, AcknowledgedIsKept, memory, bounds, loads
  <1>6. FinishInv' /\ DiskMatchesConfig' /\ LoadsWhatIsFinished'
      BY <1>1 DEF StorageInv, FinishInv, DiskMatchesConfig, LoadsWhatIsFinished, Busy, memory, bounds, loads
  <1> QED
      BY <1>2, <1>3, <1>4, <1>5, <1>6, Zenon DEF StorageInv

LEMMA SaveCreateApp ==
    ASSUME StorageInv, pc = "save_create", op.app # None, pc' = "save_write",
           acfg' = [acfg EXCEPT ![op.app] = "Empty"],
           ack' = IF op.name = "update" THEN [ack EXCEPT !.config[op.app] = None] ELSE ack,
           UNCHANGED <<dir, adir, cfg, disk, memory, daemon, loads, op, out, lapsed, unread, dirty, bounds>>
    PROVE  StorageInv'
  <1>0. /\ ack'.realms = ack.realms /\ ack'.gone = ack.gone /\ ack' \in AckRecords /\ ack'.config[op.app] = None
        /\ \A a \in Apps : a # op.app => ack'.config[a] = ack.config[a]
      BY ConstantsAssumption, Zenon DEF StorageInv, PcInv, RealmOpInv, AppOpInv, Busy, TypeOK, OpTypes, AckRecords
  <1>1. /\ daemon = "Up" /\ op.name \in {"create_app", "update"} /\ op.app \in Apps
        /\ acfg' \in [Apps -> {"Absent", "Empty"} \cup Configs] /\ \A a \in Apps : a # op.app => acfg'[a] = acfg[a]
      BY ConstantsAssumption, Zenon DEF StorageInv, PcInv, RealmOpInv, AppOpInv, Busy, TypeOK
  <1>2. TypeOK' /\ OpTypes' /\ PcInv'
      BY <1>0, <1>1, Zenon DEF StorageInv, TypeOK, OpTypes, PcInv, Busy, AtDisk, memory, bounds, loads
  <1>3. RealmOpInv' /\ AppOpInv'
      BY <1>0, <1>1, Zenon DEF StorageInv, RealmOpInv, AppOpInv, Busy, AppsOf, AtDisk, memory, bounds, loads
  <1>4. PlaceInv' /\ LoadInv'
      BY <1>0, <1>1, Zenon DEF StorageInv, PlaceInv, LoadInv, AtDisk, Busy, memory, bounds, loads
  <1>5. AcknowledgedIsKept'
      BY <1>0, <1>1 DEF StorageInv, AcknowledgedIsKept, memory, bounds, loads
  <1>6. FinishInv' /\ DiskMatchesConfig' /\ LoadsWhatIsFinished'
      BY <1>0, <1>1 DEF StorageInv, FinishInv, DiskMatchesConfig, LoadsWhatIsFinished, Busy, memory, bounds, loads
  <1> QED
      BY <1>2, <1>3, <1>4, <1>5, <1>6, Zenon DEF StorageInv

(* save_write of a new realm, a new application and an update. *)
LEMMA SaveWriteRealm ==
    ASSUME StorageInv, pc = "save_write", op.name = "create_realm",
           cfg' = [cfg EXCEPT ![op.realm] = "Valid"], realms' = realms \cup {op.realm},
           ack' = [ack EXCEPT !.realms = ack.realms \cup {op.realm}], Returns("Ok"),
           UNCHANGED <<dir, adir, acfg, disk, apps, mem, size, daemon, loads, op, dirty, bounds, lapsed, unread>>
    PROVE  StorageInv'
  <1>1. /\ daemon = "Up" /\ op.realm \in Realms /\ op.realm \in dir /\ pc' = "Idle" /\ out' = "Ok"
        /\ cfg' \in [Realms -> {"Absent", "Empty", "Valid"}] /\ cfg'[op.realm] = "Valid"
        /\ \A r \in Realms : r # op.realm => cfg'[r] = cfg[r]
        /\ ack'.realms = ack.realms \cup {op.realm} /\ ack'.gone = ack.gone /\ ack'.config = ack.config
        /\ ack' \in AckRecords
      BY ConstantsAssumption, Zenon DEF StorageInv, PcInv, RealmOpInv, Busy, TypeOK, OpTypes, Returns, AckRecords
  <1>2. TypeOK' /\ OpTypes' /\ PcInv'
      BY <1>1, Zenon DEF StorageInv, TypeOK, OpTypes, PcInv, Busy, AtDisk, memory, bounds, loads
  <1>3. RealmOpInv' /\ AppOpInv'
      BY <1>1, Zenon DEF StorageInv, RealmOpInv, AppOpInv, Busy, AppsOf, AtDisk, memory, bounds, loads
  <1>4. PlaceInv' /\ LoadInv'
      BY <1>1, Zenon DEF StorageInv, PlaceInv, LoadInv, AtDisk, Busy, memory, bounds, loads
  <1>5. AcknowledgedIsKept'
      BY <1>1 DEF StorageInv, AcknowledgedIsKept, memory, bounds, loads
  <1>6. FinishInv' /\ DiskMatchesConfig' /\ LoadsWhatIsFinished'
      BY <1>1 DEF StorageInv, FinishInv, DiskMatchesConfig, LoadsWhatIsFinished, Busy, memory, bounds, loads
  <1> QED
      BY <1>2, <1>3, <1>4, <1>5, <1>6, Zenon DEF StorageInv

LEMMA SaveWriteApp ==
    ASSUME StorageInv, pc = "save_write", op.name = "create_app",
           acfg' = [acfg EXCEPT ![op.app] = op.config], pc' = "disk_truncate",
           UNCHANGED <<dir, adir, cfg, disk, memory, daemon, loads, op, out, ack, lapsed, unread, dirty, bounds>>
    PROVE  StorageInv'
  <1>1. /\ daemon = "Up" /\ op.app \in Apps /\ op.app \in adir /\ ack.config[op.app] = None
        /\ op.config \in Sizes /\ mem[op.app] = op.config /\ size[op.app] = op.config /\ disk[op.app] = "Absent"
        /\ op.config # "Absent" /\ acfg'[op.app] = op.config
        /\ acfg' \in [Apps -> {"Absent", "Empty"} \cup Configs] /\ \A a \in Apps : a # op.app => acfg'[a] = acfg[a]
      BY ConstantsAssumption, Zenon DEF StorageInv, PcInv, RealmOpInv, AppOpInv, Busy, TypeOK
  <1>2. TypeOK' /\ OpTypes' /\ PcInv'
      BY <1>1, Zenon DEF StorageInv, TypeOK, OpTypes, PcInv, Busy, AtDisk, memory, bounds, loads
  <1>3. RealmOpInv' /\ AppOpInv'
      BY <1>1, Zenon DEF StorageInv, RealmOpInv, AppOpInv, Busy, AppsOf, AtDisk, memory, bounds, loads
  <1>4. PlaceInv' /\ LoadInv'
      BY <1>1, Zenon DEF StorageInv, PlaceInv, LoadInv, AtDisk, Busy, memory, bounds, loads
  <1>5. AcknowledgedIsKept'
      BY <1>1, Zenon DEF StorageInv, AcknowledgedIsKept, memory, bounds, loads
  <1>6. FinishInv' /\ DiskMatchesConfig' /\ LoadsWhatIsFinished'
      BY <1>1 DEF StorageInv, FinishInv, DiskMatchesConfig, LoadsWhatIsFinished, Busy, memory, bounds, loads
  <1> QED
      BY <1>2, <1>3, <1>4, <1>5, <1>6, Zenon DEF StorageInv

LEMMA SaveWriteUpdate ==
    ASSUME StorageInv, pc = "save_write", op.name = "update",
           acfg' = [acfg EXCEPT ![op.app] = op.config],
           ack' = [ack EXCEPT !.config[op.app] = op.config], Returns("Ok"),
           dirty' = IF dirty = "No" /\ op.config = Invalid THEN "invalid" ELSE dirty,
           UNCHANGED <<dir, adir, cfg, disk, memory, daemon, loads, op, bounds, unread>>, lapsed' = lapsed \ {op.app}
    PROVE  StorageInv'
  <1>0. /\ ack.realms \subseteq Realms /\ \A a \in Apps : Home[a] \in Realms
        /\ \A r \in Realms : r \in lapsed => r \in lapsed'
        /\ \A a \in Apps : a # op.app /\ a \in lapsed => a \in lapsed'
    <2>1. op.app \in Apps /\ ack.realms \subseteq Realms
        BY Zenon DEF StorageInv, OpTypes, AckRecords, AppOpInv, Busy, TypeOK
    <2> QED
        BY <2>1, ConstantsAssumption
  <1>1. /\ daemon = "Up" /\ op.app \in Apps /\ op.app \in adir /\ op.app \in apps /\ pc' = "Idle" /\ out' = "Ok"
        /\ op.config \in Configs /\ mem[op.app] = op.config /\ acfg'[op.app] = op.config
        /\ acfg' \in [Apps -> {"Absent", "Empty"} \cup Configs] /\ \A a \in Apps : a # op.app => acfg'[a] = acfg[a]
        /\ ack'.realms = ack.realms /\ ack'.gone = ack.gone
        /\ ack'.config = [ack.config EXCEPT ![op.app] = op.config]
        /\ ack'.config[op.app] = op.config /\ \A a \in Apps : a # op.app => ack'.config[a] = ack.config[a]
        /\ ack' \in AckRecords
      BY ConstantsAssumption, Zenon DEF StorageInv, PcInv, RealmOpInv, AppOpInv, Busy, TypeOK, OpTypes, Returns, AckRecords
  <1>2. TypeOK' /\ OpTypes' /\ PcInv'
      BY <1>1, Zenon DEF StorageInv, TypeOK, OpTypes, PcInv, Busy, AtDisk, memory, bounds, Configs, loads
  <1>3. RealmOpInv' /\ AppOpInv'
      BY <1>1, Zenon DEF StorageInv, RealmOpInv, AppOpInv, Busy, AppsOf, AtDisk, memory, bounds, Configs, loads
  <1>4. PlaceInv' /\ LoadInv'
      BY <1>1, Zenon DEF StorageInv, PlaceInv, LoadInv, AtDisk, Busy, memory, bounds, Configs, loads
  <1>5. AcknowledgedIsKept'
      BY <1>0, <1>1 DEF StorageInv, AcknowledgedIsKept, memory, bounds, Configs, loads
  <1>6. FinishInv' /\ DiskMatchesConfig' /\ LoadsWhatIsFinished'
      BY <1>1 DEF StorageInv, FinishInv, DiskMatchesConfig, LoadsWhatIsFinished, Busy, memory, bounds, Configs, loads
  <1> QED
      BY <1>2, <1>3, <1>4, <1>5, <1>6, Zenon DEF StorageInv

LEMMA SaveSteps ==
    ASSUME StorageInv, save_create \/ save_write
    PROVE  StorageInv'
  <1>0. PcInv
      BY Zenon DEF StorageInv
  <1>b. pc = "save_create" /\ op.app = None => op.name # "update"
      BY ConstantsAssumption, Zenon DEF StorageInv, AppOpInv, TypeOK, Busy
  <1>1. CASE save_create
    <2>1. CASE op.app = None /\ pc' = "save_write"
        BY <1>0, <1>1, <2>1, <1>b, SaveCreateRealm, Zenon DEF save_create, Abandons, Returns, bounds
    <2>2. CASE op.app # None /\ pc' = "save_write"
        BY <1>1, <2>2, SaveCreateApp, Zenon DEF save_create, Abandons, Returns, bounds
    <2>3. CASE Fault /\ Abandons /\ UNCHANGED <<cfg, acfg, ack>>
        BY <1>0, <1>1, <2>3, AbandonsStep, Zenon DEF DiskKeptOrWritten, files, save_create, PcInv, Busy
    <2> QED
        BY <1>1, <2>1, <2>2, <2>3, Zenon DEF save_create
  <1>2. CASE save_write
    <2>1. CASE op.name = "create_realm" /\ out' = "Ok"
        BY <1>2, <2>1, SaveWriteRealm, Zenon DEF save_write, Abandons, Returns, bounds
    <2>2. CASE op.name = "create_app" /\ pc' = "disk_truncate"
        BY <1>2, <2>2, SaveWriteApp, Zenon DEF save_write, Abandons, Returns, bounds, memory
    <2>3. CASE op.name = "update" /\ out' = "Ok"
        BY <1>2, <2>3, SaveWriteUpdate, Zenon DEF save_write, Abandons, Returns, bounds, memory
    <2>4. CASE Fault /\ Abandons /\ UNCHANGED <<cfg, acfg, realms, ack, lapsed>>
        BY <1>0, <1>2, <2>4, AbandonsStep, Zenon DEF DiskKeptOrWritten, files, save_write, PcInv, Busy, memory
    <2> QED
        BY <1>2, <2>1, <2>2, <2>3, <2>4, Zenon DEF save_write, Returns
  <1> QED
      BY <1>1, <1>2, Zenon

(* The two steps of making a disk. *)
LEMMA TruncateStep ==
    ASSUME StorageInv, pc = "disk_truncate", disk' = [disk EXCEPT ![op.app] = "Raw"], pc' = "disk_gpt",
           UNCHANGED <<dir, adir, cfg, acfg, memory, daemon, loads, op, out, ack, lapsed, dirty, bounds>>, unread' = unread \ {op.app}
    PROVE  StorageInv'
  <1>1. /\ op.app \in Apps /\ op.app \in adir /\ op.name \in {"create_app", "start", "load"}
        /\ op.name = "load" => op.app \notin apps
        /\ op.name = "load" <=> daemon = "Loading"
        /\ disk' \in [Apps -> {"Absent", "Raw"} \cup Sizes] /\ disk'[op.app] = "Raw"
        /\ \A a \in Apps : a # op.app => disk'[a] = disk[a]
      BY Zenon DEF StorageInv, PcInv, AppOpInv, Busy, AtDisk, TypeOK
  <1>2. TypeOK' /\ OpTypes' /\ PcInv'
      BY <1>1, Zenon DEF StorageInv, TypeOK, OpTypes, PcInv, Busy, AtDisk, memory, bounds, loads
  <1>3. RealmOpInv' /\ AppOpInv'
      BY <1>1, Zenon DEF StorageInv, RealmOpInv, AppOpInv, Busy, AppsOf, AtDisk, memory, bounds, loads
  <1>4. PlaceInv' /\ LoadInv'
      BY <1>1 DEF StorageInv, PlaceInv, LoadInv, AtDisk, Busy, memory, bounds, loads
  <1>5. AcknowledgedIsKept'
      BY <1>1, Zenon DEF StorageInv, AcknowledgedIsKept, memory, bounds, loads
  <1>6. FinishInv' /\ DiskMatchesConfig' /\ LoadsWhatIsFinished'
      BY <1>1, Zenon DEF StorageInv, FinishInv, DiskMatchesConfig, LoadsWhatIsFinished, Busy, memory, bounds, loads
  <1> QED
      BY <1>2, <1>3, <1>4, <1>5, <1>6, Zenon DEF StorageInv

LEMMA GptLoad ==
    ASSUME StorageInv, pc = "disk_gpt", disk' = [disk EXCEPT ![op.app] = size[op.app]], apps' = apps \cup {op.app},
           op.name = "load", pc' = "load_apps",
           UNCHANGED <<dir, adir, cfg, acfg, realms, mem, size, daemon, loads, op, out, ack, lapsed, unread, dirty, bounds>>
    PROVE  StorageInv'
  <1>1. /\ op.app \in Apps /\ op.app \in adir /\ daemon = "Loading"
        /\ disk' \in [Apps -> {"Absent", "Raw"} \cup Sizes] /\ disk'[op.app] = mem[op.app]
        /\ mem[op.app] = acfg[op.app] /\ Home[op.app] = op.realm
        /\ \A a \in Apps : a # op.app => disk'[a] = disk[a]
      BY Zenon DEF StorageInv, PcInv, AppOpInv, Busy, AtDisk, TypeOK
  <1>2. TypeOK' /\ OpTypes' /\ PcInv'
      BY <1>1, Zenon DEF StorageInv, TypeOK, OpTypes, PcInv, Busy, AtDisk, bounds, loads
  <1>3. RealmOpInv' /\ AppOpInv'
      BY <1>1, Zenon DEF StorageInv, RealmOpInv, AppOpInv, Busy, AppsOf, AtDisk, bounds, loads
  <1>4. PlaceInv' /\ LoadInv'
      BY <1>1 DEF StorageInv, PlaceInv, LoadInv, AtDisk, Busy, bounds, loads
  <1>5. AcknowledgedIsKept'
      BY <1>1, Zenon DEF StorageInv, AcknowledgedIsKept, bounds, loads
  <1>6. FinishInv' /\ DiskMatchesConfig' /\ LoadsWhatIsFinished'
      BY <1>1, Zenon DEF StorageInv, FinishInv, DiskMatchesConfig, LoadsWhatIsFinished, Busy, bounds, loads
  <1> QED
      BY <1>2, <1>3, <1>4, <1>5, <1>6, Zenon DEF StorageInv

LEMMA GptReturns ==
    ASSUME StorageInv, pc = "disk_gpt", disk' = [disk EXCEPT ![op.app] = size[op.app]], apps' = apps \cup {op.app},
           op.name # "load", Returns("Ok"),
           ack' = IF op.name = "create_app" THEN [ack EXCEPT !.config[op.app] = op.config] ELSE ack,
           UNCHANGED <<dir, adir, cfg, acfg, realms, mem, size, daemon, loads, op, dirty, bounds, lapsed, unread>>
    PROVE  StorageInv'
  <1>1. /\ op.app \in Apps /\ op.app \in adir /\ daemon = "Up" /\ op.name \in {"create_app", "start"}
        /\ pc' = "Idle" /\ out' = "Ok" /\ Home[op.app] = op.realm /\ Home[op.app] \in dir
        /\ disk' \in [Apps -> {"Absent", "Raw"} \cup Sizes] /\ disk'[op.app] = mem[op.app]
        /\ \A a \in Apps : a # op.app => disk'[a] = disk[a]
        /\ op.name = "create_app" => op.config \in Sizes /\ acfg[op.app] = op.config /\ mem[op.app] = op.config
        /\ ack'.realms = ack.realms /\ ack'.gone = ack.gone
        /\ \A a \in Apps : a # op.app \/ op.name = "start" => ack'.config[a] = ack.config[a]
        /\ op.name = "create_app" => ack'.config[op.app] = op.config
        /\ ack' \in AckRecords
        /\ Home[op.app] \in realms
      BY ConstantsAssumption, Zenon DEF StorageInv, PcInv, AppOpInv, PlaceInv, Busy, AtDisk, TypeOK, OpTypes, Returns, Configs, AckRecords
  <1>2. TypeOK' /\ OpTypes' /\ PcInv'
      BY <1>1, Zenon DEF StorageInv, TypeOK, OpTypes, PcInv, Busy, AtDisk, bounds, loads
  <1>3. RealmOpInv' /\ AppOpInv'
      BY <1>1, Zenon DEF StorageInv, RealmOpInv, AppOpInv, Busy, AppsOf, AtDisk, bounds, loads
  <1>4. PlaceInv' /\ LoadInv'
      BY <1>1, Zenon DEF StorageInv, PlaceInv, LoadInv, AtDisk, Busy, bounds, loads
  <1>5. AcknowledgedIsKept'
      BY <1>1 DEF StorageInv, AcknowledgedIsKept, bounds, loads
  <1>6. FinishInv' /\ DiskMatchesConfig' /\ LoadsWhatIsFinished'
      BY <1>1, Zenon DEF StorageInv, FinishInv, DiskMatchesConfig, LoadsWhatIsFinished, Busy, bounds, loads
  <1> QED
      BY <1>2, <1>3, <1>4, <1>5, <1>6, Zenon DEF StorageInv

LEMMA DiskSteps ==
    ASSUME StorageInv, disk_truncate \/ disk_gpt
    PROVE  StorageInv'
  <1>0. PcInv /\ TypeOK
      BY Zenon DEF StorageInv
  <1>a. Fault => faults' > 0
      BY <1>0, FaultType, Zenon
  <1>1. CASE disk_truncate
    <2>1. CASE /\ disk' = [disk EXCEPT ![op.app] = "Raw"] /\ pc' = "disk_gpt" /\ unread' = unread \ {op.app}
               /\ UNCHANGED <<daemon, out, dirty, faults>>
        BY <1>1, <2>1, TruncateStep, Zenon DEF disk_truncate, bounds
    <2>2. CASE (Fault \/ (SiblingFails /\ UNCHANGED faults)) /\ DiskFails /\ UNCHANGED <<disk, unread>>
      <3>1. CASE op.name # "load"
          BY <1>1, <2>2, <3>1, AbandonsStep, Zenon DEF DiskKeptOrWritten, disk_truncate, DiskFails, Busy
      <3>2. CASE op.name = "load"
          BY <1>a, <1>1, <2>2, <3>2, LoadFailsStep, Zenon
             DEF DiskKeptOrWritten, loads, disk_truncate, DiskFails, SiblingFails, Abandons, LoadFails, Busy
      <3> QED
          BY <3>1, <3>2, Zenon
    <2> QED
        BY <1>1, <2>1, <2>2, Zenon DEF disk_truncate
  <1>2. CASE disk_gpt
    <2>1. CASE op.name = "load" /\ pc' = "load_apps"
        BY <1>2, <2>1, GptLoad, Zenon DEF disk_gpt, DiskFails, Abandons, Returns, bounds
    <2>2. CASE op.name # "load" /\ out' = "Ok"
        BY <1>2, <2>2, GptReturns, Zenon DEF disk_gpt, DiskFails, Abandons, Returns, bounds
    <2>3. CASE /\ Fault \/ (SiblingFails /\ UNCHANGED faults)
               /\ DiskFails /\ disk' \in {disk, [disk EXCEPT ![op.app] = size[op.app]]} /\ UNCHANGED <<apps, ack>>
      <3>1. CASE op.name # "load"
          BY <1>2, <2>3, <3>1, AbandonsStep, Zenon DEF DiskKeptOrWritten, disk_gpt, DiskFails, Busy, memory
      <3>2. CASE op.name = "load"
          BY <1>a, <1>2, <2>3, <3>2, LoadFailsStep, Zenon
             DEF DiskKeptOrWritten, loads, disk_gpt, DiskFails, SiblingFails, Abandons, LoadFails, Busy, memory
      <3> QED
          BY <3>1, <3>2, Zenon
    <2> QED
        BY <1>2, <2>1, <2>2, <2>3, Zenon DEF disk_gpt, Returns
  <1> QED
      BY <1>1, <1>2, Zenon

(* create_realm, refused and begun. *)
LEMMA CreateRealmRefused ==
    ASSUME StorageInv, NEW r \in Realms, r \notin realms, daemon = "Up", pc = "Idle", ops < MaxOps, ops' = ops + 1,
           op' = Op("create_realm", r, None, None), out' = "Err",
           UNCHANGED <<files, memory, daemon, loads, pc, ack, lapsed, unread, dirty, faults, crashes>>
    PROVE  StorageInv'
  <1>1. /\ op'.name = "create_realm" /\ op'.realm = r /\ op'.app = None /\ ops' \in 0..MaxOps
        /\ op' \in OpRecords
      BY OpsType, Zenon DEF StorageInv, Op, TypeOK, OpRecords
  <1>2. TypeOK' /\ OpTypes' /\ PcInv'
      BY <1>1, Zenon DEF StorageInv, TypeOK, OpTypes, PcInv, Busy, AtDisk, files, memory, loads
  <1>3. RealmOpInv' /\ AppOpInv'
      BY <1>1, Zenon DEF StorageInv, RealmOpInv, AppOpInv, Busy, AppsOf, AtDisk, files, memory, loads
  <1>4. PlaceInv' /\ LoadInv'
      BY <1>1, Zenon DEF StorageInv, PlaceInv, LoadInv, AtDisk, Busy, files, memory, loads
  <1>5. AcknowledgedIsKept'
      BY <1>1, Zenon DEF StorageInv, AcknowledgedIsKept, files, memory, loads
  <1>6. FinishInv' /\ DiskMatchesConfig' /\ LoadsWhatIsFinished'
      BY <1>1, Zenon DEF StorageInv, FinishInv, DiskMatchesConfig, LoadsWhatIsFinished, Busy, files, memory, loads
  <1> QED
      BY <1>2, <1>3, <1>4, <1>5, <1>6, Zenon DEF StorageInv

LEMMA CreateRealmBegun ==
    ASSUME StorageInv, NEW r \in Realms, r \notin realms, r \notin dir,
           Begin(Op("create_realm", r, None, None), "create_tap"), dir' = dir \cup {r},
           ack' = [ack EXCEPT !.gone = ack.gone \ {r}],
           UNCHANGED <<adir, cfg, acfg, disk, memory, daemon, loads, dirty, faults, crashes, lapsed, unread>>
    PROVE  StorageInv'
  <1>1. /\ daemon = "Up" /\ pc = "Idle" /\ pc' = "create_tap" /\ out' = "None" /\ r \notin ack.realms
        /\ op'.name = "create_realm" /\ op'.realm = r /\ op'.app = None /\ ops' \in 0..MaxOps
        /\ op' \in OpRecords
        /\ ack'.realms = ack.realms /\ ack'.gone = ack.gone \ {r} /\ ack'.config = ack.config
        /\ ack' \in AckRecords
      BY OpsType, Zenon DEF StorageInv, Op, Begin, TypeOK, OpTypes, AcknowledgedIsKept, AckRecords, OpRecords
  <1>2. TypeOK' /\ OpTypes' /\ PcInv'
      BY <1>1, Zenon DEF StorageInv, TypeOK, OpTypes, PcInv, Busy, AtDisk, memory, loads
  <1>3. RealmOpInv' /\ AppOpInv'
      BY <1>1, Zenon DEF StorageInv, RealmOpInv, AppOpInv, Busy, AppsOf, AtDisk, memory, loads
  <1>4. PlaceInv' /\ LoadInv'
      BY <1>1, Zenon DEF StorageInv, PlaceInv, LoadInv, AtDisk, Busy, memory, loads
  <1>5. AcknowledgedIsKept'
      BY <1>1, Zenon DEF StorageInv, AcknowledgedIsKept, memory, loads
  <1>6. FinishInv' /\ DiskMatchesConfig' /\ LoadsWhatIsFinished'
      BY <1>1, Zenon DEF StorageInv, FinishInv, DiskMatchesConfig, LoadsWhatIsFinished, Busy, memory, loads
  <1> QED
      BY <1>2, <1>3, <1>4, <1>5, <1>6, Zenon DEF StorageInv

(* create_application, refused and begun. *)
LEMMA CreateApplicationRefused ==
    ASSUME StorageInv, NEW a \in Apps, NEW c \in Configs, Home[a] \in realms, a \notin adir,
           adir' = adir \cup {a}, mem' = [mem EXCEPT ![a] = c], daemon = "Up", pc = "Idle", ops < MaxOps, ops' = ops + 1,
           op' = Op("create_app", Home[a], a, c), out' = "Err",
           dirty' = IF dirty = "No" THEN "create_app" ELSE dirty,
           UNCHANGED <<dir, cfg, acfg, disk, realms, apps, size, daemon, loads, pc, ack, lapsed, unread, faults, crashes>>
    PROVE  StorageInv'
  <1>0. ack.config[a] = None
      BY Zenon DEF StorageInv, AcknowledgedIsKept
  <1>1. /\ op'.name = "create_app" /\ op'.realm = Home[a] /\ op'.app = a /\ ops' \in 0..MaxOps
        /\ a \notin apps /\ ack.config[a] = None /\ dirty' # "No" /\ Home[a] \in dir
        /\ mem' \in [Apps -> Configs \cup {None}] /\ \A b \in Apps : b # a => mem'[b] = mem[b]
        /\ op' \in OpRecords
      BY <1>0, OpsType, ConstantsAssumption, Zenon DEF StorageInv, Op, TypeOK, OpTypes, OpRecords
  <1>2. TypeOK' /\ OpTypes' /\ PcInv'
      BY <1>1, Zenon DEF StorageInv, TypeOK, OpTypes, PcInv, Busy, AtDisk, loads
  <1>3. RealmOpInv' /\ AppOpInv'
      BY <1>1, Zenon DEF StorageInv, RealmOpInv, AppOpInv, Busy, AppsOf, AtDisk, loads
  <1>4. PlaceInv' /\ LoadInv'
      BY <1>1, Zenon DEF StorageInv, PlaceInv, LoadInv, AtDisk, Busy, loads
  <1>5. AcknowledgedIsKept'
      BY <1>1, Zenon DEF StorageInv, AcknowledgedIsKept, loads
  <1>6. FinishInv' /\ DiskMatchesConfig' /\ LoadsWhatIsFinished'
      BY <1>1, Zenon DEF StorageInv, FinishInv, DiskMatchesConfig, LoadsWhatIsFinished, Busy, loads
  <1> QED
      BY <1>2, <1>3, <1>4, <1>5, <1>6, Zenon DEF StorageInv

LEMMA CreateApplicationBegun ==
    ASSUME StorageInv, NEW a \in Apps, NEW c \in Sizes, Home[a] \in realms, a \notin adir,
           adir' = adir \cup {a}, mem' = [mem EXCEPT ![a] = c], size' = [size EXCEPT ![a] = c],
           Begin(Op("create_app", Home[a], a, c), "save_create"),
           UNCHANGED <<dir, cfg, acfg, disk, realms, apps, daemon, loads, ack, lapsed, unread, dirty, faults, crashes>>
    PROVE  StorageInv'
  <1>0. ack.config[a] = None
      BY Zenon DEF StorageInv, AcknowledgedIsKept
  <1>d. a \notin apps /\ disk[a] = "Absent" /\ c \in Configs /\ Home[a] \in dir /\ Home[a] \in Realms
      BY ConstantsAssumption DEF StorageInv, TypeOK, PlaceInv, Configs
  <1>1. /\ daemon = "Up" /\ pc = "Idle" /\ pc' = "save_create" /\ out' = "None"
        /\ op'.name = "create_app" /\ op'.realm = Home[a] /\ op'.app = a /\ op'.config = c
        /\ a \notin apps /\ ack.config[a] = None /\ disk[a] = "Absent" /\ c \in Configs /\ Home[a] \in dir /\ Home[a] \in Realms
        /\ mem' \in [Apps -> Configs \cup {None}] /\ mem'[a] = c /\ \A b \in Apps : b # a => mem'[b] = mem[b]
        /\ size' \in [Apps -> Sizes \cup {None}] /\ size'[a] = c /\ \A b \in Apps : b # a => size'[b] = size[b]
      BY <1>0, <1>d, Zenon DEF StorageInv, Op, Begin, TypeOK
  <1>c. ops' \in 0..MaxOps
      BY OpsType, Zenon DEF StorageInv, Begin
  <1>b. op' \in OpRecords
      BY ConstantsAssumption, Zenon DEF Op, Begin, OpRecords, Configs
  <1>2. TypeOK' /\ OpTypes' /\ PcInv'
      BY <1>1, <1>b, <1>c, Zenon DEF StorageInv, TypeOK, OpTypes, PcInv, Busy, AtDisk, loads
  <1>3. RealmOpInv' /\ AppOpInv'
      BY <1>1, Zenon DEF StorageInv, RealmOpInv, AppOpInv, Busy, AppsOf, AtDisk, loads
  <1>4. PlaceInv' /\ LoadInv'
      BY <1>1, Zenon DEF StorageInv, PlaceInv, LoadInv, AtDisk, Busy, loads
  <1>5. AcknowledgedIsKept'
      BY <1>1, Zenon DEF StorageInv, AcknowledgedIsKept, loads
  <1>6. FinishInv' /\ DiskMatchesConfig' /\ LoadsWhatIsFinished'
      BY <1>1, Zenon DEF StorageInv, FinishInv, DiskMatchesConfig, LoadsWhatIsFinished, Busy, loads
  <1> QED
      BY <1>2, <1>3, <1>4, <1>5, <1>6, Zenon DEF StorageInv

(* update_config. *)
LEMMA UpdateStep ==
    ASSUME StorageInv, NEW a \in Apps, NEW c \in Configs, update_config(a, c)
    PROVE  StorageInv'
  <1>d. daemon = "Up" /\ a \in adir /\ Home[a] \in Realms /\ Home[a] \in realms
      BY ConstantsAssumption DEF StorageInv, TypeOK, PlaceInv, update_config, Begin
  <1>1. /\ daemon = "Up" /\ pc = "Idle" /\ pc' = "save_create" /\ out' = "None" /\ a \in apps
        /\ op'.name = "update" /\ op'.realm = Home[a] /\ op'.app = a /\ op'.config = c
        /\ a \in adir /\ Home[a] \in Realms /\ Home[a] \in realms
        /\ mem' \in [Apps -> Configs \cup {None}] /\ mem'[a] = c /\ \A b \in Apps : b # a => mem'[b] = mem[b]
        /\ lapsed' = lapsed \cup {a}
        /\ UNCHANGED <<files, realms, apps, size, daemon, loads, ack, unread, dirty, faults, crashes>>
      BY <1>d, Zenon DEF StorageInv, update_config, Op, Begin, TypeOK
  <1>c. ops' \in 0..MaxOps
      BY OpsType, Zenon DEF StorageInv, update_config, Begin
  <1>b. op' \in OpRecords
      BY ConstantsAssumption, Zenon DEF Op, Begin, update_config, OpRecords, Configs
  <1>2. TypeOK' /\ OpTypes' /\ PcInv'
      BY <1>1, <1>b, <1>c, Zenon DEF StorageInv, TypeOK, OpTypes, PcInv, Busy, AtDisk, files, loads
  <1>3. RealmOpInv' /\ AppOpInv'
      BY <1>1, Zenon DEF StorageInv, RealmOpInv, AppOpInv, Busy, AppsOf, AtDisk, files, loads
  <1>4. PlaceInv' /\ LoadInv'
      BY <1>1, Zenon DEF StorageInv, PlaceInv, LoadInv, AtDisk, Busy, files, loads
  <1>5. AcknowledgedIsKept'
      BY <1>1 DEF StorageInv, AcknowledgedIsKept, files, loads
  <1>6. FinishInv' /\ DiskMatchesConfig' /\ LoadsWhatIsFinished'
      BY <1>1, Zenon DEF StorageInv, FinishInv, DiskMatchesConfig, LoadsWhatIsFinished, Busy, files, loads
  <1> QED
      BY <1>2, <1>3, <1>4, <1>5, <1>6, Zenon DEF StorageInv

(* configure_disk, with new sizes and without. *)
LEMMA ConfigureResizes ==
    ASSUME StorageInv, NEW a \in apps, mem[a] \in Sizes, disk[a] = size[a], mem[a] # size[a],
           Begin(Op("start", Home[a], a, None), "disk_truncate"), size' = [size EXCEPT ![a] = mem[a]],
           UNCHANGED <<files, realms, apps, mem, daemon, loads, ack, lapsed, unread, dirty, faults, crashes>>
    PROVE  StorageInv'
  <1>1. /\ daemon = "Up" /\ pc = "Idle" /\ pc' = "disk_truncate" /\ out' = "None" /\ a \in Apps /\ a \in adir
        /\ op'.name = "start" /\ op'.realm = Home[a] /\ op'.app = a /\ ops' \in 0..MaxOps /\ Home[a] \in Realms /\ Home[a] \in realms
        /\ size' \in [Apps -> Sizes \cup {None}] /\ size'[a] = mem[a]
        /\ op' \in OpRecords
      BY OpsType, ConstantsAssumption, Zenon DEF StorageInv, Op, Begin, TypeOK, PlaceInv, OpRecords
  <1>2. TypeOK' /\ OpTypes' /\ PcInv'
      BY <1>1, Zenon DEF StorageInv, TypeOK, OpTypes, PcInv, Busy, AtDisk, files, loads
  <1>3. RealmOpInv' /\ AppOpInv'
      BY <1>1, Zenon DEF StorageInv, RealmOpInv, AppOpInv, Busy, AppsOf, AtDisk, files, loads
  <1>4. PlaceInv' /\ LoadInv'
      BY <1>1, Zenon DEF StorageInv, PlaceInv, LoadInv, AtDisk, Busy, files, loads
  <1>5. AcknowledgedIsKept'
      BY <1>1, Zenon DEF StorageInv, AcknowledgedIsKept, files, loads
  <1>6. FinishInv' /\ DiskMatchesConfig' /\ LoadsWhatIsFinished'
      BY <1>1, Zenon DEF StorageInv, FinishInv, DiskMatchesConfig, LoadsWhatIsFinished, Busy, files, loads
  <1> QED
      BY <1>2, <1>3, <1>4, <1>5, <1>6, Zenon DEF StorageInv

LEMMA ConfigureKeeps ==
    ASSUME StorageInv, NEW a \in apps, ~(mem[a] \in Sizes /\ disk[a] = size[a] /\ mem[a] # size[a]),
           Begin(Op("start", Home[a], a, None), "configured"),
           UNCHANGED <<files, memory, daemon, loads, ack, lapsed, unread, dirty, faults, crashes>>
    PROVE  StorageInv'
  <1>1. /\ daemon = "Up" /\ pc = "Idle" /\ pc' = "configured" /\ out' = "None" /\ a \in Apps /\ a \in adir
        /\ op'.name = "start" /\ op'.realm = Home[a] /\ op'.app = a /\ ops' \in 0..MaxOps /\ Home[a] \in Realms /\ Home[a] \in realms
        /\ op' \in OpRecords
      BY OpsType, ConstantsAssumption, Zenon DEF StorageInv, Op, Begin, TypeOK, PlaceInv, OpRecords
  <1>2. TypeOK' /\ OpTypes' /\ PcInv'
      BY <1>1, Zenon DEF StorageInv, TypeOK, OpTypes, PcInv, Busy, AtDisk, files, memory, loads
  <1>3. RealmOpInv' /\ AppOpInv'
      BY <1>1, Zenon DEF StorageInv, RealmOpInv, AppOpInv, Busy, AppsOf, AtDisk, files, memory, loads
  <1>4. PlaceInv' /\ LoadInv'
      BY <1>1, Zenon DEF StorageInv, PlaceInv, LoadInv, AtDisk, Busy, files, memory, loads
  <1>5. AcknowledgedIsKept'
      BY <1>1, Zenon DEF StorageInv, AcknowledgedIsKept, files, memory, loads
  <1>6. FinishInv' /\ DiskMatchesConfig' /\ LoadsWhatIsFinished'
      BY <1>1, Zenon DEF StorageInv, FinishInv, DiskMatchesConfig, LoadsWhatIsFinished, Busy, files, memory, loads
  <1> QED
      BY <1>2, <1>3, <1>4, <1>5, <1>6, Zenon DEF StorageInv

LEMMA RequestSteps ==
    ASSUME StorageInv, \/ \E r \in Realms : create_realm(r)
                       \/ \E a \in Apps : configure_disk(a) \/ \E c \in Configs : create_application(a, c) \/ update_config(a, c)
    PROVE  StorageInv'
  <1>1. ASSUME NEW r \in Realms, create_realm(r) PROVE StorageInv'
    <2>1. CASE r \in dir
        BY <1>1, <2>1, CreateRealmRefused, Zenon DEF create_realm, files
    <2>2. CASE r \notin dir
        BY <1>1, <2>2, CreateRealmBegun, Zenon DEF create_realm
    <2> QED
        BY <2>1, <2>2, Zenon
  <1>2. ASSUME NEW a \in Apps, NEW c \in Configs, create_application(a, c) PROVE StorageInv'
    <2>1. CASE c \in Sizes
        BY <1>2, <2>1, CreateApplicationBegun, Zenon DEF create_application, validate_and_convert_to_bytes
    <2>2. CASE c \notin Sizes
        BY <1>2, <2>2, CreateApplicationRefused, Zenon DEF create_application, validate_and_convert_to_bytes
    <2> QED
        BY <2>1, <2>2, Zenon
  <1>3. ASSUME NEW a \in Apps, NEW c \in Configs, update_config(a, c) PROVE StorageInv'
      BY <1>3, UpdateStep, Zenon
  <1>4. ASSUME NEW a \in Apps, configure_disk(a) PROVE StorageInv'
    <2>1. CASE mem[a] \in Sizes /\ disk[a] = size[a] /\ mem[a] # size[a]
        BY <1>4, <2>1, ConfigureResizes, Zenon DEF configure_disk, validate_and_convert_to_bytes
    <2>2. CASE ~(mem[a] \in Sizes /\ disk[a] = size[a] /\ mem[a] # size[a])
        BY <1>4, <2>2, ConfigureKeeps, Zenon DEF configure_disk, validate_and_convert_to_bytes, memory
    <2> QED
        BY <2>1, <2>2, Zenon
  <1> QED
      BY <1>1, <1>2, <1>3, <1>4, Zenon

(* destroy_realm and the steps that remove what the directory holds. *)
LEMMA DestroyStep ==
    ASSUME StorageInv, NEW r \in Realms, destroy_realm(r)
    PROVE  StorageInv'
  <1>1. /\ daemon = "Up" /\ pc = "Idle" /\ pc' = "rm_tap" /\ out' = "None"
        /\ op'.name = "destroy" /\ op'.realm = r /\ op'.app = None /\ ops' \in 0..MaxOps
        /\ realms' = realms \ {r} /\ apps' = apps \ {a \in Apps : Home[a] = r}
        /\ \A a \in apps' : a \in apps /\ Home[a] # r
        /\ lapsed' = lapsed \cup {r}
        /\ UNCHANGED <<files, mem, size, daemon, loads, ack, unread, dirty, faults, crashes>>
        /\ op' \in OpRecords
      BY OpsType, Zenon DEF StorageInv, destroy_realm, Op, Begin, TypeOK, OpTypes, AppsOf, OpRecords
  <1>2. TypeOK' /\ OpTypes' /\ PcInv'
      BY <1>1, Zenon DEF StorageInv, TypeOK, OpTypes, PcInv, Busy, AtDisk, files, loads
  <1>3. RealmOpInv' /\ AppOpInv'
      BY <1>1, Zenon DEF StorageInv, RealmOpInv, AppOpInv, Busy, AppsOf, AtDisk, files, loads
  <1>4. PlaceInv' /\ LoadInv'
      BY <1>1, Zenon DEF StorageInv, PlaceInv, LoadInv, AtDisk, Busy, files, loads
  <1>5. AcknowledgedIsKept'
      BY <1>1, Zenon DEF StorageInv, AcknowledgedIsKept, files, loads
  <1>6. FinishInv' /\ DiskMatchesConfig' /\ LoadsWhatIsFinished'
      BY <1>1, Zenon DEF StorageInv, FinishInv, DiskMatchesConfig, LoadsWhatIsFinished, Busy, files, loads
  <1> QED
      BY <1>2, <1>3, <1>4, <1>5, <1>6, Zenon DEF StorageInv

LEMMA RemoveConfig ==
    ASSUME StorageInv, pc = "rm_dir", cfg' = [cfg EXCEPT ![op.realm] = "Absent"],
           ack' = [ack EXCEPT !.realms = ack.realms \ {op.realm}],
           UNCHANGED <<dir, adir, acfg, disk, memory, daemon, loads, op, pc, out, lapsed, unread, dirty, bounds>>
    PROVE  StorageInv'
  <1>0. /\ ack'.realms = ack.realms \ {op.realm} /\ ack'.gone = ack.gone /\ ack'.config = ack.config
        /\ ack' \in AckRecords
      BY Zenon DEF StorageInv, OpTypes, AckRecords
  <1>1. /\ daemon = "Up" /\ op.name = "destroy" /\ op.realm \in Realms /\ op.realm \notin realms /\ op.realm \in lapsed
        /\ \A b \in Apps : Home[b] = op.realm => b \notin apps
        /\ cfg' \in [Realms -> {"Absent", "Empty", "Valid"}] /\ \A r \in Realms : r # op.realm => cfg'[r] = cfg[r]
      BY Zenon DEF StorageInv, PcInv, RealmOpInv, PlaceInv, Busy, TypeOK, AppsOf
  <1>2. TypeOK' /\ OpTypes' /\ PcInv'
      BY <1>0, <1>1, Zenon DEF StorageInv, TypeOK, OpTypes, PcInv, Busy, AtDisk, memory, bounds, loads
  <1>3. RealmOpInv' /\ AppOpInv'
      BY <1>0, <1>1, Zenon DEF StorageInv, RealmOpInv, AppOpInv, Busy, AppsOf, AtDisk, memory, bounds, loads
  <1>4. PlaceInv' /\ LoadInv'
      BY <1>0, <1>1, Zenon DEF StorageInv, PlaceInv, LoadInv, AtDisk, Busy, memory, bounds, loads
  <1>5. AcknowledgedIsKept'
      BY <1>0, <1>1 DEF StorageInv, AcknowledgedIsKept, memory, bounds, loads
  <1>6. FinishInv' /\ DiskMatchesConfig' /\ LoadsWhatIsFinished'
      BY <1>0, <1>1 DEF StorageInv, FinishInv, DiskMatchesConfig, LoadsWhatIsFinished, Busy, memory, bounds, loads
  <1> QED
      BY <1>2, <1>3, <1>4, <1>5, <1>6, Zenon DEF StorageInv

LEMMA RemoveAppConfig ==
    ASSUME StorageInv, NEW a \in AppsOf(op.realm) \cap adir, pc = "rm_dir", acfg' = [acfg EXCEPT ![a] = "Absent"],
           ack' = [ack EXCEPT !.config[a] = None],
           UNCHANGED <<dir, adir, cfg, disk, memory, daemon, loads, op, pc, out, lapsed, unread, dirty, bounds>>
    PROVE  StorageInv'
  <1>0. /\ ack'.realms = ack.realms /\ ack'.gone = ack.gone /\ ack'.config[a] = None
        /\ \A b \in Apps : b # a => ack'.config[b] = ack.config[b]
        /\ ack' \in AckRecords
      BY Zenon DEF StorageInv, OpTypes, AckRecords, AppsOf
  <1>1. /\ daemon = "Up" /\ op.name = "destroy" /\ op.realm \in Realms /\ op.realm \notin realms /\ op.realm \in lapsed
        /\ \A b \in Apps : Home[b] = op.realm => b \notin apps
        /\ a \in Apps /\ Home[a] = op.realm
        /\ acfg' \in [Apps -> {"Absent", "Empty"} \cup Configs] /\ \A b \in Apps : b # a => acfg'[b] = acfg[b]
      BY Zenon DEF StorageInv, PcInv, RealmOpInv, PlaceInv, Busy, TypeOK, AppsOf
  <1>2. TypeOK' /\ OpTypes' /\ PcInv'
      BY <1>0, <1>1, Zenon DEF StorageInv, TypeOK, OpTypes, PcInv, Busy, AtDisk, memory, bounds, loads
  <1>3. RealmOpInv' /\ AppOpInv'
      BY <1>0, <1>1, Zenon DEF StorageInv, RealmOpInv, AppOpInv, Busy, AppsOf, AtDisk, memory, bounds, loads
  <1>4. PlaceInv' /\ LoadInv'
      BY <1>0, <1>1, Zenon DEF StorageInv, PlaceInv, LoadInv, AtDisk, Busy, memory, bounds, loads
  <1>5. AcknowledgedIsKept'
      BY <1>0, <1>1, Zenon DEF StorageInv, AcknowledgedIsKept, memory, bounds, loads
  <1>6. FinishInv' /\ DiskMatchesConfig' /\ LoadsWhatIsFinished'
      BY <1>0, <1>1 DEF StorageInv, FinishInv, DiskMatchesConfig, LoadsWhatIsFinished, Busy, memory, bounds, loads
  <1> QED
      BY <1>2, <1>3, <1>4, <1>5, <1>6, Zenon DEF StorageInv

LEMMA RemoveDisk ==
    ASSUME StorageInv, NEW a \in AppsOf(op.realm) \cap adir, pc = "rm_dir", disk' = [disk EXCEPT ![a] = "Absent"],
           UNCHANGED <<dir, adir, cfg, acfg, memory, daemon, loads, op, pc, out, ack, lapsed, unread, dirty, bounds>>
    PROVE  StorageInv'
  <1>1. /\ daemon = "Up" /\ op.name = "destroy" /\ op.realm \in Realms /\ op.realm \notin realms /\ op.realm \in lapsed
        /\ \A b \in Apps : Home[b] = op.realm => b \notin apps
        /\ a \in Apps /\ Home[a] = op.realm
        /\ disk' \in [Apps -> {"Absent", "Raw"} \cup Sizes] /\ \A b \in Apps : b # a => disk'[b] = disk[b]
      BY Zenon DEF StorageInv, PcInv, RealmOpInv, PlaceInv, Busy, TypeOK, AppsOf
  <1>2. TypeOK' /\ OpTypes' /\ PcInv'
      BY <1>1, Zenon DEF StorageInv, TypeOK, OpTypes, PcInv, Busy, AtDisk, memory, bounds, loads
  <1>3. RealmOpInv' /\ AppOpInv'
      BY <1>1, Zenon DEF StorageInv, RealmOpInv, AppOpInv, Busy, AppsOf, AtDisk, memory, bounds, loads
  <1>4. PlaceInv' /\ LoadInv'
      BY <1>1, Zenon DEF StorageInv, PlaceInv, LoadInv, AtDisk, Busy, memory, bounds, loads
  <1>5. AcknowledgedIsKept'
      BY <1>1, Zenon DEF StorageInv, AcknowledgedIsKept, memory, bounds, loads
  <1>6. FinishInv' /\ DiskMatchesConfig' /\ LoadsWhatIsFinished'
      BY <1>1, Zenon DEF StorageInv, FinishInv, DiskMatchesConfig, LoadsWhatIsFinished, Busy, memory, bounds, loads
  <1> QED
      BY <1>2, <1>3, <1>4, <1>5, <1>6, Zenon DEF StorageInv

LEMMA RemoveAppDir ==
    ASSUME StorageInv, NEW a \in AppsOf(op.realm) \cap adir, pc = "rm_dir", acfg[a] = "Absent", disk[a] = "Absent", adir' = adir \ {a},
           UNCHANGED <<dir, cfg, acfg, disk, memory, daemon, loads, op, pc, out, ack, lapsed, unread, dirty, bounds>>
    PROVE  StorageInv'
  <1>0. a \in Apps /\ ack.config[a] = None
      BY ConstantsAssumption, Zenon DEF StorageInv, AcknowledgedIsKept, AppsOf, OpTypes, AckRecords, Configs
  <1>1. /\ daemon = "Up" /\ op.name = "destroy" /\ op.realm \in Realms /\ op.realm \notin realms /\ op.realm \in lapsed
        /\ \A b \in Apps : Home[b] = op.realm => b \notin apps
        /\ a \in Apps /\ Home[a] = op.realm /\ ack.config[a] = None
      BY <1>0, Zenon DEF StorageInv, PcInv, RealmOpInv, PlaceInv, Busy, TypeOK, AppsOf
  <1>2. TypeOK' /\ OpTypes' /\ PcInv'
      BY <1>1, Zenon DEF StorageInv, PlaceInv, TypeOK, OpTypes, PcInv, Busy, AtDisk, memory, bounds, loads
  <1>3. RealmOpInv' /\ AppOpInv'
      BY <1>1, Zenon DEF StorageInv, RealmOpInv, AppOpInv, Busy, AppsOf, AtDisk, memory, bounds, loads
  <1>4. PlaceInv' /\ LoadInv'
      BY <1>1, Zenon DEF StorageInv, PlaceInv, LoadInv, AtDisk, Busy, memory, bounds, loads
  <1>5. AcknowledgedIsKept'
      BY <1>1, Zenon DEF StorageInv, AcknowledgedIsKept, memory, bounds, loads
  <1>6. FinishInv' /\ DiskMatchesConfig' /\ LoadsWhatIsFinished'
      BY <1>1, Zenon DEF StorageInv, FinishInv, DiskMatchesConfig, LoadsWhatIsFinished, Busy, memory, bounds, loads
  <1> QED
      BY <1>2, <1>3, <1>4, <1>5, <1>6, Zenon DEF StorageInv

LEMMA RemoveRealmDir ==
    ASSUME StorageInv, pc = "rm_dir", cfg[op.realm] = "Absent", AppsOf(op.realm) \cap adir = {}, dir' = dir \ {op.realm}, Returns("Ok"),
           ack' = [ack EXCEPT !.gone = ack.gone \cup {op.realm}], lapsed' = lapsed \ ({op.realm} \cup AppsOf(op.realm)),
           UNCHANGED <<adir, cfg, acfg, disk, memory, daemon, loads, op, dirty, bounds, unread>>
    PROVE  StorageInv'
  <1>0. /\ op.realm \notin ack.realms
        /\ \A b \in Apps : Home[b] = op.realm => ack.config[b] = None
        /\ ack.realms \subseteq Realms /\ \A b \in Apps : Home[b] \in Realms
      BY ConstantsAssumption, Zenon DEF StorageInv, AcknowledgedIsKept, AppsOf, OpTypes, AckRecords
  <1>a. /\ \A r \in Realms \ {op.realm} : r \in lapsed => r \in lapsed'
        /\ \A b \in Apps : Home[b] # op.realm /\ b \in lapsed => b \in lapsed'
      BY ConstantsAssumption DEF AppsOf, StorageInv, RealmOpInv, PcInv, Busy
  <1>1. /\ daemon = "Up" /\ op.name = "destroy" /\ op.realm \in Realms /\ op.realm \notin realms /\ op.realm \in lapsed
        /\ \A b \in Apps : Home[b] = op.realm => b \notin apps
        /\ pc' = "Idle" /\ out' = "Ok" /\ \A b \in adir : Home[b] # op.realm
        /\ ack'.realms = ack.realms /\ ack'.gone = ack.gone \cup {op.realm} /\ ack'.config = ack.config
        /\ ack' \in AckRecords
      BY Zenon DEF StorageInv, PcInv, RealmOpInv, PlaceInv, Busy, TypeOK, AppsOf, OpTypes, Returns, AckRecords
  <1>2. TypeOK' /\ OpTypes' /\ PcInv'
      BY <1>0, <1>a, <1>1, Zenon DEF StorageInv, PlaceInv, TypeOK, OpTypes, PcInv, Busy, AtDisk, memory, bounds, loads
  <1>3. RealmOpInv' /\ AppOpInv'
      BY <1>0, <1>a, <1>1, Zenon DEF StorageInv, RealmOpInv, AppOpInv, Busy, AppsOf, AtDisk, memory, bounds, loads
  <1>4. PlaceInv' /\ LoadInv'
      BY <1>0, <1>a, <1>1, Zenon DEF StorageInv, PlaceInv, LoadInv, AtDisk, Busy, memory, bounds, loads
  <1>5. AcknowledgedIsKept'
      BY <1>0, <1>a, <1>1 DEF StorageInv, AcknowledgedIsKept, memory, bounds, loads
  <1>6. FinishInv' /\ DiskMatchesConfig' /\ LoadsWhatIsFinished'
      BY <1>0, <1>a, <1>1, Zenon DEF StorageInv, FinishInv, DiskMatchesConfig, LoadsWhatIsFinished, Busy, memory, bounds, loads
  <1> QED
      BY <1>2, <1>3, <1>4, <1>5, <1>6, Zenon DEF StorageInv

LEMMA RemoveSteps ==
    ASSUME StorageInv, remove_dir_all
    PROVE  StorageInv'
  <1>0. PcInv
      BY Zenon DEF StorageInv
  <1>1. CASE /\ cfg' = [cfg EXCEPT ![op.realm] = "Absent"] /\ ack' = [ack EXCEPT !.realms = @ \ {op.realm}]
             /\ UNCHANGED <<dir, adir, acfg, disk, pc, out, lapsed, dirty, faults>>
      BY <1>1, RemoveConfig, Zenon DEF remove_dir_all, bounds
  <1>2. ASSUME NEW a \in AppsOf(op.realm) \cap adir,
               /\ \/ /\ acfg[a] # "Absent" /\ acfg' = [acfg EXCEPT ![a] = "Absent"]
                     /\ ack' = [ack EXCEPT !.config[a] = None] /\ UNCHANGED <<adir, disk>>
                  \/ disk[a] # "Absent" /\ disk' = [disk EXCEPT ![a] = "Absent"] /\ UNCHANGED <<adir, acfg, ack>>
                  \/ /\ acfg[a] = "Absent" /\ disk[a] = "Absent"
                     /\ adir' = adir \ {a} /\ UNCHANGED <<acfg, disk, ack>>
               /\ UNCHANGED <<dir, cfg, pc, out, lapsed, dirty, faults>>
        PROVE  StorageInv'
    <2>0. pc = "rm_dir" /\ UNCHANGED <<memory, daemon, loads, op, unread, ops, crashes>>
        BY Zenon DEF remove_dir_all
    <2>1. CASE /\ acfg' = [acfg EXCEPT ![a] = "Absent"] /\ ack' = [ack EXCEPT !.config[a] = None]
               /\ UNCHANGED <<adir, disk>>
        BY <1>2, <2>0, <2>1, RemoveAppConfig, Zenon DEF bounds
    <2>2. CASE disk' = [disk EXCEPT ![a] = "Absent"] /\ UNCHANGED <<adir, acfg, ack>>
        BY <1>2, <2>0, <2>2, RemoveDisk, Zenon DEF bounds
    <2>3. CASE acfg[a] = "Absent" /\ disk[a] = "Absent" /\ adir' = adir \ {a} /\ UNCHANGED <<acfg, disk, ack>>
        BY <1>2, <2>0, <2>3, RemoveAppDir, Zenon DEF bounds
    <2> QED
        BY <1>2, <2>1, <2>2, <2>3, Zenon
  <1>3. CASE /\ cfg[op.realm] = "Absent" /\ AppsOf(op.realm) \cap adir = {} /\ dir' = dir \ {op.realm} /\ Returns("Ok")
             /\ ack' = [ack EXCEPT !.gone = @ \cup {op.realm}] /\ lapsed' = lapsed \ ({op.realm} \cup AppsOf(op.realm))
             /\ UNCHANGED <<adir, cfg, acfg, disk, dirty, faults>>
      BY <1>3, RemoveRealmDir, Zenon DEF remove_dir_all, bounds
  <1>4. CASE Fault /\ Abandons /\ UNCHANGED <<files, ack, lapsed>>
      BY <1>0, <1>4, AbandonsStep, Zenon DEF DiskKeptOrWritten, files, remove_dir_all, PcInv, Busy
  <1> QED
      BY <1>1, <1>2, <1>3, <1>4, Zenon DEF remove_dir_all

(* The daemon dies and loads its directories. *)
LEMMA CrashStep ==
    ASSUME StorageInv, crash
    PROVE  StorageInv'
  <1>1. /\ pc' = "Idle" /\ daemon' = "Down" /\ realms' = {} /\ apps' = {} /\ crashes' \in 0..MaxCrashes
        /\ dirty' = IF dirty = "No" /\ pc # "Idle" /\ op.name # "load" THEN "crash" ELSE dirty
        /\ toload' = {} /\ atoload' = {} /\ UNCHANGED <<files, mem, size, op, out, ack, lapsed, unread, ops, faults>>
        /\ pc # "Idle" => out = "None"
      BY CrashType, Zenon DEF StorageInv, crash, PcInv, Busy
  <1>2. TypeOK' /\ OpTypes' /\ PcInv'
      BY <1>1, Zenon DEF StorageInv, TypeOK, OpTypes, PcInv, Busy, AtDisk, files, loads
  <1>3. RealmOpInv' /\ AppOpInv'
      BY <1>1, Zenon DEF StorageInv, RealmOpInv, AppOpInv, Busy, AppsOf, AtDisk, files, loads
  <1>4. PlaceInv' /\ LoadInv'
      BY <1>1, Zenon DEF StorageInv, PlaceInv, LoadInv, AtDisk, Busy, files, loads
  <1>5. AcknowledgedIsKept'
      BY <1>1, Zenon DEF StorageInv, AcknowledgedIsKept, files, loads
  <1>6. FinishInv' /\ DiskMatchesConfig' /\ LoadsWhatIsFinished'
      BY <1>1, Zenon DEF StorageInv, FinishInv, DiskMatchesConfig, LoadsWhatIsFinished, Busy, files, loads
  <1> QED
      BY <1>2, <1>3, <1>4, <1>5, <1>6, Zenon DEF StorageInv

LEMMA WardenBegins ==
    ASSUME StorageInv, daemon \in {"Down", "Failed"}, daemon' = "Loading", realms' = {}, apps' = {},
           toload' \subseteq dir, lapsed' = dir \ toload', Fault \/ UNCHANGED faults,
           op' = Op("load", None, None, None), out' = "None", atoload' = {},
           UNCHANGED <<files, mem, size, pc, ack, unread, dirty, ops, crashes>>
    PROVE  StorageInv'
  <1>1. /\ op'.name = "load" /\ op'.app = None /\ pc = "Idle" /\ faults' \in 0..MaxFaults
        /\ op' \in OpRecords
      BY FaultType, Zenon DEF StorageInv, TypeOK, Op, PcInv, Busy, OpRecords
  <1>2. TypeOK' /\ OpTypes' /\ PcInv'
      BY <1>1, Zenon DEF StorageInv, TypeOK, OpTypes, PcInv, Busy, AtDisk, files, bounds, loads
  <1>3. RealmOpInv' /\ AppOpInv'
      BY <1>1, Zenon DEF StorageInv, RealmOpInv, AppOpInv, Busy, AppsOf, AtDisk, files, bounds, loads
  <1>4. PlaceInv' /\ LoadInv'
      BY <1>1, Zenon DEF StorageInv, PlaceInv, LoadInv, AtDisk, Busy, files, bounds, loads
  <1>5. AcknowledgedIsKept'
      BY <1>1, Zenon DEF StorageInv, AcknowledgedIsKept, files, bounds, loads
  <1>6. FinishInv' /\ DiskMatchesConfig' /\ LoadsWhatIsFinished'
      BY <1>1, Zenon DEF StorageInv, FinishInv, DiskMatchesConfig, LoadsWhatIsFinished, Busy, files, bounds, loads
  <1> QED
      BY <1>2, <1>3, <1>4, <1>5, <1>6, Zenon DEF StorageInv

LEMMA WardenDone ==
    ASSUME StorageInv, daemon = "Loading", pc = "Idle", toload = {}, daemon' = "Up",
           op' = Op("load", None, None, None), out' = "None",
           atoload' = {}, UNCHANGED <<files, memory, toload, pc, ack, lapsed, unread, dirty, bounds>>
    PROVE  StorageInv'
  <1>1. /\ op'.name = "load" /\ op'.app = None
        /\ dir \ lapsed \subseteq realms /\ \A a \in apps : mem[a] = acfg[a] /\ disk[a] = mem[a] /\ Home[a] \in realms
        /\ \A a \in adir \ lapsed : Home[a] \in realms => a \in apps
        /\ op' \in OpRecords
      BY Zenon DEF StorageInv, Op, LoadInv, AtDisk, PlaceInv, TypeOK, Busy, OpRecords
  <1>2. TypeOK' /\ OpTypes' /\ PcInv'
      BY <1>1, Zenon DEF StorageInv, TypeOK, OpTypes, PcInv, Busy, AtDisk, files, bounds, memory, loads
  <1>3. RealmOpInv' /\ AppOpInv'
      BY <1>1, Zenon DEF StorageInv, RealmOpInv, AppOpInv, Busy, AppsOf, AtDisk, files, bounds, memory, loads
  <1>4. PlaceInv' /\ LoadInv'
      BY <1>1, Zenon DEF StorageInv, PlaceInv, LoadInv, AtDisk, Busy, files, bounds, memory, loads
  <1>5. AcknowledgedIsKept'
      BY <1>1, Zenon DEF StorageInv, PlaceInv, AcknowledgedIsKept, files, bounds, memory, TypeOK, loads
  <1>6. FinishInv' /\ DiskMatchesConfig' /\ LoadsWhatIsFinished'
      BY <1>1, Zenon DEF StorageInv, FinishInv, DiskMatchesConfig, LoadsWhatIsFinished, Busy, files, bounds, memory, loads
  <1> QED
      BY <1>2, <1>3, <1>4, <1>5, <1>6, Zenon DEF StorageInv

LEMMA LoadRealmStep ==
    ASSUME StorageInv, NEW r \in Realms, load_realm(r)
    PROVE  StorageInv'
  <1>1. /\ daemon = "Loading" /\ pc = "Idle" /\ r \in toload /\ r \in dir
        /\ toload' = toload \ {r} /\ pc' = "load_apps" /\ out = "None" /\ op.name = "load"
        /\ op'.name = "load" /\ op'.realm = r /\ op'.app = None
        /\ UNCHANGED <<files, memory, daemon, out, ack, unread, dirty, ops, crashes>>
        /\ op' \in OpRecords /\ faults' \in 0..MaxFaults
        /\ atoload' \subseteq AppsOf(r) \cap adir /\ lapsed' = lapsed \cup ((AppsOf(r) \cap adir) \ atoload')
        /\ r \notin realms
      BY FaultType, Zenon DEF StorageInv, TypeOK, load_realm, read_subfolders_uuids, Op, LoadInv, AtDisk, PcInv, OpRecords
  <1>2. TypeOK' /\ OpTypes' /\ PcInv'
      BY <1>1, Zenon DEF StorageInv, TypeOK, OpTypes, PcInv, Busy, AtDisk, files, bounds, memory, loads
  <1>3. RealmOpInv' /\ AppOpInv'
      BY <1>1, Zenon DEF StorageInv, RealmOpInv, AppOpInv, Busy, AppsOf, AtDisk, files, bounds, memory, loads
  <1>4. PlaceInv' /\ LoadInv'
      BY <1>1 DEF StorageInv, TypeOK, AppsOf, PlaceInv, LoadInv, AtDisk, Busy, files, bounds, memory, loads
  <1>5. AcknowledgedIsKept'
      BY <1>1, Zenon DEF StorageInv, AcknowledgedIsKept, files, bounds, memory, loads
  <1>6. FinishInv' /\ DiskMatchesConfig' /\ LoadsWhatIsFinished'
      BY <1>1, Zenon DEF StorageInv, FinishInv, DiskMatchesConfig, LoadsWhatIsFinished, Busy, files, bounds, memory, loads
  <1> QED
      BY <1>2, <1>3, <1>4, <1>5, <1>6, Zenon DEF StorageInv

LEMMA LoadApplicationFits ==
    ASSUME StorageInv, NEW a \in atoload, atoload' = atoload \ {a}, pc = "load_apps", acfg[a] \in Sizes,
           mem' = [mem EXCEPT ![a] = acfg[a]], size' = [size EXCEPT ![a] = acfg[a]],
           disk[a] = acfg[a], apps' = apps \cup {a},
           UNCHANGED <<files, realms, daemon, toload, op, pc, out, ack, lapsed, unread, dirty, bounds>>
    PROVE  StorageInv'
  <1>1. /\ daemon = "Loading" /\ op.name = "load" /\ a \in Apps /\ a \in adir /\ Home[a] = op.realm /\ a \notin apps
        /\ op.realm \in Realms /\ op.realm \in dir /\ out = "None"
        /\ mem' \in [Apps -> Configs \cup {None}] /\ mem'[a] = acfg[a] /\ \A b \in Apps : b # a => mem'[b] = mem[b]
        /\ size' \in [Apps -> Sizes \cup {None}] /\ size'[a] = acfg[a] /\ \A b \in Apps : b # a => size'[b] = size[b]
      BY Zenon DEF StorageInv, PcInv, RealmOpInv, LoadInv, Busy, AtDisk, TypeOK, AppsOf, Configs
  <1>2. TypeOK' /\ OpTypes' /\ PcInv'
      BY <1>1, Zenon DEF StorageInv, TypeOK, OpTypes, PcInv, Busy, AtDisk, files, bounds, loads
  <1>3. RealmOpInv' /\ AppOpInv'
      BY <1>1, Zenon DEF StorageInv, RealmOpInv, AppOpInv, Busy, AppsOf, AtDisk, files, bounds, loads
  <1>4. PlaceInv'
      BY <1>1, Zenon DEF StorageInv, PlaceInv, files, bounds, loads
  <1>5. LoadInv'
      BY <1>1 DEF StorageInv, LoadInv, AtDisk, Busy, files, bounds, loads
  <1>6. AcknowledgedIsKept'
      BY <1>1, Zenon DEF StorageInv, AcknowledgedIsKept, files, bounds, loads
  <1>7. FinishInv' /\ DiskMatchesConfig' /\ LoadsWhatIsFinished'
      BY <1>1, Zenon DEF StorageInv, FinishInv, DiskMatchesConfig, LoadsWhatIsFinished, Busy, files, bounds, loads
  <1> QED
      BY <1>2, <1>3, <1>4, <1>5, <1>6, <1>7, Zenon DEF StorageInv

LEMMA LoadApplicationResizes ==
    ASSUME StorageInv, NEW a \in atoload, atoload' = atoload \ {a}, pc = "load_apps", acfg[a] \in Sizes,
           mem' = [mem EXCEPT ![a] = acfg[a]], size' = [size EXCEPT ![a] = acfg[a]],
           op' = [op EXCEPT !.app = a], pc' = "disk_truncate",
           \/ disk[a] # acfg[a] /\ UNCHANGED <<unread, faults>>
           \/ Fault /\ unread' = unread \cup {a},
           UNCHANGED <<files, realms, apps, daemon, toload, out, ack, lapsed, dirty, ops, crashes>>
    PROVE  StorageInv'
  <1>0. faults' \in 0..MaxFaults /\ unread' \subseteq Apps /\ (disk[a] # acfg[a] \/ a \in unread')
      BY FaultType, Zenon DEF StorageInv, TypeOK
  <1>1. /\ daemon = "Loading" /\ op.name = "load" /\ a \in Apps /\ a \in adir /\ Home[a] = op.realm /\ a \notin apps
        /\ op.realm \in Realms /\ op.realm \in dir /\ out = "None"
        /\ mem' \in [Apps -> Configs \cup {None}] /\ mem'[a] = acfg[a] /\ \A b \in Apps : b # a => mem'[b] = mem[b]
        /\ size' \in [Apps -> Sizes \cup {None}] /\ size'[a] = acfg[a] /\ \A b \in Apps : b # a => size'[b] = size[b]
        /\ op'.name = "load" /\ op'.realm = op.realm /\ op'.app = a
        /\ op' \in OpRecords
      BY Zenon DEF StorageInv, PcInv, RealmOpInv, LoadInv, Busy, AtDisk, TypeOK, OpTypes, AppsOf, Configs, OpRecords
  <1>2. TypeOK' /\ OpTypes' /\ PcInv'
      BY <1>0, <1>1, Zenon DEF StorageInv, TypeOK, OpTypes, PcInv, Busy, AtDisk, files, bounds, loads
  <1>3. RealmOpInv' /\ AppOpInv'
      BY <1>0, <1>1 DEF StorageInv, RealmOpInv, AppOpInv, Busy, AppsOf, AtDisk, files, bounds, loads
  <1>4. PlaceInv' /\ LoadInv'
      BY <1>0, <1>1 DEF StorageInv, PlaceInv, LoadInv, AtDisk, Busy, files, bounds, loads
  <1>5. AcknowledgedIsKept'
      BY <1>0, <1>1, Zenon DEF StorageInv, AcknowledgedIsKept, files, bounds, loads
  <1>6. FinishInv' /\ DiskMatchesConfig' /\ LoadsWhatIsFinished'
      BY <1>0, <1>1, Zenon DEF StorageInv, FinishInv, DiskMatchesConfig, LoadsWhatIsFinished, Busy, files, bounds, loads
  <1> QED
      BY <1>2, <1>3, <1>4, <1>5, <1>6, Zenon DEF StorageInv

LEMMA LoadConfigStep ==
    ASSUME StorageInv, pc = "load_apps", atoload = {}, realms' = realms \cup {op.realm}, pc' = "Idle",
           cfg[op.realm] = "Valid",
           UNCHANGED <<files, apps, mem, size, daemon, loads, op, out, ack, lapsed, unread, dirty, bounds>>
    PROVE  StorageInv'
  <1>1. /\ daemon = "Loading" /\ op.name = "load" /\ out = "None" /\ op.realm \in dir
        /\ \A a \in adir \ lapsed : Home[a] = op.realm => a \in apps
      BY Zenon DEF StorageInv, PcInv, RealmOpInv, LoadInv, Busy, AtDisk, TypeOK, AppsOf
  <1>2. TypeOK' /\ OpTypes' /\ PcInv'
      BY <1>1, Zenon DEF StorageInv, TypeOK, OpTypes, PcInv, Busy, AtDisk, files, bounds, loads
  <1>3. RealmOpInv' /\ AppOpInv'
      BY <1>1, Zenon DEF StorageInv, RealmOpInv, AppOpInv, Busy, AppsOf, AtDisk, files, bounds, loads
  <1>4. PlaceInv' /\ LoadInv'
      BY <1>1, Zenon DEF StorageInv, PlaceInv, LoadInv, AtDisk, Busy, files, bounds, loads
  <1>5. AcknowledgedIsKept'
      BY <1>1, Zenon DEF StorageInv, AcknowledgedIsKept, files, bounds, loads
  <1>6. FinishInv' /\ DiskMatchesConfig' /\ LoadsWhatIsFinished'
      BY <1>1, Zenon DEF StorageInv, FinishInv, DiskMatchesConfig, LoadsWhatIsFinished, Busy, files, bounds, loads
  <1> QED
      BY <1>2, <1>3, <1>4, <1>5, <1>6, Zenon DEF StorageInv

LEMMA LoadSteps ==
    ASSUME StorageInv, \/ create_warden \/ load_config
                       \/ \E r \in Realms : load_realm(r)
                       \/ \E a \in Apps : load_application(a)
    PROVE  StorageInv'
  <1>0. PcInv /\ TypeOK /\ RealmOpInv /\ FinishInv
      BY Zenon DEF StorageInv
  <1>a. Fault => faults' > 0
      BY <1>0, FaultType, Zenon
  <1>1. CASE create_warden
    <2>1. CASE daemon \in {"Down", "Failed"}
        BY <1>1, <2>1, WardenBegins, Zenon DEF create_warden, read_subfolders_uuids
    <2>2. CASE daemon = "Loading"
        BY <1>1, <2>2, WardenDone, Zenon DEF create_warden, memory, bounds
    <2> QED
        BY <1>1, <2>1, <2>2, Zenon DEF create_warden
  <1>2. ASSUME NEW r \in Realms, load_realm(r) PROVE StorageInv'
      BY <1>2, LoadRealmStep, Zenon
  <1>3. ASSUME NEW a \in Apps, load_application(a) PROVE StorageInv'
    <2>1. CASE /\ acfg[a] \in Sizes /\ mem' = [mem EXCEPT ![a] = acfg[a]] /\ size' = [size EXCEPT ![a] = acfg[a]]
               /\ disk[a] = acfg[a] /\ apps' = apps \cup {a} /\ UNCHANGED <<op, pc, unread, faults, daemon, out>>
        BY <1>3, <2>1, LoadApplicationFits, Zenon DEF load_application, bounds
    <2>2. CASE /\ acfg[a] \in Sizes /\ mem' = [mem EXCEPT ![a] = acfg[a]] /\ size' = [size EXCEPT ![a] = acfg[a]]
               /\ op' = [op EXCEPT !.app = a] /\ pc' = "disk_truncate" /\ UNCHANGED <<apps, daemon, out>>
               /\ \/ disk[a] # acfg[a] /\ UNCHANGED <<unread, faults>>
                  \/ Fault /\ unread' = unread \cup {a}
        BY <1>3, <2>2, LoadApplicationResizes, Zenon DEF load_application
    <2>3. CASE /\ (acfg[a] \notin Sizes /\ UNCHANGED faults) \/ Fault
               /\ LoadFails /\ UNCHANGED <<memory, op, unread>>
      <3>1. dirty # "No" \/ faults' > 0
          BY <1>0, <1>a, <1>3, <2>3, Zenon DEF load_application, PcInv, FinishInv, TypeOK, Busy
      <3> QED
          BY <1>0, <1>3, <2>3, <3>1, LoadFailsStep, Zenon DEF DiskKeptOrWritten, files, load_application, PcInv, Busy
    <2> QED
        BY <1>3, <2>1, <2>2, <2>3, Zenon DEF load_application, validate_and_convert_to_bytes
  <1>4. CASE load_config
    <2>1. CASE cfg[op.realm] = "Valid" /\ realms' = realms \cup {op.realm} /\ pc' = "Idle" /\ UNCHANGED <<daemon, out, faults>>
        BY <1>4, <2>1, LoadConfigStep, Zenon DEF load_config, bounds
    <2>2. CASE cfg[op.realm] # "Valid" /\ LoadFails /\ UNCHANGED <<realms, faults>>
      <3>1. dirty # "No"
          BY <1>0, <1>4, <2>2, Zenon DEF load_config, PcInv, RealmOpInv, FinishInv, Busy
      <3> QED
          BY <1>0, <1>4, <2>2, <3>1, LoadFailsStep, Zenon DEF DiskKeptOrWritten, files, loads, load_config, PcInv, Busy, memory
    <2>3. CASE Fault /\ LoadFails /\ UNCHANGED realms
        BY <1>0, <1>a, <1>4, <2>3, LoadFailsStep, Zenon DEF DiskKeptOrWritten, files, loads, load_config, PcInv, Busy, memory
    <2> QED
        BY <1>4, <2>1, <2>2, <2>3, Zenon DEF load_config
  <1> QED
      BY <1>1, <1>2, <1>3, <1>4, Zenon
-------------------------------------------------------------------------------
LEMMA InitStorage == Init => StorageInv
  <1> SUFFICES ASSUME Init PROVE StorageInv
      BY Zenon
  <1>0. op.name = "None" /\ pc = "Idle" /\ ack.realms = {} /\ ack.gone = {} /\ \A a \in Apps : ack.config[a] = None
      BY Zenon DEF Init, Op
  <1>1. OpTypes
      BY Zenon DEF Init, Op, OpTypes, OpRecords, AckRecords
  <1>2. TypeOK
      BY ConstantsAssumption DEF Init, TypeOK
  <1>3. PcInv /\ RealmOpInv /\ AppOpInv /\ PlaceInv /\ LoadInv
      BY <1>0, Zenon DEF Init, PcInv, RealmOpInv, AppOpInv, PlaceInv, LoadInv, Busy, AtDisk
  <1>4. FinishInv /\ AcknowledgedIsKept /\ DiskMatchesConfig /\ LoadsWhatIsFinished
      BY <1>0, Zenon DEF Init, FinishInv, AcknowledgedIsKept, DiskMatchesConfig, LoadsWhatIsFinished
  <1> QED
      BY <1>1, <1>2, <1>3, <1>4, Zenon DEF StorageInv

LEMMA NextStorage == StorageInv /\ [Next]_vars => StorageInv'
  <1> SUFFICES ASSUME StorageInv, [Next]_vars PROVE StorageInv'
      BY Zenon
  <1>1. CASE UNCHANGED vars
    <2>1. UNCHANGED <<files, memory, daemon, loads, op, pc, out, ack, lapsed, unread, dirty, bounds>>
        BY <1>1, Zenon DEF vars
    <2>0. /\ TypeOK' /\ OpTypes' /\ PcInv'
        BY <2>1 DEF StorageInv, TypeOK, OpTypes, PcInv, Busy, AtDisk, files, memory, bounds, loads
    <2>2. /\ RealmOpInv' /\ AppOpInv' /\ PlaceInv'
        BY <2>1, Zenon DEF StorageInv, RealmOpInv, AppOpInv, PlaceInv, Busy, AtDisk, AppsOf, files, memory, bounds, loads
    <2>3. /\ LoadInv' /\ FinishInv' /\ AcknowledgedIsKept' /\ DiskMatchesConfig' /\ LoadsWhatIsFinished'
        BY <2>1, Zenon DEF StorageInv, LoadInv, AtDisk, FinishInv, AcknowledgedIsKept, DiskMatchesConfig, LoadsWhatIsFinished, loads,
                    Busy, files, memory, bounds
    <2> QED
        BY <2>0, <2>2, <2>3, Zenon DEF StorageInv
  <1>2. CASE save_create \/ save_write \/ disk_truncate \/ disk_gpt
      BY <1>2, SaveSteps, DiskSteps, Zenon
  <1>3. CASE create_tap \/ shutdown_tap \/ configured
      BY <1>3, FrameSteps, Zenon
  <1>4. CASE remove_dir_all \/ crash
      BY <1>4, RemoveSteps, CrashStep, Zenon
  <1>5. CASE \E r \in Realms : create_realm(r) \/ destroy_realm(r) \/ load_realm(r)
      BY <1>5, RequestSteps, DestroyStep, LoadSteps, Zenon
  <1>6. CASE create_warden \/ load_config \/ \E a \in Apps : load_application(a)
      BY <1>6, LoadSteps, Zenon
  <1>7. CASE \E a \in Apps : configure_disk(a) \/ \E c \in Configs : create_application(a, c) \/ update_config(a, c)
      BY <1>7, RequestSteps, Zenon
  <1> QED
      BY <1>1, <1>2, <1>3, <1>4, <1>5, <1>6, <1>7, Zenon DEF Next

(* Every state satisfies the invariant. *)
LEMMA StorageInvariance == Spec => []StorageInv
  BY InitStorage, NextStorage, PTL DEF Spec

(* Types, and that what the daemon has registered (realms_managers and the  *)
(* applications of the RealmManagers) has a directory.                      *)
THEOREM TypeCorrect == Spec => []TypeOK
  <1>1. StorageInv => TypeOK
      BY Zenon DEF StorageInv
  <1> QED
      BY <1>1, StorageInvariance, PTL

(* What the warden acknowledged stays on disk, whatever operation fails or  *)
(* is cut off by a crash at whatever step and however often the daemon is   *)
(* loaded anew, until FileRepository::save truncates it for an update or    *)
(* remove_dir_all deletes it for a destroy; no destroyed realm comes back;  *)
(* and a daemon that is up serves it, but for the entries that              *)
(* read_subfolders_uuids skipped on an error, realms whose destruction      *)
(* failed and applications whose update is not saved.                       *)
THEOREM Acknowledged == Spec => []AcknowledgedIsKept
  <1>1. StorageInv => AcknowledgedIsKept
      BY Zenon DEF StorageInv
  <1> QED
      BY <1>1, StorageInvariance, PTL

(* After a start, a creation or a load that succeeded, the disk of an       *)
(* application has the partitions of its configuration.                     *)
THEOREM DisksMatch == Spec => []DiskMatchesConfig
  <1>1. StorageInv => DiskMatchesConfig
      BY Zenon DEF StorageInv
  <1> QED
      BY <1>1, StorageInvariance, PTL

(* create_warden fails only on what an operation that failed, a crash or an *)
(* update with sizes nobody checked has left, or by a fault of its own.     *)
THEOREM FinishedLoads == Spec => []LoadsWhatIsFinished
  <1>1. StorageInv => LoadsWhatIsFinished
      BY Zenon DEF StorageInv
  <1> QED
      BY <1>1, StorageInvariance, PTL

LEMMA DataStep ==
    ASSUME StorageInv, [Next]_vars, NEW a \in Apps, disk[a] \in Sizes, disk'[a] # disk[a]
    PROVE  \/ mem[a] # disk[a]
           \/ Home[a] \notin realms /\ op.name = "destroy"
           \/ op.name = "load" /\ a \in unread /\ a \notin unread'
  <1>0. TypeOK /\ PcInv /\ RealmOpInv /\ AppOpInv
      BY Zenon DEF StorageInv
  <1>1. CASE disk_truncate
      BY <1>0, <1>1, Zenon DEF disk_truncate, AppOpInv, AtDisk, TypeOK
  <1>2. CASE disk_gpt
      BY <1>0, <1>2, ConstantsAssumption, Zenon DEF disk_gpt, AppOpInv, AtDisk, TypeOK
  <1>3. CASE remove_dir_all
      BY <1>0, <1>3, Zenon DEF remove_dir_all, RealmOpInv, PcInv, Busy, TypeOK, AppsOf, files
  <1>4. CASE UNCHANGED disk
      BY <1>4, Zenon
  <1> QED
      BY <1>1, <1>2, <1>3, <1>4, Zenon
         DEF Next, vars, files, save_create, save_write, create_realm, create_tap, create_application, update_config,
             configure_disk, configured, destroy_realm, shutdown_tap, crash, create_warden, load_realm, load_application,
             load_config

(* create_application_disk and remove_dir_all give up the partitions of an  *)
(* application only if its configuration asks for other sizes, its realm    *)
(* was taken out of the daemon to be destroyed, or the loading could not    *)
(* read them, and then once for every time it could not.                    *)
THEOREM DataKept == Spec => DataIsKept
  <1>1. StorageInv /\ [Next]_vars =>
            [\A a \in Apps : disk[a] \in Sizes /\ disk'[a] # disk[a] =>
                \/ mem[a] # disk[a]
                \/ Home[a] \notin realms /\ op.name = "destroy"
                \/ op.name = "load" /\ a \in unread /\ a \notin unread']_vars
      BY DataStep, Zenon
  <1> QED
      BY <1>1, StorageInvariance, PTL DEF Spec, DataIsKept
===============================================================================
