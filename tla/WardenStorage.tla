----------------------------- MODULE WardenStorage -----------------------------
(***************************************************************************)
(* What the warden daemon keeps on disk (a directory and a config.yaml for *)
(* every realm and every application, and a partitioned disk for every     *)
(* application), how the fabrics create, load and remove it step by step,  *)
(* and what a restart makes of it when the daemon died between two steps   *)
(* or a step failed.                                                       *)
(*                                                                         *)
(* The operations of one realm exclude each other by its lock, and those   *)
(* of two realms touch different directories: one runs at a time. A stop   *)
(* is one of the daemon's process; what it wrote before stays written.     *)
(***************************************************************************)
EXTENDS Naturals, FiniteSets

CONSTANTS
    Realms, Apps, \* uuids
    Home,         \* the realm every application uuid belongs to
    Sizes,        \* sizes of the partitions that validate_and_convert_to_bytes accepts
    Invalid,      \* one that it refuses
    None,         \* no realm, application or configuration
    MaxOps, MaxFaults, MaxCrashes   \* bounds

ASSUME ConstantsAssumption ==
    /\ Home \in [Apps -> Realms] /\ Realms \cap Apps = {} /\ Invalid \notin Sizes
    /\ None \notin Realms \cup Apps \cup Sizes \cup {Invalid}
    /\ {"Absent", "Empty", "Raw"} \cap (Sizes \cup {Invalid}) = {}
    /\ MaxOps \in Nat /\ MaxFaults \in Nat /\ MaxCrashes \in Nat

VARIABLES
    dir, adir,   \* the realm and application directories that exist
    cfg, acfg,   \* the contents of their config.yaml
    disk,        \* an application's disk.raw: the sizes of its partitions
    realms,      \* WardenDaemon.realms_managers
    apps,        \* RealmManager.applications, of all realms
    mem,         \* ApplicationManager.config
    size,        \* the sizes in ApplicationDiskManager
    daemon,      \* "Up", "Loading", "Down" or "Failed"
    toload,      \* the directories create_warden still has to load
    atoload,     \* those of applications that load_applications still has to load
    op, pc, out, \* the operation, its next step and its outcome
    ack,         \* history: what the clients were told and nobody has begun to overwrite or delete
    lapsed,      \* history: realms and applications that this life of the daemon does not serve as
                 \* acknowledged: not found by the loading, given up by a destroy, or changed by an
                 \* update that is not saved
    unread,      \* history: applications whose partitions could not be read by the loading
    dirty,       \* history: the first way in which something was left unfinished
    ops, faults, crashes   \* counters for the bounds

files == <<dir, adir, cfg, acfg, disk>>
memory == <<realms, apps, mem, size>>
loads == <<toload, atoload>>
bounds == <<ops, faults, crashes>>
vars == <<files, memory, daemon, loads, op, pc, out, ack, lapsed, unread, dirty, bounds>>

Configs == Sizes \cup {Invalid}
validate_and_convert_to_bytes(c) == c \in Sizes
AppsOf(r) == {a \in Apps : Home[a] = r}
Op(name, r, a, c) == [name |-> name, realm |-> r, app |-> a, config |-> c]

Init ==
    /\ dir = {} /\ adir = {} /\ cfg = [r \in Realms |-> "Absent"]
    /\ acfg = [a \in Apps |-> "Absent"] /\ disk = [a \in Apps |-> "Absent"]
    /\ realms = {} /\ apps = {} /\ mem = [a \in Apps |-> None] /\ size = [a \in Apps |-> None]
    /\ daemon = "Up" /\ toload = {} /\ atoload = {} /\ lapsed = {} /\ unread = {}
    /\ op = Op("None", None, None, None) /\ pc = "Idle" /\ out = "None"
    /\ ack = [realms |-> {}, gone |-> {}, config |-> [a \in Apps |-> None]]
    /\ dirty = "No" /\ ops = 0 /\ faults = 0 /\ crashes = 0

Fault == faults < MaxFaults /\ faults' = faults + 1

Begin(o, step) ==
    /\ daemon = "Up" /\ pc = "Idle" /\ ops < MaxOps /\ ops' = ops + 1
    /\ op' = o /\ pc' = step /\ out' = "None"

(* The operation returns. What it promised counts from here on.             *)
Returns(result) == pc' = "Idle" /\ out' = result

(* It returns an error and leaves what it did so far.                       *)
Abandons == Returns("Err") /\ dirty' = (IF dirty = "No" THEN op.name ELSE dirty)
-------------------------------------------------------------------------------
(* FileRepository::save truncates config.yaml and writes it; a realm is     *)
(* registered, an application goes on to its disk, an update is done.       *)
save_create ==
    /\ pc = "save_create"
    /\ \/ /\ IF op.app = None THEN cfg' = [cfg EXCEPT ![op.realm] = "Empty"] /\ UNCHANGED acfg
             ELSE acfg' = [acfg EXCEPT ![op.app] = "Empty"] /\ UNCHANGED cfg
          /\ ack' = IF op.name = "update" THEN [ack EXCEPT !.config[op.app] = None] ELSE ack
          /\ pc' = "save_write" /\ UNCHANGED <<out, dirty, faults>>
       \/ Fault /\ Abandons /\ UNCHANGED <<cfg, acfg, ack>>
    /\ UNCHANGED <<dir, adir, disk, memory, daemon, loads, op, lapsed, unread, ops, crashes>>

(* Mutant: the new configuration of an application stays in the buffer. *)
save_write_unflushed ==
    /\ pc = "save_write"
    /\ \/ /\ op.name = "create_realm" /\ cfg' = [cfg EXCEPT ![op.realm] = "Valid"]
          /\ realms' = realms \cup {op.realm} /\ ack' = [ack EXCEPT !.realms = @ \cup {op.realm}]
          /\ Returns("Ok") /\ UNCHANGED <<acfg, lapsed>>
       \/ /\ op.name = "create_app" /\ acfg' = [acfg EXCEPT ![op.app] = op.config]
          /\ pc' = "disk_truncate" /\ UNCHANGED <<cfg, realms, out, ack, lapsed>>
       \/ /\ op.name = "update" /\ ack' = [ack EXCEPT !.config[op.app] = op.config]
          /\ lapsed' = lapsed \ {op.app} /\ Returns("Ok") /\ UNCHANGED <<cfg, acfg, realms>>
    /\ UNCHANGED <<dir, adir, disk, apps, mem, size, daemon, loads, op, unread, dirty, bounds>>

save_write ==
    /\ pc = "save_write"
    /\ \/ /\ op.name = "create_realm" /\ cfg' = [cfg EXCEPT ![op.realm] = "Valid"]
          /\ realms' = realms \cup {op.realm} /\ ack' = [ack EXCEPT !.realms = @ \cup {op.realm}]
          /\ Returns("Ok") /\ UNCHANGED <<acfg, lapsed, dirty, faults>>
       \/ /\ op.name = "create_app" /\ acfg' = [acfg EXCEPT ![op.app] = op.config]
          /\ pc' = "disk_truncate" /\ UNCHANGED <<cfg, realms, out, ack, lapsed, dirty, faults>>
       \/ /\ op.name = "update" /\ acfg' = [acfg EXCEPT ![op.app] = op.config]
          /\ ack' = [ack EXCEPT !.config[op.app] = op.config] /\ lapsed' = lapsed \ {op.app}
          /\ Returns("Ok") /\ UNCHANGED <<cfg, realms, faults>>
          /\ dirty' = IF dirty = "No" /\ op.config = Invalid THEN "invalid" ELSE dirty
       \/ Fault /\ Abandons /\ UNCHANGED <<cfg, acfg, realms, ack, lapsed>>
    /\ UNCHANGED <<dir, adir, disk, apps, mem, size, daemon, loads, op, unread, ops, crashes>>

(* An operation on an application's disk fails, and with it the loading.    *)
DiskFails == Abandons /\ daemon' = IF op.name = "load" THEN "Failed" ELSE daemon

(* prepare_applications configures the disks of a realm together, and the   *)
(* error of one, which needs no failing call, cuts the others short.        *)
SiblingFails ==
    /\ op.name = "start"
    /\ \E b \in (AppsOf(op.realm) \cap apps) \ {op.app} : ~validate_and_convert_to_bytes(mem[b]) \/ disk[b] # size[b]

(* create_application_disk: the file is truncated, then gets its GPT, which *)
(* is read back.                                                            *)
disk_truncate ==
    /\ pc = "disk_truncate"
    /\ \/ /\ disk' = [disk EXCEPT ![op.app] = "Raw"] /\ unread' = unread \ {op.app}
          /\ pc' = "disk_gpt" /\ UNCHANGED <<daemon, out, dirty, faults>>
       \/ Fault /\ DiskFails /\ UNCHANGED <<disk, unread>>
       \/ SiblingFails /\ DiskFails /\ UNCHANGED <<disk, unread, faults>>
    /\ UNCHANGED <<dir, adir, cfg, acfg, memory, loads, op, ack, lapsed, ops, crashes>>

disk_gpt ==
    /\ pc = "disk_gpt"
    /\ \/ /\ disk' = [disk EXCEPT ![op.app] = size[op.app]] /\ apps' = apps \cup {op.app}
          /\ IF op.name = "load" THEN pc' = "load_apps" /\ UNCHANGED <<out, ack>>
             ELSE /\ Returns("Ok")
                  /\ ack' = IF op.name = "create_app" THEN [ack EXCEPT !.config[op.app] = op.config] ELSE ack
          /\ UNCHANGED <<daemon, dirty, faults>>
       \/ /\ Fault /\ DiskFails /\ disk' \in {disk, [disk EXCEPT ![op.app] = size[op.app]]}
          /\ UNCHANGED <<apps, ack>>
       \/ SiblingFails /\ DiskFails /\ UNCHANGED <<disk, apps, ack, faults>>
    /\ UNCHANGED <<dir, adir, cfg, acfg, realms, mem, size, loads, op, lapsed, unread, ops, crashes>>
-------------------------------------------------------------------------------
(* RealmManagerFabric::create_realm: the directory must be new ...          *)
create_realm(r) ==
    /\ r \notin realms
    /\ IF r \in dir
       THEN /\ daemon = "Up" /\ pc = "Idle" /\ ops < MaxOps /\ ops' = ops + 1
            /\ op' = Op("create_realm", r, None, None) /\ out' = "Err" /\ UNCHANGED <<pc, dir, ack>>
       ELSE /\ Begin(Op("create_realm", r, None, None), "create_tap") /\ dir' = dir \cup {r}
            /\ ack' = [ack EXCEPT !.gone = @ \ {r}]
    /\ UNCHANGED <<adir, cfg, acfg, disk, memory, daemon, loads, lapsed, unread, dirty, faults, crashes>>

(* ... then the tap device, then config.yaml.                               *)
create_tap ==
    /\ pc = "create_tap"
    /\ \/ pc' = "save_create" /\ UNCHANGED <<out, dirty, faults>>
       \/ Fault /\ Abandons
    /\ UNCHANGED <<files, memory, daemon, loads, op, ack, lapsed, unread, ops, crashes>>

(* ApplicationFabric::create_application: a size that                       *)
(* ApplicationDiskManager::new refuses leaves the directory behind.         *)
create_application(a, c) ==
    /\ Home[a] \in realms /\ a \notin adir
    /\ adir' = adir \cup {a} /\ mem' = [mem EXCEPT ![a] = c]
    /\ IF validate_and_convert_to_bytes(c)
       THEN /\ Begin(Op("create_app", Home[a], a, c), "save_create")
            /\ size' = [size EXCEPT ![a] = c] /\ UNCHANGED dirty
       ELSE /\ daemon = "Up" /\ pc = "Idle" /\ ops < MaxOps /\ ops' = ops + 1
            /\ op' = Op("create_app", Home[a], a, c) /\ out' = "Err" /\ UNCHANGED <<pc, size>>
            /\ dirty' = IF dirty = "No" THEN "create_app" ELSE dirty
    /\ UNCHANGED <<dir, cfg, acfg, disk, realms, apps, daemon, loads, ack, lapsed, unread, faults, crashes>>

(* ApplicationManager::update_config: nothing checks the sizes, and memory  *)
(* has them even if they cannot be saved.                                   *)
update_config(a, c) ==
    /\ a \in apps
    /\ Begin(Op("update", Home[a], a, c), "save_create")
    /\ mem' = [mem EXCEPT ![a] = c] /\ lapsed' = lapsed \cup {a}
    /\ UNCHANGED <<files, realms, apps, size, daemon, loads, ack, unread, dirty, faults, crashes>>

(* Mutant: the disk is made anew whenever the realm starts. *)
configure_disk_always(a) ==
    /\ a \in apps
    /\ IF validate_and_convert_to_bytes(mem[a]) /\ disk[a] = size[a]
       THEN /\ Begin(Op("start", Home[a], a, None), "disk_truncate")
            /\ size' = [size EXCEPT ![a] = mem[a]]
       ELSE /\ Begin(Op("start", Home[a], a, None), "configured") /\ UNCHANGED size
    /\ UNCHANGED <<files, realms, apps, mem, daemon, loads, ack, lapsed, unread, dirty, faults, crashes>>

(* Mutant: the data partition's size is not compared. *)
configure_disk_ignores_change(a) ==
    /\ a \in apps
    /\ Begin(Op("start", Home[a], a, None), "configured")
    /\ UNCHANGED <<files, memory, daemon, loads, ack, lapsed, unread, dirty, faults, crashes>>

(* ApplicationManager::configure_disk, when the realm starts: the disk must *)
(* be the one the manager knows, and is made anew if the sizes changed.     *)
configure_disk(a) ==
    /\ a \in apps
    /\ IF validate_and_convert_to_bytes(mem[a]) /\ disk[a] = size[a] /\ mem[a] # size[a]
       THEN /\ Begin(Op("start", Home[a], a, None), "disk_truncate")
            /\ size' = [size EXCEPT ![a] = mem[a]]
       ELSE /\ Begin(Op("start", Home[a], a, None), "configured") /\ UNCHANGED size
    /\ UNCHANGED <<files, realms, apps, mem, daemon, loads, ack, lapsed, unread, dirty, faults, crashes>>

configured ==
    /\ pc = "configured"
    /\ \/ /\ Returns(IF validate_and_convert_to_bytes(mem[op.app]) /\ disk[op.app] = size[op.app] THEN "Ok" ELSE "Err")
          /\ UNCHANGED faults
       \/ Fault /\ Returns("Err")
    /\ UNCHANGED <<files, memory, daemon, loads, op, ack, lapsed, unread, dirty, ops, crashes>>

(* Mutant: the realm stays registered until its directory is gone. *)
destroy_realm_keeps(r) ==
    /\ r \in realms /\ Begin(Op("destroy", r, None, None), "rm_tap") /\ lapsed' = lapsed \cup {r}
    /\ UNCHANGED <<files, memory, daemon, loads, ack, unread, dirty, faults, crashes>>

(* WardenDaemon::destroy_realm forgets the realm, then clean_up_realm shuts *)
(* its tap down and removes the directory, entry by entry.                  *)
destroy_realm(r) ==
    /\ r \in realms /\ Begin(Op("destroy", r, None, None), "rm_tap")
    /\ realms' = realms \ {r} /\ apps' = apps \ AppsOf(r) /\ lapsed' = lapsed \cup {r}
    /\ UNCHANGED <<files, mem, size, daemon, loads, ack, unread, dirty, faults, crashes>>

shutdown_tap ==
    /\ pc = "rm_tap"
    /\ \/ pc' = "rm_dir" /\ UNCHANGED <<out, dirty, faults>>
       \/ Fault /\ Abandons
    /\ UNCHANGED <<files, memory, daemon, loads, op, ack, lapsed, unread, ops, crashes>>

remove_dir_all ==
    /\ pc = "rm_dir"
    /\ \/ /\ cfg[op.realm] # "Absent" /\ cfg' = [cfg EXCEPT ![op.realm] = "Absent"]
          /\ ack' = [ack EXCEPT !.realms = @ \ {op.realm}]
          /\ UNCHANGED <<dir, adir, acfg, disk, pc, out, lapsed, dirty, faults>>
       \/ \E a \in AppsOf(op.realm) \cap adir :
          /\ \/ /\ acfg[a] # "Absent" /\ acfg' = [acfg EXCEPT ![a] = "Absent"]
                /\ ack' = [ack EXCEPT !.config[a] = None] /\ UNCHANGED <<adir, disk>>
             \/ disk[a] # "Absent" /\ disk' = [disk EXCEPT ![a] = "Absent"] /\ UNCHANGED <<adir, acfg, ack>>
             \/ /\ acfg[a] = "Absent" /\ disk[a] = "Absent"
                /\ adir' = adir \ {a} /\ UNCHANGED <<acfg, disk, ack>>
          /\ UNCHANGED <<dir, cfg, pc, out, lapsed, dirty, faults>>
       \/ /\ cfg[op.realm] = "Absent" /\ AppsOf(op.realm) \cap adir = {}
          /\ dir' = dir \ {op.realm} /\ Returns("Ok") /\ ack' = [ack EXCEPT !.gone = @ \cup {op.realm}]
          /\ lapsed' = lapsed \ ({op.realm} \cup AppsOf(op.realm))
          /\ UNCHANGED <<adir, cfg, acfg, disk, dirty, faults>>
       \/ Fault /\ Abandons /\ UNCHANGED <<files, ack, lapsed>>
    /\ UNCHANGED <<memory, daemon, loads, op, unread, ops, crashes>>
-------------------------------------------------------------------------------
(* The daemon's process ends, on purpose or not, in the middle of whatever  *)
(* it does.                                                                 *)
crash ==
    /\ daemon \in {"Up", "Loading"} /\ crashes < MaxCrashes /\ crashes' = crashes + 1
    /\ daemon' = "Down" /\ pc' = "Idle" /\ realms' = {} /\ apps' = {} /\ toload' = {} /\ atoload' = {}
    /\ dirty' = IF dirty = "No" /\ pc # "Idle" /\ op.name # "load" THEN "crash" ELSE dirty
    /\ UNCHANGED <<files, mem, size, op, out, ack, lapsed, unread, ops, faults>>

(* Every directory is taken for a realm's or an application's. An error of  *)
(* readdir ends the list and one of stat skips an entry, and nobody is told.*)
read_subfolders_uuids(entries, read) ==
    \/ read = entries /\ UNCHANGED faults
    \/ Fault /\ read \in SUBSET entries

(* WardenFabric::create_warden reads the directories ...                    *)
create_warden ==
    /\ \/ /\ daemon \in {"Down", "Failed"} /\ daemon' = "Loading" /\ realms' = {} /\ apps' = {}
          /\ \E read \in SUBSET dir :
                read_subfolders_uuids(dir, read) /\ toload' = read /\ lapsed' = dir \ read
       \/ /\ daemon = "Loading" /\ pc = "Idle" /\ toload = {}
          /\ daemon' = "Up" /\ UNCHANGED <<toload, realms, apps, lapsed, faults>>
    /\ op' = Op("load", None, None, None) /\ out' = "None" /\ atoload' = {}
    /\ UNCHANGED <<files, mem, size, pc, ack, unread, dirty, ops, crashes>>

LoadFails == daemon' = "Failed" /\ Returns("Err")

(* ... and load_realm loads each with load_applications first ...           *)
load_realm(r) ==
    /\ daemon = "Loading" /\ pc = "Idle" /\ r \in toload
    /\ toload' = toload \ {r} /\ op' = Op("load", r, None, None) /\ pc' = "load_apps"
    /\ \E read \in SUBSET (AppsOf(r) \cap adir) :
          /\ read_subfolders_uuids(AppsOf(r) \cap adir, read)
          /\ atoload' = read /\ lapsed' = lapsed \cup ((AppsOf(r) \cap adir) \ read)
    /\ UNCHANGED <<files, memory, daemon, out, ack, unread, dirty, ops, crashes>>

(* Mutant: a disk whose sizes differ from the configuration is refused. *)
load_application_refuses(a) ==
    /\ pc = "load_apps" /\ a \in atoload /\ atoload' = atoload \ {a}
    /\ \/ /\ acfg[a] \in Sizes /\ disk[a] = acfg[a]
          /\ mem' = [mem EXCEPT ![a] = acfg[a]] /\ size' = [size EXCEPT ![a] = acfg[a]]
          /\ apps' = apps \cup {a} /\ UNCHANGED <<daemon, pc, out>>
       \/ disk[a] # acfg[a] /\ LoadFails /\ UNCHANGED <<apps, mem, size>>
    /\ UNCHANGED <<files, realms, op, toload, ack, lapsed, unread, dirty, bounds>>

(* ... whose disks are made anew unless they have the configured sizes:     *)
(* also when only the reading of them failed.                               *)
load_application(a) ==
    /\ pc = "load_apps" /\ a \in atoload /\ atoload' = atoload \ {a}
    /\ \/ /\ validate_and_convert_to_bytes(acfg[a])
          /\ mem' = [mem EXCEPT ![a] = acfg[a]] /\ size' = [size EXCEPT ![a] = acfg[a]]
          /\ \/ /\ disk[a] = acfg[a] /\ apps' = apps \cup {a} /\ UNCHANGED <<op, pc, unread, faults>>
             \/ /\ disk[a] # acfg[a] /\ UNCHANGED <<unread, faults>>
                /\ op' = [op EXCEPT !.app = a] /\ pc' = "disk_truncate" /\ UNCHANGED apps
             \/ /\ disk[a] = acfg[a] /\ Fault /\ unread' = unread \cup {a}
                /\ op' = [op EXCEPT !.app = a] /\ pc' = "disk_truncate" /\ UNCHANGED apps
          /\ UNCHANGED <<daemon, out>>
       \/ /\ (~validate_and_convert_to_bytes(acfg[a]) /\ UNCHANGED faults) \/ Fault
          /\ LoadFails /\ UNCHANGED <<memory, op, unread>>
    /\ UNCHANGED <<files, realms, toload, ack, lapsed, dirty, ops, crashes>>

(* The realm's own config.yaml and its tap come last.                       *)
load_config ==
    /\ pc = "load_apps" /\ atoload = {}
    /\ \/ /\ cfg[op.realm] = "Valid" /\ realms' = realms \cup {op.realm}
          /\ pc' = "Idle" /\ UNCHANGED <<daemon, out, faults>>
       \/ cfg[op.realm] # "Valid" /\ LoadFails /\ UNCHANGED <<realms, faults>>
       \/ Fault /\ LoadFails /\ UNCHANGED realms
    /\ UNCHANGED <<files, apps, mem, size, loads, op, ack, lapsed, unread, dirty, ops, crashes>>

Next ==
    \/ save_create \/ save_write \/ disk_truncate \/ disk_gpt \/ create_tap \/ configured
    \/ shutdown_tap \/ remove_dir_all \/ crash \/ create_warden \/ load_config
    \/ \E r \in Realms : create_realm(r) \/ destroy_realm(r) \/ load_realm(r)
    \/ \E a \in Apps : configure_disk(a) \/ load_application(a)
    \/ \E a \in Apps, c \in Configs : create_application(a, c) \/ update_config(a, c)

Spec == Init /\ [][Next]_vars
-------------------------------------------------------------------------------
(* Types, and that what is registered was found or made on disk.            *)
TypeOK ==
    /\ dir \subseteq Realms /\ adir \subseteq Apps
    /\ cfg \in [Realms -> {"Absent", "Empty", "Valid"}]
    /\ acfg \in [Apps -> {"Absent", "Empty"} \cup Configs]
    /\ disk \in [Apps -> {"Absent", "Raw"} \cup Sizes]
    /\ realms \subseteq dir /\ apps \subseteq adir /\ toload \subseteq dir /\ atoload \subseteq adir
    /\ mem \in [Apps -> Configs \cup {None}] /\ size \in [Apps -> Sizes \cup {None}]
    /\ daemon \in {"Up", "Loading", "Down", "Failed"} /\ out \in {"None", "Ok", "Err"}
    /\ lapsed \subseteq Realms \cup Apps /\ unread \subseteq Apps
    /\ ops \in 0..MaxOps /\ faults \in 0..MaxFaults /\ crashes \in 0..MaxCrashes

(* What a client was told stays on disk, whichever operation fails and      *)
(* wherever the daemon dies, until the file that holds it is truncated by a *)
(* later update or deleted by a destroy: every realm and every application  *)
(* whose creation or update was acknowledged, with the configuration        *)
(* acknowledged last; and no realm whose destruction was acknowledged comes *)
(* back. A daemon that is up serves all of it as acknowledged, but for what *)
(* read_subfolders_uuids skipped on an error, a realm whose destruction     *)
(* failed, and an application whose update is not saved.                    *)
AcknowledgedIsKept ==
    /\ \A r \in ack.gone : r \notin dir /\ r \notin realms
    /\ \A r \in ack.realms : r \in dir /\ cfg[r] = "Valid"
    /\ \A a \in Apps : ack.config[a] # None => a \in adir /\ acfg[a] = ack.config[a]
    /\ daemon = "Up" =>
        /\ ack.realms \ lapsed \subseteq realms
        /\ \A a \in Apps : ack.config[a] # None /\ a \notin lapsed /\ Home[a] \notin lapsed =>
                a \in apps /\ mem[a] = ack.config[a]

(* Whenever a realm could start, an application was created or the daemon   *)
(* was loaded, the application's disk has the partitions its configuration  *)
(* asks for.                                                                *)
DiskMatchesConfig ==
    /\ pc = "Idle" /\ out = "Ok" /\ op.name \in {"start", "create_app"} => disk[op.app] = mem[op.app]
    /\ daemon = "Up" /\ pc = "Idle" /\ op.name = "load" => \A a \in apps : disk[a] = mem[a]

(* The partitions of an application, and the data on them, are given up     *)
(* only when its configuration asks for other sizes, its realm is           *)
(* destroyed, or, once each time, when the loading could not read them:     *)
(* create_disk_with_partitions takes any error for a disk to be made anew.  *)
DataIsKept ==
    [][\A a \in Apps : disk[a] \in Sizes /\ disk'[a] # disk[a] =>
            \/ mem[a] # disk[a]
            \/ Home[a] \notin realms /\ op.name = "destroy"
            \/ op.name = "load" /\ a \in unread /\ a \notin unread']_vars

(* The daemon fails to load its directories only if something was left      *)
(* unfinished before: an operation failed half-way or the daemon died in    *)
(* one, an update was given sizes that cannot be loaded, or the loading     *)
(* itself failed.                                                           *)
LoadsWhatIsFinished == daemon = "Failed" => dirty # "No" \/ faults > 0
===============================================================================
