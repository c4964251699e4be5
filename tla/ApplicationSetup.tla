-------------------------- MODULE ApplicationSetup --------------------------
(***************************************************************************)
(* Application::setup and cleanup of the app-manager, with OciLauncher, on *)
(* the two partitions of an application, over the boots of a realm: keys   *)
(* are derived, dm-crypt devices created, file systems mounted, or         *)
(* formatted when that fails, the image installed and the data mounted     *)
(* over it; the application writes, and the realm is shut down in order,   *)
(* or stops at any moment.                                                 *)
(*                                                                         *)
(* A key is the sequence of what was hashed into it (hashes do not         *)
(* collide).  A partition is known by the key of its file system, and      *)
(* mounts only through a device with that key.                             *)
(***************************************************************************)
EXTENDS OciLauncher, Sequences

CONSTANTS
    Names,        \* application names
    VendorData,   \* [Versions -> the vendor's public key and its signature]
    MaxBoots      \* bound on boots of the realm

ASSUME SetupAssumption ==
    /\ MaxBoots \in Nat
    /\ \A v \in Versions : VendorData[v] = <<VendorData[v][1], VendorData[v][2]>>

VARIABLES
    stage,      \* where setup, the application or cleanup is
    name,       \* ApplicationInfo.name, as sent with this provisioning
    sealing,    \* Config.keysealing, the same in every boot
    keyring,    \* the logon key of every partition
    tables,     \* the key in the table of every dm-crypt device of the kernel
    devices,    \* Application.devices
    mounts,     \* what is mounted
    fs,         \* the key of the file system on every partition
    files,      \* the application's data: who wrote the files
    durable,    \* those that are not only in the page cache
    unsaved,    \* the image partition has changes in the page cache
    saved,      \* history: the data when it was last written back
    excuse,     \* history: since then mount failed, or another identity used the data
    boots       \* counter for the bound

kernel == <<keyring, tables, devices, mounts>>
data == <<files, durable, saved, excuse>>
config == <<sealing, boots>>

Partitions == {"image", "data"}
NoKey == <<>>
NoTable == <<"suspended">>
Off == <<"realm", "off">>
Failed == <<"realm", "failed">>
Running == <<"app", "running">>
Sync == <<"down", "sync">>
AtSetup == Partitions \X {"key", "device", "table", "mount", "format", "remount"}
           \cup {<<"app", s>> : s \in {"install", "overlay", "prepare"}}
Stages == AtSetup \cup {Off, Failed, <<"realm", "up">>, Running, Sync,
                        <<"down", "umount">>, <<"down", "devices">>}

NoPartition == [p \in Partitions |-> NoKey]

SetupInit ==
    /\ LauncherInit
    /\ stage = Off /\ name \in Names /\ sealing \in {"Dummy", "Hkdf", "HkdfRim"}
    /\ keyring = NoPartition /\ tables = NoPartition /\ devices = <<>> /\ mounts = {}
    /\ fs = NoPartition /\ files = {} /\ durable = {} /\ unsaved = FALSE
    /\ saved = {} /\ excuse = FALSE /\ boots = 0

(* The factories: a sealing key, or a constant. *)
Ikm == <<"ikm">>
use_image_hash == sealing = "HkdfRim"

DummyDerive(ikm, infos) == <<"sha256(">> \o ikm \o infos \o <<")">>
HkdfDerive(ikm, infos) == <<"expand(">> \o ikm \o infos \o <<")">>
derive_key(ikm, infos) == IF sealing = "Dummy" THEN DummyDerive(ikm, infos) ELSE HkdfDerive(ikm, infos)

(* The dummy sealing ignores the image. *)
DummySeal(ikm, infos, image_hash) == <<"sha256(">> \o ikm \o infos \o <<")">>

(* Mutant: the hash of the image is always sealed in. *)
HkdfSeal_always_image(ikm, infos, image_hash) == <<"salted(">> \o ikm \o infos \o <<image_hash, ")">>

HkdfSeal(ikm, infos, image_hash) ==
    <<"salted(">> \o ikm \o infos \o (IF use_image_hash THEN <<image_hash, ")">> ELSE <<")">>)

seal(ikm, infos, image_hash) ==
    IF sealing = "Dummy" THEN DummySeal(ikm, infos, image_hash) ELSE HkdfSeal(ikm, infos, image_hash)

(* Mutant: the data key does not depend on the vendor. *)
KeyOf_any_vendor(p) ==
    IF p = "image" THEN derive_key(Ikm, <<"App manager label">>) ELSE derive_key(Ikm, <<name>>)

(* The image partition has one key for every application and image; the    *)
(* key of the data is sealed to the vendor, and maybe to the image.         *)
KeyOf(p) ==
    IF p = "image" THEN derive_key(Ikm, <<"App manager label">>)
    ELSE derive_key(seal(Ikm, VendorData[measured], measured), <<name>>)

(* Whose the data is: the name of the application, its vendor, and the     *)
(* image with the sealing that is bound to it.                              *)
SameOwner(f, g) ==
    /\ f[1] = g[1] /\ VendorData[f[2]] = VendorData[g[2]]
    /\ use_image_hash => f[2] = g[2]

(* ProvisionInfo: a new Application, as long as the last setup failed. *)
provision ==
    /\ stage \in {<<"realm", "up">>, Failed} /\ stage' = <<"image", "key">>
    /\ name' \in Names /\ devices' = <<>>
    /\ from_oci_config
    /\ UNCHANGED <<faults, config, keyring, tables, mounts, fs, data, unsaved>>

logon_seal(p, key) == keyring' = [keyring EXCEPT ![p] = key]

(* The key is derived and put into the keyring. *)
derive_key_for(p) ==
    /\ stage = <<p, "key">>
    /\ \/ /\ logon_seal(p, KeyOf(p))
          /\ stage' = <<p, "device">> /\ UNCHANGED faults
          /\ excuse' = (excuse \/ (p = "data" /\ \E f \in saved : ~SameOwner(f, <<name, measured>>)))
       \/ Fault /\ stage' = Failed /\ UNCHANGED <<keyring, excuse>>
    /\ UNCHANGED <<disk, pc, new, current, result, measured, torn, name, config, tables, devices, mounts,
                   fs, files, durable, unsaved, saved>>

(* The device mapper. *)
device_create(p) == tables' = [tables EXCEPT ![p] = NoTable]
load(p) == tables' = [tables EXCEPT ![p] = keyring[p]]
device_remove(p) == tables' = [tables EXCEPT ![p] = NoKey]

(* The partition is looked up and its device created, which fails when the *)
(* kernel has one of that name ...                                          *)
create_device(p) ==
    /\ stage = <<p, "device">>
    /\ \/ /\ tables[p] = NoKey /\ device_create(p)
          /\ stage' = <<p, "table">> /\ UNCHANGED faults
       \/ tables[p] # NoKey /\ stage' = Failed /\ UNCHANGED <<tables, faults>>
       \/ tables[p] = NoKey /\ Fault /\ stage' = Failed /\ UNCHANGED tables
    /\ UNCHANGED <<disk, pc, new, current, result, measured, torn, name, config, keyring, devices, mounts,
                   fs, data, unsaved>>

(* ... it gets its table, is resumed, and a node is made for it. One that  *)
(* fails here stays in the kernel, and Application.devices misses it.       *)
load_table(p) ==
    /\ stage = <<p, "table">>
    /\ \/ /\ load(p) /\ devices' = Append(devices, p)
          /\ stage' = <<p, "mount">> /\ UNCHANGED faults
       \/ /\ Fault /\ stage' = Failed /\ UNCHANGED devices
          /\ load(p) \/ UNCHANGED tables
    /\ UNCHANGED <<disk, pc, new, current, result, measured, torn, name, config, keyring, mounts,
                   fs, data, unsaved>>

(* What setup does when partition p is mounted. *)
Mounted(p) ==
    /\ mounts' = mounts \cup {p}
    /\ stage' = <<"app", IF p = "image" THEN "install" ELSE "overlay">>

(* try_mount_or_format_partition: any error of mount leads to formatfs. *)
try_mount(p) ==
    /\ stage = <<p, "mount">>
    /\ \/ fs[p] = tables[p] /\ Mounted(p) /\ UNCHANGED <<excuse, faults>>
       \/ /\ fs[p] # tables[p] /\ stage' = <<p, "format">> /\ UNCHANGED <<mounts, excuse, faults>>
       \/ /\ fs[p] = tables[p] /\ Fault /\ stage' = <<p, "format">> /\ UNCHANGED mounts
          /\ excuse' = (excuse \/ p = "data")
    /\ UNCHANGED <<disk, pc, new, current, result, measured, torn, name, config, keyring, tables, devices,
                   fs, files, durable, unsaved, saved>>

Wipe(p) ==
    IF p = "data" THEN files' = {} /\ durable' = {} /\ UNCHANGED <<disk, unsaved>>
    ELSE img' = {} /\ unpack' = {} /\ meta' = None /\ unsaved' = FALSE /\ UNCHANGED <<files, durable>>

(* mkfs formats, cannot be started, or fails before or after it has begun  *)
(* to write, for its exit status is not looked at; it runs on when the      *)
(* setup is aborted.                                                        *)
formatfs(p) ==
    /\ stage = <<p, "format">>
    /\ \/ /\ fs' = [fs EXCEPT ![p] = tables[p]] /\ Wipe(p)
          /\ stage' = <<p, "remount">> /\ UNCHANGED faults
       \/ /\ Fault /\ stage' \in {Failed, <<p, "remount">>}
          /\ UNCHANGED <<disk, fs, files, durable, unsaved>>
       \/ /\ Fault /\ fs' \in {[fs EXCEPT ![p] = NoKey], [fs EXCEPT ![p] = tables[p]]} /\ Wipe(p)
          /\ stage' \in {Failed, <<p, "remount">>}
    /\ UNCHANGED <<pc, new, current, result, measured, torn, name, config, kernel, saved, excuse>>

(* Mutant: the second error of mount is ignored, too. *)
remount_ignores_error(p) ==
    /\ stage = <<p, "remount">> /\ Mounted(p)
    /\ UNCHANGED <<launcherVars, name, config, keyring, tables, devices, fs, data, unsaved>>

remount(p) ==
    /\ stage = <<p, "remount">>
    /\ \/ fs[p] = tables[p] /\ Mounted(p) /\ UNCHANGED faults
       \/ fs[p] # tables[p] /\ stage' = Failed /\ UNCHANGED <<mounts, faults>>
       \/ fs[p] = tables[p] /\ Fault /\ stage' = Failed /\ UNCHANGED mounts
    /\ UNCHANGED <<disk, pc, new, current, result, measured, torn, name, config, keyring, tables, devices,
                   fs, data, unsaved>>

(* The launcher installs the image in the mounted partition. *)
install_image ==
    /\ stage = <<"app", "install">> /\ install
    /\ stage' = IF pc' = "Prepare" THEN <<"data", "key">>
                ELSE IF pc' = "Err" THEN Failed ELSE stage
    /\ unsaved' = (unsaved \/ pc \in Updating)
    /\ UNCHANGED <<name, config, kernel, fs, data>>

(* The directories of the overlay are made and it is mounted: root of the  *)
(* data partition, with what applications wrote, over root of the image     *)
(* partition.                                                               *)
mount_overlayfs ==
    /\ stage = <<"app", "overlay">>
    /\ \/ mounts' = mounts \cup {"overlay"} /\ stage' = <<"app", "prepare">> /\ UNCHANGED faults
       \/ Fault /\ stage' = Failed /\ UNCHANGED mounts
    /\ UNCHANGED <<disk, pc, new, current, result, measured, torn, name, config, keyring, tables, devices,
                   fs, data, unsaved>>

prepare_handler ==
    /\ stage = <<"app", "prepare">> /\ prepare
    /\ stage' = IF pc' = "Ready" THEN Running ELSE Failed
    /\ UNCHANGED <<name, config, kernel, fs, data, unsaved>>

(* The setup of another application failed: its JoinSet aborts this one. *)
aborted ==
    /\ stage \in AtSetup /\ Fault /\ stage' = Failed
    /\ CutOff(FALSE) /\ pc' = "Err"
    /\ UNCHANGED <<new, current, result, measured, name, config, kernel, fs, data, unsaved>>

(* The running application writes to img of the overlay: new files, or     *)
(* copies of those of the image, which hide them from now on.               *)
write_data ==
    /\ stage = Running /\ files' = files \cup {<<name, measured>>}
    /\ UNCHANGED <<launcherVars, stage, name, config, kernel, fs, durable, unsaved, saved, excuse>>

Saved == durable' = files /\ saved' = files /\ excuse' = FALSE

(* The kernel writes the page cache back. *)
writeback ==
    /\ stage # Off /\ (unsaved \/ files # durable) /\ unsaved' = FALSE
    /\ IF "data" \in mounts THEN Saved ELSE UNCHANGED <<durable, saved, excuse>>
    /\ UNCHANGED <<launcherVars, stage, name, config, kernel, fs, files>>

(* The order in which cleanup unmounts. *)
Unmounts == <<"overlay", "data", "image">>

(* shutdown_all_apps: the handler is stopped and cleanup begins. *)
stop_application ==
    /\ stage = Running /\ stage' = <<"down", "umount">>
    /\ UNCHANGED <<launcherVars, name, config, kernel, fs, data, unsaved>>

(* Unmounting writes back; the first error ends cleanup, as one of the     *)
(* devices does. Every error is only logged.                                *)
umount ==
    /\ stage = <<"down", "umount">>
    /\ \/ \E i \in 1..3 :
              /\ Unmounts[i] \in mounts /\ \A j \in 1..(i - 1) : Unmounts[j] \notin mounts
              /\ mounts' = mounts \ {Unmounts[i]}
              /\ IF i = 2 THEN Saved ELSE UNCHANGED <<durable, saved, excuse>>
              /\ unsaved' = (unsaved /\ i # 3)
              /\ UNCHANGED <<stage, faults>>
       \/ /\ mounts = {} /\ stage' = <<"down", "devices">>
          /\ UNCHANGED <<mounts, durable, saved, excuse, unsaved, faults>>
       \/ Fault /\ stage' = Sync /\ UNCHANGED <<mounts, durable, saved, excuse, unsaved>>
    /\ UNCHANGED <<disk, pc, new, current, result, measured, torn, name, config, keyring, tables, devices,
                   fs, files>>

remove_devices ==
    /\ stage = <<"down", "devices">>
    /\ \/ /\ devices # <<>> /\ devices' = SubSeq(devices, 1, Len(devices) - 1)
          /\ \/ device_remove(devices[Len(devices)]) /\ UNCHANGED <<stage, faults>>
             \/ Fault /\ stage' = Sync /\ UNCHANGED tables
       \/ devices = <<>> /\ stage' = Sync /\ UNCHANGED <<devices, tables, faults>>
    /\ UNCHANGED <<disk, pc, new, current, result, measured, torn, name, config, keyring, mounts,
                   fs, data, unsaved>>

(* A realm whose setup failed, or that was given nothing to set up, has no *)
(* applications to shut down.                                               *)
shutdown_failed ==
    /\ stage \in {<<"realm", "up">>, Failed} /\ stage' = Sync
    /\ UNCHANGED <<launcherVars, name, config, kernel, fs, data, unsaved>>

Stopped ==
    /\ stage' = Off
    /\ pc' = "Idle" /\ new' = None /\ current' = None /\ result' = "None" /\ measured' = None
    /\ keyring' = NoPartition /\ tables' = NoPartition /\ devices' = <<>> /\ mounts' = {}

(* sync and the system call, which only returns when it fails: then a realm *)
(* without applications can be provisioned, and another request to shut     *)
(* down calls cleanup again, which gets no further than the overlay if that *)
(* was unmounted.                                                           *)
reboot ==
    /\ stage = Sync /\ unsaved' = FALSE
    /\ IF "data" \in mounts THEN Saved ELSE UNCHANGED <<durable, saved, excuse>>
    /\ \/ Stopped /\ UNCHANGED faults
       \/ /\ Fault /\ UNCHANGED <<pc, new, current, result, measured, kernel>>
          /\ \/ UNCHANGED stage
             \/ pc # "Ready" /\ stage' = Failed
             \/ pc = "Ready" /\ "overlay" \in mounts /\ stage' = <<"down", "umount">>
    /\ UNCHANGED <<disk, torn, name, config, fs, files>>

(* The realm stops: what was not written back may be lost. *)
power_loss ==
    /\ stage # Off /\ Stopped /\ CutOff(unsaved)
    /\ files' \in {files, durable} /\ durable' = files' /\ unsaved' = FALSE
    /\ UNCHANGED <<faults, name, config, fs, saved, excuse>>

power_on ==
    /\ stage = Off /\ boots < MaxBoots /\ boots' = boots + 1
    /\ stage' = <<"realm", "up">>
    /\ UNCHANGED <<launcherVars, name, sealing, kernel, fs, data, unsaved>>

SetupNext ==
    \/ provision \/ install_image \/ mount_overlayfs \/ prepare_handler \/ aborted
    \/ \E p \in Partitions :
         derive_key_for(p) \/ create_device(p) \/ load_table(p) \/ try_mount(p) \/ formatfs(p) \/ remount(p)
    \/ write_data \/ writeback
    \/ stop_application \/ umount \/ remove_devices \/ shutdown_failed \/ reboot
    \/ power_loss \/ power_on

setupVars == <<launcherVars, stage, name, config, kernel, fs, data, unsaved>>

SetupSpec == SetupInit /\ [][SetupNext]_setupVars
-----------------------------------------------------------------------------
(* Types. A partition that is mounted has the key of its device. *)
TypeOK ==
    /\ LauncherTypeOK
    /\ stage \in Stages /\ name \in Names /\ sealing \in {"Dummy", "Hkdf", "HkdfRim"}
    /\ \A p \in Partitions : p \in mounts => fs[p] = tables[p] /\ fs[p] # NoKey
    /\ devices \in {<<>>, <<"image">>, <<"image", "data">>} /\ mounts \subseteq Partitions \cup {"overlay"}
    /\ files \subseteq Names \X Versions /\ durable \subseteq files /\ saved \subseteq Names \X Versions
    /\ unsaved \in BOOLEAN /\ excuse \in BOOLEAN /\ boots \in 0..MaxBoots

(* The root of a running application is img of the overlay. Below, it is    *)
(* exactly the image that was measured; above, and hiding it, are files     *)
(* written under images of the measured vendor: with the sealing bound to   *)
(* the image under the measured one only, with the others maybe under one   *)
(* that was replaced since. Excused by torn: from the removal of the old    *)
(* image to the end of save_metadata, and until it is written back, a stop  *)
(* or a failure leaves metadata beside an image they do not describe, and   *)
(* so does unpacking over what a stop left in unpack; the next installation *)
(* that completes from an empty unpack repairs it.                          *)
RunsMeasured ==
    stage = Running /\ ~torn =>
        /\ img = All(measured)
        /\ \A f \in files : VendorData[f[2]] = VendorData[measured] /\ (use_image_hash => f[2] = measured)

(* What was written back survives reboots, realms that stop at any moment, *)
(* setups that fail or are aborted half way, reinstallations and updates of *)
(* the image, unless mount failed for another reason than the key, or an    *)
(* application of another name, vendor certificate (or image, where the     *)
(* sealing is bound to it) was set up on the partition.                     *)
DataSurvives == excuse \/ saved \subseteq files

(* The data a running application sees was written by the same application: *)
(* one with its name, its vendor certificate and, where the sealing is      *)
(* bound to the image, the same image. Others never see it, whatever was    *)
(* set up on the partition before.                                          *)
DataOfOwner ==
    stage = Running => \A f \in files : SameOwner(f, <<name, measured>>)
=============================================================================
