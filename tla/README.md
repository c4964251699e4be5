# Verification of realm-manager in TLA+

realm-manager runs confidential virtual machines (realms) on a host. The *warden
daemon* on the host creates realms, starts their VMs, keeps their applications'
disks and configuration, and serves clients over a Unix socket. Inside every realm
an *app-manager* connects back over vsock, installs the applications, measures
them, and starts and stops them. The modules here model both sides; TLC checks
them on small instances, and TLAPS proves all invariants the runs check, two action
properties and the two refinements for all instances.

## 1. The system and what models it

| part | code | module | how far |
|---|---|---|---|
| one realm: manager, VM runner, client handler, vsock entry | `warden_daemon/src/managers/realm_manager.rs`, `client_handler/realm_client_handler.rs`, `socket/vsocket_server.rs`, `virtualization/vm_runner.rs` | `RealmManager` | all commands |
| what a client may rely on about a realm | `managers/realm.rs` | `RealmLifecycle` (abstract) | |
| clients' tasks, map of realms, mutexes, reference counts | `managers/warden_manager.rs`, `client_handler/client_command_handler.rs`, `socket/unix_socket_server.rs`, `daemon.rs` | `WardenDaemon` | all commands |
| streams between clients and daemon: client library, command-line client, framing, handler of a connection, listener | `warden/client_lib`, `warden/cmd_client`, `protocol/warden_client`, `client_handler/client_command_handler.rs`, `socket/unix_socket_server.rs` | `ClientConnection` | all commands; output and parsing left out |
| files: fabrics, YAML repositories, application disks | `fabric/*`, `storage/*`, `utils/src/file_system/fs_repository.rs` | `WardenStorage` | partition arithmetic left out |
| network: bridge, iptables, DHCP, taps; build and shutdown of the daemon | `virtualization/nat_manager.rs` and below, `daemon.rs` | `NatManager` | addresses and rule texts left out |
| app-manager | `realm/app-manager/src/manager.rs`, `app.rs` | `AppManager` | all requests |
| handler of one application's process | `launcher/handler.rs` | `ApplicationHandler` | all calls |
| what the app-manager relies on about it | | `HandlerLifecycle` (abstract) | |
| installation of OCI images | `launcher/oci.rs` | `OciLauncher` | registry and signatures external |
| setup and cleanup of an application: keys, dm-crypt devices, mounts, formatting | `app.rs`, `key/*`, `dm/*`, `util/fs.rs`, `util/os.rs` | `ApplicationSetup`, extending `OciLauncher` | table and ioctl encoding left out |

Not modelled. Computations without state: the encoding of device-mapper tables and
ioctls, JSON, certificates and tokens, the command lines of QEMU, lkvm and dnsmasq
and the range of addresses given to it, the conversions of `client_helper.rs`, and
what the command-line client prints. Stand-ins and tools: the dummy launcher, the
mocked host, the example application. `udhcp_server_handler.rs` is not declared as a
module and so not compiled. The boot scripts of the realm image appear only as a
realm that has booted (`guest_connect`). The task of `VmHandler` that copies the
output of a VM to the log changes nothing the other parts read.
`PROJECT.json` lists every part with the reason, maps every definition to the
lines it stands for, and lists the hazards of the code with the properties that
cover them.

How the parts meet. A client's call travels through `ClientConnection`, where the
command itself is one step; it is one task of `WardenDaemon`; what it does
to its realm between taking and dropping the realm's mutex is `RealmManager`; what
it writes is `WardenStorage`; its tap is `NatManager`'s. The realm in
`RealmManager` answers, refuses, delays, dies or connects late; what it does with
a request is `AppManager`, whose applications take the steps of `HandlerLifecycle`
(which `ApplicationHandler` implements) and whose setup tasks are
`ApplicationSetup`, with `OciLauncher` for the installation in it.

### Conventions

* Tasks of the async runtime are interrupted only at an `await`, so an action is
  the code from one await to the next, error paths included. A variable `pc`
  (`mgr`, `phase`, `thread`) is the await a task is at. Where an await cannot be
  observed by anyone (the caller holds the only reference) several are one action.
* `Fault` is a failing system call, counted against `MaxFaults`; a timeout is not a
  fault and may happen whenever the code waits with one.
* An operator named after a function with a suffix (`destroy_without_shutdown`),
  under a comment *Mutant*, is that function with a plausible bug. It is not part
  of the specification: it shows that a property notices the bug.
* Variables marked *history* are not in the code; properties and, for bounds,
  counters use them, and no action's effect on the modelled state depends on one.

### The modules

**RealmManager.** `op`/`pc` is the command that holds the realm's mutex,
`appOp`/`appPc` a Start- or StopApplication beside it; they meet at `clientLock` and at
the application's mutex (`AppLocked`), which `prepare_applications`,
`create_provisioning_config` and `update_config` take as well.
`state` and `vm` are the manager's and the `VmRunner`'s fields, `sender` the
stream of the client handler, `waiter`/`inbox` the oneshot channel in
`VSockServer.waiting`, `backlog` a connection not accepted, `server` the listener
whose end ends the daemon. `memCfg`/`diskCfg`/`guestCfg` are versions of the
configuration in memory, in the file and in the realm. A VM may exit at any time.
`seen` records what excuses a property: `Unread`, for instance, that a response may be
left on the stream, after a read that timed out or a reboot that gave up.

**WardenDaemon.** Commands are reduced to the mutexes they take, for as long as they
hold them, and to the realm's state as far as commands are refused by it. A realm
created under an old uuid is another object with other locks. `handle` says who
owns an `Arc`.

**ClientConnection.** A stream is a queue of frames in each direction; `id` numbers
the commands of a client, which the frames in the code do not. `lib` is where
`communicate` is, `handler` where the `ClientHandler` of the connection is, from
`Backlog` (connected, not accepted) to `Ended` (the daemon's end is closed).
`HandledWith`, `Sends`, `Expects` and `Calls` are the tables that daemon, library and
command-line client have of the twelve commands. A process killed while it writes
leaves a torn frame; a caller may drop a call while it waits. `Foreign` is a command
the daemon's version does not know.

**WardenStorage.** Every file operation is a step; the daemon may die between any
two and loads what it finds. A truncated file is `Empty`, an unpartitioned disk
`Raw`. Operations run one at a time: those of one realm exclude each other by its
mutex and those of two realms touch different directories. The disks of a realm's
applications are configured together when it starts: one that cannot be cuts the others
short (`SiblingFails`). Loading may skip a directory it cannot read, without an error
(`read_subfolders_uuids`), and makes a disk anew that it cannot read. `ack` is what a
client was told and nobody has begun to overwrite or delete; `lapsed` is what this life
of the daemon does not serve as acknowledged, `unread` whose disk could not be read.

**NatManager.** Several lives of the daemon over one kernel state. A table's chains
are absent, present with a link missing (`Chain`), linked with a rule missing
(`Linked`) or complete. Clients' commands go on while the daemon shuts down. Every realm
has the tap device its client named, and two may have the same one (`shared` remembers
that they did); `broken` are the realms on disk that cannot be loaded.

**AppManager.** The request loop and one task per installation. `devices` is what
`Application` remembers, `kernel` and `mounts` what exists. Abstractions:
`config.extend` is taken as configured; a task spawned again waits for its aborted
predecessor (in the code the two overlap until the abort is seen; the daemon sends no
second ProvisionInfo on a connection, since it kills the VM when the first fails); StopApp and KillApp
share an action; the formatting after a failed mount is part of the mount.

**ApplicationHandler.** All threads ever started, since a replaced one goes on until
it notices. The output of the process is the possibility of a read error.

**OciLauncher.** A directory is the set of image versions whose files are in it,
complete or in part, so that mixtures can be seen. `torn` is set when the old image is
about to be removed, or when the realm stops before the new one is written back, and
reset by an installation that completes from an empty unpack directory.

**ApplicationSetup.** The two partitions of one application over several boots. A key
is the sequence of what was hashed into it, so two keys are equal exactly if the same
things went in; `fs` is the key a partition's file system was made with, and a
partition mounts only through a device with that key. The root of the application is
`img` of an overlay: the lower layer is `img` on the image partition, the upper one
`files`, on the data partition. What the application rewrote hides the image's file, also
after an update of the image as long as the key of the data is the same. `METADATA` is
always the lower one, for the application cannot leave `img`. A member of `files` is the
name and the image under which something was written; `durable` is what the kernel has
written back, `saved` what must survive. `excuse` is set when a mount failed for another reason than the key, or an
application with another name, vendor or (where the sealing is bound to it) image
was set up on the partition: the code then formats it.

## 2. Runs

| run | bounds | states | shows |
|---|---|---|---|
| `realm_safety` | 4 commands, 2 config updates, 2 faults | 189 144 | types; state and VM agree; Ok means done; no response reaches another command before a timeout or an abandoned reboot; Running means the current configuration; the listener ends only on an orphaned realm; RealmLifecycle implemented; every command returns unless two wait for each other's mutex |
| `realm_failed_start` | the same | violation | a failed start can leave the realm Provisioning |
| `warden_arcs` | 2 clients, 2 uuids, 1 application, 5 commands | 1 506 654 | destroy_realm's check still holds when it acts |
| `warden_locks` | 2 clients, 1 uuid, 4 commands, no application commands | 60 250 | no circular wait; shutdown completes |
| `warden_shutdown` | same, all commands | violation | a deadlock keeps the daemon from ending |
| `client_connection` | 2 clients, 2 calls, 3 kinds of command, 1 fault | 107 455 | answers reach their calls, commands once and in order, cancellation cuts none off, every call returns, the server stops |
| `app_handler` | 3 starts, 4 calls, 1 read error | 150 296 | responses, reaping, replacement, termination, HandlerLifecycle implemented |
| `app_manager` | 2 applications, 3 requests, 2 faults | 645 969 | order of the REM, cleanup, every request answered if registries answer and applications exit |
| `app_manager_shutdown` | 1 application, 2 requests, 1 fault | violation | a process still runs at power off |
| `application_setup` | 5 images (3 signed, 2 vendors), 2 names, 3 sealings, 3 boots, 2 faults | 2 171 254 | below the overlay runs what was measured, signed; above it is what the same vendor's images wrote; data survives and stays its owner's |
| `warden_storage` | 2 realms, 2 applications, 5 operations, 1 fault, 2 deaths | 1 173 856 | acknowledged stays until overwritten, destroyed is gone, disks fit and are kept unless unreadable |
| `nat_manager` | 3 realms with 2 tap devices, 3 lives, 2 faults | 228 517 | a stop or a failed build leaves nothing behind, and the next start fails only for a realm that cannot be loaded |

Why the bounds are enough. Two clients suffice for a check that is overtaken and
for the circular wait of `warden_shutdown`; circles of more clients are the subject of
the proof, which holds for any number. Four commands on a realm are a failed start or
fetch, an update, a stop or reboot and one that meets what they left. Three lives of
the daemon are one that leaves something, one that meets it and one after that; three
boots of ApplicationSetup are an installation with data written, an update or another
application cut off anywhere, and a boot that meets what is left. Two calls on a
connection are one that is dropped or fails and the next one; more calls and clients
are the subject of the proof. Deadlock is not checked by TLC because every model ends when its commands,
boots or lives are used up; that waiting ends is what the liveness properties and
NoCircularWait say.

The symmetries used (clients in `warden_arcs`, realms in `nat_manager`, names and the
two images of one vendor in `application_setup`) permute
values that no definition tells apart, and no liveness is checked with them.

### What the properties excuse

Some properties have an exception, for what the code does lose or leave. It is in the
formula, and so the run also shows that there is no other.

* `RepliesMatch` (`Unread`): after a read that timed out, or a reboot that gave up
  waiting, a later command on the same stream may read what was left as its own response.
* `RunningMeansCurrentConfig`: an update that failed to save, as long as memory and file
  differ.
* `RunsMeasured` (`torn`): from the removal of the old image to the end of
  `save_metadata`, and until that is written back, a stop or a failure leaves metadata
  that do not describe the image; and files left in the unpack directory get into the
  next image. When the registry cannot be reached afterwards, such an image is run as the
  one the metadata name. `OnlySignedIsInstalled` has no exception.
* `RunsMeasured`, upper layer: with a sealing that is not bound to the image, files
  written under an earlier image of the same vendor are kept and hide those of the
  measured one. The property says whose they can be, not that there are none.
* `AcknowledgedIsKept`: a configuration counts until an update truncates its file, so a
  death between truncation and writing may lose it. A daemon that is up need not serve
  what the loading could not read (`lapsed`). A failed update or destruction counts as
  neither done nor undone.
* `LoadsWhatIsFinished` (`dirty`): after an unfinished operation the daemon may be unable
  to start. The code has no repair.
* `DataIsKept` (`unread`): a disk whose partitions cannot be read is made anew.
* `LeavesNothingBehind`: failed calls and kills; realms that share a device (`shared`);
  taps created after the network was taken down (`late`).
* `DataSurvives` (`excuse`): a mount that fails for another reason than the key.

### Fairness

* `RealmManager`: weak fairness for the steps of the tasks, strong fairness for
  taking the client handler's mutex: tokio polls ready tasks and its mutex is fair
  (first come, first served). Reads from the realm and the wait for it have a timeout, so
  nothing is assumed of the realm. The host's own operations (writing to the stream,
  tools on a disk, the end of a killed process) have none and are taken to end. A mutex is
  not presumed to be released: a start or reboot that holds the client handler and waits
  for the application, whose command waits for the client handler, is `Crossed`, and
  `ReturnsUnlessCrossed` says that this is the only wait that may never end.
* `WardenDaemon`: strong fairness for the tasks' steps, for the same reason; the call to
  a realm, once its mutexes are taken, ends because of RealmManager's
  `ReturnsUnlessCrossed`, and the mutexes it may cross at are WardenDaemon's own.
* `ClientConnection`: weak fairness for ready tasks, the handling of a command
  included: a command is presumed to end, which finding 2 shows to fail if two of them
  cross; strong fairness for the end of a handler, because `select!` polls its
  branches in random order and so cannot miss a cancelled token for ever while a
  client keeps sending. Nothing is assumed of clients but that they read.
* `ApplicationHandler`: weak fairness for ready tasks; a process that was sent a signal
  exits. The code sends SIGTERM and waits without a timeout, so this is an assumption
  about applications and not a guarantee of the code.
* `AppManager`: weak fairness for ready tasks, but for installations, which await a
  registry without a timeout, and for stops, which await a process.
  `EveryRequestAnswered` has both as conditions (`RegistriesAnswer`, `AppsExit`): nothing
  else keeps a request from being answered.

## 3. Findings

1. `start` leaves a realm in Provisioning when its configuration cannot be collected
   (`realm_manager.rs:190`): `FailedStartLeavesHalted`.
2. `reboot` and `start` take the client handler's mutex and then the applications',
   application commands take them in the other order; the deadlock also keeps a
   signalled daemon from ending (`realm_manager.rs:226`): `ShutdownCompletes`.
3. `shutdown_all_apps` powers the realm off with a process running when the thread
   that watched it had failed (`manager.rs:254`): `ShutdownStopsApps`.

## 4. Proofs

Every invariant of a passing run is proved for all values of the constants
(`NoCircularWait` for clients that neither start nor stop applications), and so are
the action properties `OkMeansDone` and `DataIsKept` and the two refinements. The
theorems of a module are in `<module>Proofs` (`HandlerProofs` for
`ApplicationHandler`).

`RealmManagerProofs` (all values of the bounds; assumption: they are naturals).
`VmFollowsState` is not inductive: a step of a command relies on what the command
checked at its beginning. The invariant `IInv` adds which commands can be at
which await (`PcOp`), in which state the realm is there (`PcState`: the state a
command checked stays, because it holds the mutex), and that a realm's system runs
only in a launched VM (`GuestNeedsVm`), and that a realm destroyed with its VM
running has seen a kill fail (`KilledWithRealm`); the streams carry well-formed records.
`Refinement` shows each step to be a step of RealmLifecycle or a stutter, from
the same invariant.

The four theorems about the connection to the realm need more, on top of `IInv`.
`LockInv` places the holder of the client handler's mutex, and `LinkInv` says that of the
connections a realm has made only the newest is live, and that requests are found only
behind the handler's stream. From these, `QuietInv`: until a read times out the stream
is silent, but for the one request the holder of the mutex waits for or its response
(`RepliesMatch`), and for the answer to Reboot, which goes away with its stream unless
the reboot gives up waiting for the next.
`CfgInv` bounds the configuration not only of the realm but also of every
request still on the stream, since a late ProvisionInfo may be taken after the command
gave it up (`RunningMeansCurrentConfig`). `OrphanInv` says that as long as no
realm was abandoned or came early, one that boots or connects is on its way to a
command that will wait for it; it needs that a realm does not boot while
an older connection is in the backlog (`Crowded`), for the listener would hand that one
to the command (`ListenerEndsOnlyOnOrphan`). `OkMeansDone` follows for
each step that returns from these and `IInv`.

`WardenDaemonProofs` (any sets of clients, uuids, applications and commands;
assumptions: the special values are distinct from the others, there is a uuid, the
bounds are naturals). `SafeInv` consists of the control of one task (`TaskInv`), who
holds the map and an `Arc` (`WardenInv`) and what `ensure_realm_can_be_deleted`
established (`DestroyInv`): the task that destroys holds the map, so nobody can
obtain a new `Arc`, and who has none cannot change the state. The theorem
`NoDeadlockWithoutAppCommands` rests on `LockInv`, which places the holder of each
mutex between lock and unlock, so that the map, a realm and its client handler are
taken in this order; `LockOrder` derives from it that every set of clients has one
that waits for none of the set.

`ClientConnectionProofs` (any number of clients, calls and faults, all commands; assumption: the commands are among those of
the command-line client and the foreign one, the bounds are naturals). `IInv` says of
every client where its last command is (`InFlight`: on the stream, with the handler,
answered, or gone with the connection) as long as it dropped no call, so that there
is one frame at most (`OneAtATime`); that what is done, being handled and on the
stream is in the order of sending, also after dropped calls (`Ordered`); and that a
handler that reads on has answered what it took (`Answering`). A step concerns one
client (`OthersStay`), so each action has one lemma about the client it belongs to. The
lemma `Protocol` compares the tables of the three programs: what the library expects
is what the daemon answers, for all twelve commands.

`ApplicationSetupProofs` proves the types and the four safety properties of
`ApplicationSetup` (any names, images, vendors, boots and faults; assumptions: signed
images have the annotations and are images, `None` is not one, the bounds are
naturals, and the vendor's data are two entries, as the launcher passes them).
`OnlySignedIsInstalled` needs that the image being unpacked is verified at every step
of an update and that the unpack directory holds nothing else (`SignedInv`).
The lower layer in `RunsMeasured` needs `InstallInv`: the metadata, where readable,
describe `img` unless it is `torn`, which it is from the removal of the old image on, and
the result of `unpack_image` says what is in the directories; `MeasureInv`: what is
measured is what the metadata say; and that an application runs only after `prepare`
(`RunInv`). The upper layer is `DataOfOwner`'s. For the data, keys are sequences of what was
hashed: `KeyTells` shows that equal keys come from the same name, vendor and, with
`HkdfRim`, image; `OwnerKeeps` is the converse. `DataInv` then follows the key from
the keyring to the table and the mount (`KeyInv`), shows that a mounted partition
gets no other table and is not formatted (`MountInv`, after failed setups, too), that
all files carry the key of the file system (`OwnInv`), and that the partition is
formatted only if nothing written back is its owner's or mount failed (`SaveInv`,
`NothingToLose`). `TypeOK` also claims that a mounted partition has the key of its
device. For the image partition that needs `ImageInv`, which is to it what `MountInv`
is to the data: a setup repeated after a failure finds the device's name taken before
it could load another table under the mount. `DeviceInv` says what
`Application.devices` holds at each step of setup.

`WardenStorageProofs` (any realms, applications and sizes, any number of operations,
faults and deaths of the daemon; assumptions: `None` and the marks of unfinished files
are no sizes, realms and applications have different uuids, every application has a home,
the bounds are naturals). What a client
was told is compared with the files all the time and not only when the daemon is up
(`AckInv`): an operation takes back the acknowledgement of what it is about to change,
so that a death at any step loses nothing that is still acknowledged. `LoadInv` carries
it through a loading: each directory is loaded, still to be loaded or `lapsed`, and
what is loaded is what is on disk. `RealmOpInv` and `AppOpInv` say what the operation
under way has written and how far its disk is, `FinishInv` that, unless something is
marked unfinished, every other directory can be loaded. `DataKept` is an action
property: with `AppOpInv`, the step that truncates a disk is taken only if
the sizes differ or the loading could not read them.

`AppManagerProofs` (any finite set of applications, any number of requests and faults;
assumption: the bounds are naturals). `RemFollowsRequest` speaks of replies; `PhaseInv` says what has been joined
and measured at each await of `provision`: nothing is measured before every task is
joined, then the REM is a prefix of the request, and as long as no
application was taken in nothing was measured, which is why a second request after a
failed one starts from an empty REM. `CleanInv` says that `shutdown_all_apps` has cleaned up those
it is done with, or recorded their failure, whatever it met before (`OthersAreCleanedUp`).
`TaskInv` ties the list of devices to the stage of a setup task.

`HandlerProofs` (any number of starts, calls and read errors; assumption: the bounds
are naturals) proves the types, `ResponsesMatch` and that `ApplicationHandler` implements
`HandlerLifecycle`. `PhaseInv` says what the current thread can be doing at each await
of a call: unless it has failed, its channels are empty before the request (`Quiet`), then the
request is in its channel (`Asked`), or the thread has taken it (`Taken`), or the one
response that fits is there (`Answered`, `StillRuns`); a call joins only a thread that
has reaped its process (`Joining`). The threads that later starts replaced keep to
themselves (`ActFrame`), which is why their number does not matter. The refinement
needs the invariant for one step: the handler that becomes idle had a process that
was reaped. `AppManager` takes the steps of `HandlerLifecycle` instead of the
handler's, and this is the theorem that allows it.

`NatManagerProofs` (any realms, devices, lives and faults; assumptions: every realm has a
device, the bounds are naturals) proves the types and `LeavesNothingBehind`. As long as no
two realms shared a device, the entries of the manager's table have different ones
(`Distinct`), so that removing one leaves the others' in place. `CleanInv` says what is up
in each phase as long as no call has failed (`AsBuilt`), and that a device the manager
does not know of came late; `FirstInv` that the first build meets no taps; `FailInv`
follows the cleanup of a first build that failed, with at most one device unknown.

Only model-checked. The liveness properties (`ReturnsUnlessCrossed`,
`ShutdownCompletes`, `EveryCallReturns` of both modules, `ServerStops`,
`ReplacedIsKilled`, `EveryRequestAnswered`): the prover does not support fairness.
`NoCircularWait` is proved without commands on applications, because with them it does
not hold (finding 2). The three violations are counterexamples and nothing to prove.

## 5. Plan

Done: the modules above, their runs, the proofs of section 4. To come, in this order:

1. the vsock server with several realms: the table of waiting senders, and one
   realm's late connection ending the daemon for the others;
2. the arithmetic of application disks (sizes in megabytes to bytes to blocks) and the
   DHCP range, as functions against a reference definition;
3. a composition of `WardenDaemon` with the network at shutdown: commands in flight,
   taps and the joined listeners in one model.
