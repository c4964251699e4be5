------------------------------ MODULE NatManager ------------------------------
(***************************************************************************)
(* The host's network for the realms: NetworkManagerHandler (the bridge,   *)
(* the iptables rules, the DHCP server and one tap per realm), the         *)
(* DaemonBuilder and the Daemon that bring it up and take it down, and the *)
(* client commands that add and remove taps meanwhile, over several lives  *)
(* of the daemon. The client names the tap device of a realm: nothing      *)
(* keeps two realms from using one.                                        *)
(*                                                                         *)
(* network_manager is a mutex: create_nat, shutdown_nat and each of the    *)
(* two operations on a tap run without another in between, and only the    *)
(* death of the daemon, or of a client's task, can cut them short.         *)
(***************************************************************************)
EXTENDS Naturals, FiniteSets

CONSTANTS
    Realms,      \* uuids of realms
    Devices,     \* names of tap devices
    TapDevice,   \* tap_device in the configuration of every realm
    MaxLives,    \* bound on the starts of the daemon
    MaxFaults    \* bound on failing system calls and on kills of the daemon

ASSUME ConstantsAssumption == TapDevice \in [Realms -> Devices] /\ MaxLives \in Nat /\ MaxFaults \in Nat

VARIABLES
    phase,       \* of the daemon's process
    why,         \* the step of build that failed
    bridge,      \* whether the bridge exists in the kernel
    rules,       \* the chains of the three tables: "None", "Chain" (a chain exists and a
                 \* link to one is missing), "Linked" (a rule is missing) or "Full"
    dhcp,        \* whether the DHCP server runs
    kernel,      \* the tap devices that exist in the kernel
    bridged,     \* those that are attached to the bridge
    taps,        \* the keys of NetworkManagerHandler.taps; the value is TapDevice
    broken,      \* the realms on disk that load_realm refuses
    pending,     \* the commands in flight: <<"create" or "destroy", realm>>
    late,        \* history: devices that were created when the network was down already
    shared,      \* history: whether two entries of taps have ever had one device
    lives, faults   \* counters for the bounds

net == <<bridge, rules, dhcp, kernel, bridged, taps>>
vars == <<phase, why, net, broken, pending, late, shared, lives, faults>>

Tables == {"nat", "filter", "mangle"}
NoRules == [t \in Tables |-> "None"]
AllRules == [t \in Tables |-> "Full"]

(* prepare_routing and cleanup_routing go through the tables in this order. *)
Before(t, u) == <<t, u>> \in {<<"nat", "filter">>, <<"nat", "mangle">>, <<"filter", "mangle">>}

Init ==
    /\ phase = "Off" /\ why = "None" /\ bridge = FALSE /\ rules = NoRules /\ dhcp = FALSE
    /\ kernel = {} /\ bridged = {} /\ taps = {} /\ broken \in SUBSET Realms /\ pending = {}
    /\ late = {} /\ shared = FALSE /\ lives = 0 /\ faults = 0

Fault == faults < MaxFaults /\ faults' = faults + 1
-------------------------------------------------------------------------------
(* Bringing the network up                                                  *)

(* DaemonBuilder::build, and the bridge of create_nat: one that exists      *)
(* already is an error, and one that gets no address is left.               *)
create_bridge ==
    /\ phase = "Off" /\ lives < MaxLives /\ lives' = lives + 1 /\ taps' = {}
    /\ \/ ~bridge /\ bridge' = TRUE /\ phase' = "Routing" /\ why' = "None" /\ UNCHANGED faults
       \/ bridge /\ phase' = "BuildFailed" /\ why' = "bridge" /\ UNCHANGED <<bridge, faults>>
       \/ ~bridge /\ Fault /\ bridge' \in BOOLEAN /\ phase' = "BuildFailed" /\ why' = "bridge"
    /\ UNCHANGED <<rules, dhcp, kernel, bridged, broken, pending, late, shared>>

(* The chain of the tables nat and mangle is made if there is none, linked  *)
(* and filled, and what exists already is replaced; the five chains of the  *)
(* table filter must be new. works: without a failing call the rules are    *)
(* complete; left: what a failure leaves, the link or a rule that was being *)
(* replaced missing.                                                        *)
nat_insert(state) == [works |-> TRUE, left |-> {state, "Chain", "Linked"}]
filter_insert(state) == IF state = "None" THEN [works |-> TRUE, left |-> {"None", "Chain", "Linked"}]
                        ELSE [works |-> FALSE, left |-> {state}]
mangle_insert(state) == [works |-> TRUE, left |-> {state, "Chain", "Linked"}]
insert_ip_table_rules ==
    [nat |-> nat_insert(rules["nat"]), filter |-> filter_insert(rules["filter"]), mangle |-> mangle_insert(rules["mangle"])]

(* The tables in order: all of them, or up to the first that fails. *)
AllTables(result, done) ==
    /\ \A t \in Tables : result[t].works
    /\ rules' = [t \in Tables |-> done] /\ UNCHANGED faults

UpToFailure(result, done) ==
    \E bad \in Tables : \E left \in result[bad].left :
       /\ \A t \in Tables : Before(t, bad) => result[t].works
       /\ rules' = [t \in Tables |-> IF Before(t, bad) THEN done ELSE IF t = bad THEN left ELSE rules[t]]
       /\ IF result[bad].works THEN Fault ELSE UNCHANGED faults

prepare_routing ==
    /\ phase = "Routing"
    /\ \/ AllTables(insert_ip_table_rules, "Full") /\ phase' = "Dhcp" /\ UNCHANGED why
       \/ UpToFailure(insert_ip_table_rules, "Full") /\ phase' = "RoutingFailed" /\ why' = "routing"
    /\ UNCHANGED <<bridge, dhcp, kernel, bridged, taps, broken, pending, late, shared, lives>>

start_dhcp ==
    /\ phase = "Dhcp"
    /\ \/ phase' = "Load" /\ dhcp' = TRUE /\ UNCHANGED <<why, faults>>
       \/ Fault /\ phase' = "DhcpFailed" /\ why' = "dhcp" /\ UNCHANGED dhcp
    /\ UNCHANGED <<bridge, rules, kernel, bridged, taps, broken, pending, late, shared, lives>>

(* A device is made, or found if there is one of that name, and attached;   *)
(* when that fails it stays, and nobody knows of it.                        *)
CreateTap(r) ==
    \/ /\ kernel' = kernel \cup {TapDevice[r]} /\ UNCHANGED faults
       /\ \/ /\ bridge /\ bridged' = bridged \cup {TapDevice[r]} /\ taps' = taps \cup {r}
             /\ shared' = (shared \/ \E s \in taps \ {r} : TapDevice[s] = TapDevice[r])
          \/ ~bridge /\ UNCHANGED <<bridged, taps, shared>>
    \/ Fault /\ kernel' \in {kernel, kernel \cup {TapDevice[r]}} /\ UNCHANGED <<bridged, taps, shared>>

(* create_warden loads the realms, each with its tap; the builder cleans up *)
(* when that or the Unix socket fails.                                      *)
load_realm(r) ==
    /\ phase = "Load" /\ r \notin taps \cup broken /\ CreateTap(r)
    /\ IF r \in taps' THEN UNCHANGED <<phase, why>> ELSE phase' = "Taps" /\ why' = "load"
    /\ UNCHANGED <<bridge, rules, dhcp, broken, pending, late, lives>>

build_daemon ==
    /\ phase = "Load"
    /\ \/ broken = {} /\ phase' = "Up" /\ UNCHANGED <<why, faults>>
       \/ /\ (broken # {} /\ UNCHANGED faults) \/ Fault
          /\ phase' = "Taps" /\ why' = "load"
    /\ UNCHANGED <<net, broken, pending, late, shared, lives>>
-------------------------------------------------------------------------------
(* Client commands, whose tasks go on while the daemon shuts down           *)

client_command(r) ==
    /\ phase = "Up" /\ \A p \in pending : p[2] # r
    /\ \/ r \in taps /\ pending' = pending \cup {<<"destroy", r>>}
       \/ r \notin taps \cup broken /\ pending' = pending \cup {<<"create", r>>}
    /\ UNCHANGED <<phase, why, net, broken, late, shared, lives, faults>>

(* An application of the realm is updated to sizes that cannot be loaded,   *)
(* or refused when its directory exists already; or updated to sizes that   *)
(* can be.                                                                  *)
store_application(r) ==
    /\ phase = "Up" /\ r \in taps /\ \A p \in pending : p[2] # r
    /\ broken' \in {broken \cup {r}, broken \ {r}}
    /\ UNCHANGED <<phase, why, net, pending, late, shared, lives, faults>>

(* The network manager's mutex is free. *)
Unlocked == phase \in {"Up", "Cancelled", "Joining"}

(* A realm whose tap fails keeps its directory, with no configuration.      *)
create_tap_device_for_realm(r) ==
    /\ Unlocked /\ <<"create", r>> \in pending /\ CreateTap(r)
    /\ pending' = pending \ {<<"create", r>>}
    /\ broken' = IF r \in taps' THEN broken ELSE broken \cup {r}
    /\ late' = IF bridge THEN late ELSE late \cup {TapDevice[r]}
    /\ UNCHANGED <<phase, why, bridge, rules, dhcp, lives>>

(* Mutant: the tap is forgotten only by the shutdown of the network. *)
ShutdownTap_remembers(r) ==
    /\ r \in taps /\ TapDevice[r] \in kernel
    /\ kernel' = kernel \ {TapDevice[r]} /\ bridged' = bridged \ {TapDevice[r]}
    /\ taps' = (IF phase = "Taps" THEN taps \ {r} ELSE taps) /\ UNCHANGED faults

(* The tap is forgotten, detached and deleted. *)
ShutdownTap(r) ==
    /\ r \in taps /\ TapDevice[r] \in kernel /\ taps' = taps \ {r}
    /\ kernel' = kernel \ {TapDevice[r]} /\ bridged' = bridged \ {TapDevice[r]} /\ UNCHANGED faults

(* A device that is gone already cannot be detached, and a failure leaves   *)
(* one in the kernel; the tap was forgotten before.                         *)
ShutdownTapFails(r) ==
    /\ r \in taps /\ taps' = taps \ {r}
    /\ \/ TapDevice[r] \notin kernel /\ UNCHANGED <<bridged, faults>>
       \/ Fault /\ bridged' \in {bridged, bridged \ {TapDevice[r]}}
    /\ UNCHANGED kernel

(* The directory of the realm is removed if its tap is.                     *)
shutdown_tap_device_for_realm(r) ==
    /\ Unlocked /\ <<"destroy", r>> \in pending
    /\ \/ ShutdownTap(r) /\ broken' = broken \ {r}
       \/ ShutdownTapFails(r) /\ UNCHANGED broken
       \/ r \notin taps /\ UNCHANGED <<kernel, bridged, taps, broken, faults>>
    /\ pending' = pending \ {<<"destroy", r>>}
    /\ UNCHANGED <<phase, why, bridge, rules, dhcp, late, shared, lives>>
-------------------------------------------------------------------------------
(* Taking the network down                                                  *)

(* Daemon::run: a signal or the end of the vsock listener cancels the token *)
(* and locks the network manager when it can.                               *)
cancel ==
    /\ \/ phase = "Up" /\ phase' = "Cancelled"
       \/ phase = "Cancelled" /\ phase' = "Taps"
    /\ UNCHANGED <<why, net, broken, pending, late, shared, lives, faults>>

(* What the commands that are cut off leave on disk may be unloadable.      *)
CutOff == pending' = {} /\ broken' \in SUBSET Realms /\ broken \subseteq broken'

(* accept fails on the Unix socket: listen returns and aborts the clients'  *)
(* tasks, the one that has the mutex between the creation of a tap and its  *)
(* registration, or between its removal from taps and its deletion.         *)
usock_fails ==
    /\ phase = "Up" /\ Fault /\ phase' = "Cancelled" /\ CutOff
    /\ \/ UNCHANGED <<kernel, bridged, taps>>
       \/ \E r \in Realms :
             /\ <<"create", r>> \in pending /\ kernel' = kernel \cup {TapDevice[r]}
             /\ bridged' \in {bridged, bridged \cup {TapDevice[r]}} /\ UNCHANGED taps
       \/ \E r \in taps :
             /\ <<"destroy", r>> \in pending /\ taps' = taps \ {r}
             /\ bridged' \in {bridged, bridged \ {TapDevice[r]}} /\ UNCHANGED kernel
    /\ UNCHANGED <<why, bridge, rules, dhcp, late, shared, lives>>

(* shutdown_nat: shutdown_all_taps, up to the first that fails ...          *)
shutdown_all_taps ==
    /\ phase = "Taps"
    /\ \/ taps = {} /\ phase' = "StopDhcp" /\ UNCHANGED <<kernel, bridged, taps, faults>>
       \/ \E r \in taps : ShutdownTap(r) /\ UNCHANGED phase
       \/ \E r \in taps : ShutdownTapFails(r) /\ phase' = "StopDhcp"
    /\ UNCHANGED <<why, bridge, rules, dhcp, broken, pending, late, shared, lives>>

(* ... the DHCP server ...                                                  *)
stop_dhcp ==
    /\ phase = "StopDhcp" /\ phase' = "DelBridge"
    /\ (dhcp' = FALSE /\ UNCHANGED faults) \/ (Fault /\ UNCHANGED dhcp)
    /\ UNCHANGED <<why, bridge, rules, kernel, bridged, taps, broken, pending, late, shared, lives>>

(* ... the bridge, which setup_routing and handle_dhcp_serve_start delete   *)
(* as well, the first without and the second before the rules, and return   *)
(* if that fails ...                                                        *)
delete_bridge ==
    /\ phase \in {"RoutingFailed", "DhcpFailed", "DelBridge"}
    /\ \/ /\ bridge' = FALSE /\ bridged' = {} /\ UNCHANGED faults
          /\ phase' = IF phase = "RoutingFailed" THEN "BuildFailed" ELSE "Unroute"
       \/ /\ Fault /\ UNCHANGED <<bridge, bridged>>
          /\ phase' = IF phase = "DelBridge" THEN "Unroute" ELSE "BuildFailed"
    /\ UNCHANGED <<why, rules, dhcp, kernel, taps, broken, pending, late, shared, lives>>

(* The chains are flushed, unlinked and deleted: a chain that does not      *)
(* exist cannot be flushed, nor a missing link be deleted.                  *)
Linked(state) == state \in {"Linked", "Full"}
nat_remove(state) == [works |-> Linked(state), left |-> IF Linked(state) THEN {state, "Linked", "Chain"} ELSE {state}]
filter_remove(state) == [works |-> Linked(state), left |-> IF Linked(state) THEN {state, "Linked", "Chain"} ELSE {state}]
mangle_remove(state) == [works |-> Linked(state), left |-> IF Linked(state) THEN {state, "Linked", "Chain"} ELSE {state}]
remove_ip_table_rules ==
    [nat |-> nat_remove(rules["nat"]), filter |-> filter_remove(rules["filter"]), mangle |-> mangle_remove(rules["mangle"])]

(* Mutant: the table filter is not cleaned up. *)
cleanup_routing_but_filter ==
    /\ phase = "Unroute" /\ phase' = (IF why = "None" THEN "Joining" ELSE "BuildFailed")
    /\ rules' = [NoRules EXCEPT !["filter"] = rules["filter"]]
    /\ UNCHANGED <<why, bridge, dhcp, kernel, bridged, taps, broken, pending, late, shared, lives, faults>>

(* ... and cleanup_routing empties the tables; an error is logged.          *)
cleanup_routing ==
    /\ phase = "Unroute" /\ phase' = (IF why = "None" THEN "Joining" ELSE "BuildFailed")
    /\ AllTables(remove_ip_table_rules, "None") \/ UpToFailure(remove_ip_table_rules, "None")
    /\ UNCHANGED <<why, bridge, dhcp, kernel, bridged, taps, broken, pending, late, shared, lives>>

(* run joins the listeners, which join the clients' tasks; build returns    *)
(* its error.                                                               *)
exit ==
    /\ (phase = "Joining" /\ pending = {}) \/ phase = "BuildFailed"
    /\ phase' = "Off"
    /\ UNCHANGED <<why, net, broken, pending, late, shared, lives, faults>>

(* The daemon is killed: its DHCP server goes on, and what is in the kernel *)
(* stays.                                                                   *)
kill ==
    /\ phase # "Off" /\ Fault /\ phase' = "Off" /\ CutOff
    /\ UNCHANGED <<why, net, late, shared, lives>>

Next ==
    \/ create_bridge \/ prepare_routing \/ start_dhcp \/ build_daemon \/ cancel \/ usock_fails
    \/ shutdown_all_taps \/ stop_dhcp \/ delete_bridge \/ cleanup_routing \/ exit \/ kill
    \/ \E r \in Realms : load_realm(r) \/ client_command(r) \/ store_application(r)
                         \/ create_tap_device_for_realm(r) \/ shutdown_tap_device_for_realm(r)

Spec == Init /\ [][Next]_vars
-------------------------------------------------------------------------------
(* Types, and that every tap the manager knows of exists, unless two realms *)
(* have shared one.                                                         *)
TypeOK ==
    /\ phase \in {"Off", "Routing", "RoutingFailed", "Dhcp", "DhcpFailed", "Load", "Up", "Cancelled", "Taps",
                  "StopDhcp", "DelBridge", "Unroute", "Joining", "BuildFailed"}
    /\ why \in {"None", "bridge", "routing", "dhcp", "load"}
    /\ bridge \in BOOLEAN /\ rules \in [Tables -> {"None", "Chain", "Linked", "Full"}] /\ dhcp \in BOOLEAN
    /\ bridged \subseteq kernel /\ kernel \cup late \subseteq Devices
    /\ taps \cup broken \subseteq Realms /\ shared \in BOOLEAN
    /\ ~shared => \A r \in taps : TapDevice[r] \in kernel
    /\ pending \subseteq {"create", "destroy"} \X Realms
    /\ lives \in 0..MaxLives /\ faults \in 0..MaxFaults

(* Without a failed call and without a kill, a daemon that has stopped, on  *)
(* request in the midst of whatever commands or because its build failed,   *)
(* has taken down the bridge, the rules and the DHCP server, so that the    *)
(* next build gets through create_nat, and fails only for a realm that      *)
(* cannot be loaded. It leaves no device but those of creations that came   *)
(* after the network had been taken down; and, once two realms have shared  *)
(* a device, those behind the one that shutdown_all_taps no longer finds.   *)
(* A first build that one failed call ends at the DHCP server, at a realm   *)
(* or at the Unix socket takes down all it had set up, but for the device   *)
(* that could not be attached.                                              *)
LeavesNothingBehind ==
    /\ phase \in {"Off", "BuildFailed"} /\ faults = 0 =>
            /\ ~bridge /\ ~dhcp /\ rules = NoRules /\ (shared \/ kernel \subseteq late)
            /\ phase = "BuildFailed" => why = "load" /\ broken # {}
    /\ phase = "BuildFailed" /\ faults = 1 /\ lives = 1 /\ why \in {"dhcp", "load"} /\ broken = {} =>
            ~bridge /\ ~dhcp /\ rules = NoRules /\ (shared \/ Cardinality(kernel) <= 1)
===============================================================================
