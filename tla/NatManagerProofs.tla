--------------------------- MODULE NatManagerProofs ---------------------------
(***************************************************************************)
(* Theorems about NatManager, for any realms with any tap devices and any  *)
(* number of lives and faults: what a stop, or a build that fails, leaves  *)
(* behind.                                                                 *)
(***************************************************************************)
EXTENDS NatManager, FiniteSetTheorems, TLAPS

(* What is up in each phase, as long as nothing has failed. *)
BridgeUp == {"Routing", "Dhcp", "DhcpFailed", "Load", "Up", "Cancelled", "Taps", "StopDhcp", "DelBridge"}
RulesUp == {"Dhcp", "DhcpFailed", "Load", "Up", "Cancelled", "Taps", "StopDhcp", "DelBridge", "Unroute"}
DhcpUp == {"Load", "Up", "Cancelled", "Taps", "StopDhcp"}
AsBuilt ==
    /\ bridge <=> phase \in BridgeUp
    /\ dhcp <=> phase \in DhcpUp
    /\ phase \in RulesUp => rules = AllRules
    /\ phase \notin RulesUp => rules = NoRules

Known == {TapDevice[r] : r \in taps}

(* Without a fault the phases are those of a start and a stop, or of a      *)
(* build that a realm has ended, and a device that the manager does not     *)
(* know of came late.                                                       *)
CleanInv ==
    faults = 0 =>
        /\ AsBuilt /\ phase \notin {"RoutingFailed", "DhcpFailed"} /\ why \in {"None", "load"}
        /\ why = "load" => phase \in {"Taps", "StopDhcp", "DelBridge", "Unroute", "BuildFailed", "Off"}
        /\ why = "load" /\ phase # "Off" => broken # {}
        /\ phase = "BuildFailed" => why = "load"
        /\ ~shared => /\ kernel \subseteq late \cup Known
                      /\ phase \notin {"Load", "Up", "Cancelled", "Taps"} => taps = {}

(* The first build meets no devices, and a build that goes on has no reason  *)
(* to fail.                                                                  *)
FirstInv ==
    /\ lives = 0 => phase = "Off" /\ faults = 0 /\ late = {}
    /\ lives = 1 /\ phase \in {"Routing", "Dhcp", "Load"} => faults = 0 /\ late = {}
    /\ phase \in {"Routing", "Dhcp", "Load", "Up", "Cancelled", "Joining"} => why = "None"

(* If it fails at the DHCP server or later, and nothing else fails, what it *)
(* had set up is taken down in order, and one device at most is unknown.    *)
FailInv ==
    faults = 1 /\ lives = 1 /\ why \in {"dhcp", "load"} /\ phase # "Off" /\ broken = {} =>
        /\ AsBuilt /\ phase \in {"DhcpFailed", "Taps", "StopDhcp", "DelBridge", "Unroute", "BuildFailed"}
        /\ ~shared => /\ \A d, e \in kernel \ Known : d = e
                      /\ phase # "Taps" => taps = {}

(* Two entries have one device only if that was recorded. *)
Distinct == ~shared => \A r, s \in taps : TapDevice[r] = TapDevice[s] => r = s

NatInv == TypeOK /\ Distinct /\ CleanInv /\ FirstInv /\ FailInv
-------------------------------------------------------------------------------
States == {"None", "Chain", "Linked", "Full"}

LEMMA Counting ==
    /\ \A n \in Nat : n + 1 # 0 /\ (n + 1 = 1 <=> n = 0) /\ n + 1 \in Nat
    /\ \A m, n \in Nat : m \in 0..n /\ m < n => m + 1 \in 0..n
    /\ \A m, n \in Nat : m \in 0..n => m \in Nat
    /\ 0 # 1
  OBVIOUS

(* With no chains every table can be filled, with all rules every table can *)
(* be emptied.                                                              *)
LEMMA TableResults ==
    ASSUME rules \in [Tables -> States]
    PROVE  /\ \A t \in Tables : insert_ip_table_rules[t].left \subseteq States
           /\ \A t \in Tables : remove_ip_table_rules[t].left \subseteq States
           /\ rules = NoRules => \A t \in Tables : insert_ip_table_rules[t].works
           /\ rules = AllRules => \A t \in Tables : remove_ip_table_rules[t].works
  <1>1. /\ insert_ip_table_rules["nat"] = nat_insert(rules["nat"])
        /\ insert_ip_table_rules["filter"] = filter_insert(rules["filter"])
        /\ insert_ip_table_rules["mangle"] = mangle_insert(rules["mangle"])
      BY Zenon DEF insert_ip_table_rules
  <1>2. /\ remove_ip_table_rules["nat"] = nat_remove(rules["nat"])
        /\ remove_ip_table_rules["filter"] = filter_remove(rules["filter"])
        /\ remove_ip_table_rules["mangle"] = mangle_remove(rules["mangle"])
      BY Zenon DEF remove_ip_table_rules
  <1>3. \A x \in States :
           /\ nat_insert(x).left \subseteq States /\ filter_insert(x).left \subseteq States /\ mangle_insert(x).left \subseteq States
           /\ nat_remove(x).left \subseteq States /\ filter_remove(x).left \subseteq States /\ mangle_remove(x).left \subseteq States
      BY Zenon DEF States, nat_insert, filter_insert, mangle_insert, nat_remove, filter_remove, mangle_remove
  <1>4. nat_insert("None").works /\ filter_insert("None").works /\ mangle_insert("None").works
      BY Zenon DEF nat_insert, filter_insert, mangle_insert
  <1>5. nat_remove("Full").works /\ filter_remove("Full").works /\ mangle_remove("Full").works
      BY Zenon DEF nat_remove, filter_remove, mangle_remove, Linked
  <1>6. "nat" \in Tables /\ "filter" \in Tables /\ "mangle" \in Tables /\ \A t \in Tables : t = "nat" \/ t = "filter" \/ t = "mangle"
      BY Zenon DEF Tables
  <1>7. rules["nat"] \in States /\ rules["filter"] \in States /\ rules["mangle"] \in States
      BY <1>6, Zenon
  <1>8. /\ rules = NoRules => rules["nat"] = "None" /\ rules["filter"] = "None" /\ rules["mangle"] = "None"
        /\ rules = AllRules => rules["nat"] = "Full" /\ rules["filter"] = "Full" /\ rules["mangle"] = "Full"
      BY <1>6, Zenon DEF NoRules, AllRules
  <1> QED
      BY <1>1, <1>2, <1>3, <1>4, <1>5, <1>6, <1>7, <1>8

(* The tables change together, or a call has failed. *)
LEMMA TablesStep ==
    ASSUME TypeOK, NEW result, NEW done \in States,
           \A t \in Tables : result[t].left \subseteq States,
           AllTables(result, done) \/ UpToFailure(result, done)
    PROVE  /\ rules' \in [Tables -> States]
           /\ (\A t \in Tables : result[t].works) /\ UpToFailure(result, done) => Fault
           /\ UNCHANGED faults \/ Fault
  <1>0. rules \in [Tables -> States]
      BY Zenon DEF TypeOK, States
  <1>1. CASE AllTables(result, done) /\ ~UpToFailure(result, done)
      BY <1>1, Zenon DEF AllTables
  <1>2. CASE UpToFailure(result, done)
    <2>1. PICK bad \in Tables : \E left \in result[bad].left :
             /\ rules' = [t \in Tables |-> IF Before(t, bad) THEN done ELSE IF t = bad THEN left ELSE rules[t]]
             /\ IF result[bad].works THEN Fault ELSE UNCHANGED faults
        BY <1>2, Zenon DEF UpToFailure
    <2>2. PICK left \in result[bad].left :
             /\ rules' = [t \in Tables |-> IF Before(t, bad) THEN done ELSE IF t = bad THEN left ELSE rules[t]]
             /\ IF result[bad].works THEN Fault ELSE UNCHANGED faults
        BY <2>1, Zenon
    <2>3. left \in States
        BY <2>2, Zenon
    <2>4. \A t \in Tables : (IF Before(t, bad) THEN done ELSE IF t = bad THEN left ELSE rules[t]) \in States
        BY <1>0, <2>3, Zenon
    <2>5. rules' \in [Tables -> States]
        BY <2>2, <2>4, Zenon
    <2>6. QED
        BY <2>2, <2>5, Zenon
  <1>3. QED
      BY <1>1, <1>2, Zenon

LEMMA InitNat == Init => NatInv
  <1> SUFFICES ASSUME Init PROVE NatInv
      BY Zenon
  <1>1. TypeOK
    <2>1. 0 \in 0..MaxLives /\ 0 \in 0..MaxFaults
        BY ConstantsAssumption
    <2>2. NoRules \in [Tables -> {"None", "Chain", "Linked", "Full"}]
        BY Zenon DEF NoRules
    <2>3. QED
        BY <2>1, <2>2, Zenon DEF Init, TypeOK
  <1>2. AsBuilt
      BY Zenon DEF Init, AsBuilt, BridgeUp, DhcpUp, RulesUp
  <1>3. CleanInv /\ FirstInv /\ FailInv
      BY <1>2, Counting, Zenon DEF Init, CleanInv, FirstInv, FailInv, Known
  <1>4. Distinct
      BY Zenon DEF Init, Distinct
  <1>5. QED
      BY <1>1, <1>3, <1>4, Zenon DEF NatInv
-------------------------------------------------------------------------------
(* Types *)

LEMMA FaultTypes ==
    ASSUME TypeOK
    PROVE  /\ Fault => faults' \in 0..MaxFaults /\ faults' # 0 /\ (faults' = 1 => faults = 0)
           /\ lives < MaxLives => lives + 1 \in 0..MaxLives /\ lives + 1 # 0 /\ (lives + 1 = 1 => lives = 0)
           /\ faults \in Nat /\ lives \in Nat
  BY ConstantsAssumption DEF TypeOK, Fault

(* The clauses about the devices. *)
TapTypes ==
    /\ bridged \subseteq kernel /\ kernel \subseteq Devices /\ taps \subseteq Realms /\ shared \in BOOLEAN
    /\ ~shared => \A r \in taps : TapDevice[r] \in kernel
    /\ Distinct

LEMMA TapTypesStep ==
    ASSUME TypeOK, Distinct, NEW r \in Realms,
           CreateTap(r) \/ ((ShutdownTap(r) \/ ShutdownTapFails(r)) /\ UNCHANGED shared)
    PROVE  TapTypes' /\ faults' \in 0..MaxFaults
  <1>1. faults \in 0..MaxFaults /\ (Fault => faults' \in 0..MaxFaults)
      BY FaultTypes, Zenon DEF TypeOK
  <1>2. TapTypes /\ TapDevice[r] \in Devices
      BY ConstantsAssumption, Zenon DEF TypeOK, TapTypes
  <1>3. CASE CreateTap(r)
      BY <1>1, <1>2, <1>3, Zenon DEF CreateTap, TapTypes, Distinct
  <1>4. CASE ShutdownTap(r) /\ UNCHANGED shared
      BY <1>1, <1>2, <1>4, Zenon DEF ShutdownTap, TapTypes, Distinct
  <1>5. CASE ShutdownTapFails(r) /\ UNCHANGED shared
      BY <1>1, <1>2, <1>5, Zenon DEF ShutdownTapFails, TapTypes, Distinct
  <1>6. QED
      BY <1>3, <1>4, <1>5, Zenon

LEMMA UnchangedTaps ==
    ASSUME TypeOK, Distinct, UNCHANGED <<kernel, bridged, taps, shared>>
    PROVE  TapTypes'
  BY Zenon DEF TypeOK, TapTypes, Distinct

(* A step on the tap of one realm. *)
TapStep(r) ==
    \/ load_realm(r) \/ client_command(r) \/ store_application(r)
    \/ create_tap_device_for_realm(r) \/ shutdown_tap_device_for_realm(r)

LEMMA TapStepTypes ==
    ASSUME TypeOK, Distinct, NEW r \in Realms, TapStep(r)
    PROVE  TypeOK' /\ Distinct'
  <1>1. CASE load_realm(r)
    <2>1. TapTypes' /\ faults' \in 0..MaxFaults
        BY <1>1, TapTypesStep, Zenon DEF load_realm
    <2>2. QED
        BY <1>1, <2>1, Zenon DEF load_realm, TypeOK, TapTypes
  <1>2. CASE client_command(r)
    <2>1. TapTypes'
        BY <1>2, UnchangedTaps, Zenon DEF client_command, net
    <2>2. pending' \subseteq {"create", "destroy"} \X Realms
        BY <1>2 DEF client_command, TypeOK
    <2>3. QED
        BY <1>2, <2>1, <2>2, Zenon DEF client_command, TypeOK, TapTypes, net
  <1>3. CASE store_application(r)
    <2>1. TapTypes'
        BY <1>3, UnchangedTaps, Zenon DEF store_application, net
    <2>2. QED
        BY <1>3, <2>1, Zenon DEF store_application, TypeOK, TapTypes, net
  <1>4. CASE create_tap_device_for_realm(r)
    <2>1. TapTypes' /\ faults' \in 0..MaxFaults
        BY <1>4, TapTypesStep, Zenon DEF create_tap_device_for_realm
    <2>2. late' \subseteq Devices /\ broken' \subseteq Realms
        BY <1>4, ConstantsAssumption, Zenon DEF create_tap_device_for_realm, TypeOK
    <2>3. QED
        BY <1>4, <2>1, <2>2, Zenon DEF create_tap_device_for_realm, TypeOK, TapTypes
  <1>5. CASE shutdown_tap_device_for_realm(r)
    <2>1. TapTypes' /\ faults' \in 0..MaxFaults
      <3>1. CASE UNCHANGED <<kernel, bridged, taps, faults>>
          BY <1>5, <3>1, UnchangedTaps, Zenon DEF TypeOK, shutdown_tap_device_for_realm
      <3>2. QED
          BY <1>5, <3>1, TapTypesStep, Zenon DEF shutdown_tap_device_for_realm
    <2>2. broken' \subseteq Realms
        BY <1>5, Zenon DEF shutdown_tap_device_for_realm, TypeOK
    <2>3. QED
        BY <1>5, <2>1, <2>2, Zenon DEF shutdown_tap_device_for_realm, TypeOK, TapTypes
  <1>6. QED
      BY <1>1, <1>2, <1>3, <1>4, <1>5, Zenon DEF TapStep

LEMMA BuildTypes ==
    ASSUME TypeOK, Distinct, create_bridge \/ prepare_routing \/ start_dhcp \/ build_daemon
    PROVE  TypeOK' /\ Distinct'
  <1> USE FaultTypes DEF net
  <1>1. CASE create_bridge
      BY <1>1, Zenon DEF create_bridge, TypeOK, Distinct
  <1>2. CASE prepare_routing
    <2>1. rules' \in [Tables -> States] /\ (UNCHANGED faults \/ Fault)
        BY <1>2, TableResults, TablesStep, Zenon DEF prepare_routing, TypeOK, States
    <2>2. QED
        BY <1>2, <2>1, Zenon DEF prepare_routing, TypeOK, States, Distinct
  <1>3. CASE start_dhcp
      BY <1>3, Zenon DEF start_dhcp, TypeOK, Distinct
  <1>4. CASE build_daemon
      BY <1>4, Zenon DEF build_daemon, TypeOK, Distinct
  <1>5. QED
      BY <1>1, <1>2, <1>3, <1>4, Zenon

LEMMA StopTypes ==
    ASSUME TypeOK, Distinct, cancel \/ usock_fails \/ shutdown_all_taps \/ stop_dhcp \/ delete_bridge \/ cleanup_routing \/ exit \/ kill
    PROVE  TypeOK' /\ Distinct'
  <1> USE FaultTypes DEF net
  <1>1. CASE cancel
      BY <1>1, Zenon DEF cancel, TypeOK, Distinct
  <1>2. CASE usock_fails
    <2>1. bridged \subseteq kernel /\ kernel \subseteq Devices /\ \A r \in Realms : TapDevice[r] \in Devices
        BY ConstantsAssumption, Zenon DEF TypeOK
    <2>2. bridged' \subseteq kernel' /\ kernel' \subseteq Devices
        BY <1>2, <2>1, Zenon DEF usock_fails
    <2>3. /\ taps' \subseteq taps /\ kernel \subseteq kernel' /\ UNCHANGED shared
        BY <1>2, Zenon DEF usock_fails
    <2>4. pending' = {} /\ broken' \subseteq Realms /\ faults' \in 0..MaxFaults
        BY <1>2, Zenon DEF usock_fails, CutOff
    <2>5. ~shared' => \A r \in taps' : TapDevice[r] \in kernel'
        BY <2>3, Zenon DEF TypeOK
    <2>6. Distinct'
        BY <2>3, Zenon DEF Distinct
    <2>7. /\ phase' = "Cancelled" /\ taps' \subseteq Realms
          /\ UNCHANGED <<why, bridge, rules, dhcp, late, shared, lives>>
        BY <1>2, <2>3, Zenon DEF usock_fails, TypeOK
    <2>8. QED
        BY <2>2, <2>4, <2>5, <2>6, <2>7, Zenon DEF TypeOK
  <1>3. CASE shutdown_all_taps
    <2>1. TapTypes' /\ faults' \in 0..MaxFaults
      <3>1. CASE UNCHANGED <<kernel, bridged, taps, faults>>
          BY <1>3, <3>1, UnchangedTaps, Zenon DEF TypeOK, shutdown_all_taps
      <3>2. CASE \E r \in Realms : ShutdownTap(r) \/ ShutdownTapFails(r)
          BY <1>3, <3>2, TapTypesStep, Zenon DEF shutdown_all_taps
      <3>3. QED
          BY <1>3, <3>1, <3>2, Zenon DEF shutdown_all_taps, TypeOK
    <2>2. QED
        BY <1>3, <2>1, Zenon DEF shutdown_all_taps, TypeOK, TapTypes
  <1>4. CASE stop_dhcp
      BY <1>4, Zenon DEF stop_dhcp, TypeOK, Distinct
  <1>5. CASE delete_bridge
      BY <1>5, Zenon DEF delete_bridge, TypeOK, Distinct
  <1>6. CASE cleanup_routing
    <2>1. rules' \in [Tables -> States] /\ (UNCHANGED faults \/ Fault)
        BY <1>6, TableResults, TablesStep, Zenon DEF cleanup_routing, TypeOK, States
    <2>2. QED
        BY <1>6, <2>1, Zenon DEF cleanup_routing, TypeOK, States, Distinct
  <1>7. CASE exit
      BY <1>7, Zenon DEF exit, TypeOK, Distinct
  <1>8. CASE kill
      BY <1>8, Zenon DEF kill, TypeOK, Distinct, CutOff
  <1>9. QED
      BY <1>1, <1>2, <1>3, <1>4, <1>5, <1>6, <1>7, <1>8, Zenon
-------------------------------------------------------------------------------
(* The invariant *)

LEMMA KnownStep ==
    ASSUME NEW r
    PROVE  /\ taps' = taps => Known' = Known
           /\ taps' = taps \cup {r} => Known \subseteq Known' /\ TapDevice[r] \in Known'
           /\ taps' = taps \ {r} => Known \ {TapDevice[r]} \subseteq Known'
           /\ taps = {} => Known = {}
  BY Zenon DEF Known

LEMMA BuildStep ==
    ASSUME NatInv, create_bridge \/ prepare_routing \/ start_dhcp \/ build_daemon
    PROVE  NatInv'
  <1>0. /\ TypeOK /\ Distinct /\ CleanInv /\ FirstInv /\ FailInv /\ TypeOK' /\ Distinct'
        /\ Fault => faults' # 0 /\ (faults' = 1 => faults = 0)
      BY BuildTypes, FaultTypes, Zenon DEF NatInv
  <1> SUFFICES CleanInv' /\ FirstInv' /\ FailInv'
      BY <1>0, Zenon DEF NatInv
  <1> USE DEF net, AsBuilt, BridgeUp, RulesUp, DhcpUp
  <1>1. CASE create_bridge
    <2>1. lives' # 0 /\ (lives' = 1 => lives = 0) /\ phase = "Off"
        BY <1>0, KnownStep, <1>1, FaultTypes, Zenon DEF create_bridge
    <2>2. CleanInv'
        BY <1>0, KnownStep, <1>1, Zenon DEF create_bridge, CleanInv
    <2>3. FirstInv'
        BY <1>0, KnownStep, <1>1, <2>1, Zenon DEF create_bridge, FirstInv
    <2>4. FailInv'
        BY <1>1, Zenon DEF create_bridge, FailInv
    <2>5. QED
        BY <2>2, <2>3, <2>4, Zenon
  <1>2. CASE prepare_routing
    <2>1. /\ phase = "Routing" /\ UNCHANGED <<bridge, dhcp, kernel, bridged, taps, broken, pending, late, shared, lives>>
          /\ \/ rules' = AllRules /\ phase' = "Dhcp" /\ UNCHANGED <<why, faults>>
             \/ UpToFailure(insert_ip_table_rules, "Full") /\ phase' = "RoutingFailed" /\ why' = "routing"
        BY <1>2, Zenon DEF prepare_routing, AllTables, AllRules
    <2>2. rules = NoRules /\ UpToFailure(insert_ip_table_rules, "Full") => Fault
        BY <1>0, TableResults, TablesStep, Zenon DEF TypeOK, States
    <2>3. CleanInv'
      <3>1. CASE UpToFailure(insert_ip_table_rules, "Full")
        <4>1. faults' = 0 => faults = 0
            BY <1>0, <3>1, TableResults, TablesStep, Zenon DEF TypeOK, States
        <4>2. faults' # 0
            BY <1>0, KnownStep, <2>1, <2>2, <3>1, <4>1, Zenon DEF CleanInv
        <4>3. QED
            BY <4>2, Zenon DEF CleanInv
      <3>2. QED
          BY <1>0, KnownStep, <2>1, <3>1, Zenon DEF CleanInv
    <2>4. FirstInv'
        BY <1>0, KnownStep, <2>1, Zenon DEF FirstInv
    <2>5. FailInv'
        BY <1>0, KnownStep, <2>1, Zenon DEF FailInv
    <2>6. QED
        BY <2>3, <2>4, <2>5, Zenon
  <1>3. CASE start_dhcp
    <2>1. CleanInv'
        BY <1>0, KnownStep, <1>3, Zenon DEF start_dhcp, CleanInv
    <2>2. FirstInv'
        BY <1>0, KnownStep, <1>3, Zenon DEF start_dhcp, FirstInv
    <2>3. FailInv'
        BY <1>0, KnownStep, <1>3, Zenon DEF start_dhcp, FailInv, FirstInv, CleanInv
    <2>4. QED
        BY <2>1, <2>2, <2>3, Zenon
  <1>4. CASE build_daemon
    <2>1. CleanInv'
        BY <1>0, KnownStep, <1>4, Zenon DEF build_daemon, CleanInv
    <2>2. FirstInv'
        BY <1>0, KnownStep, <1>4, Zenon DEF build_daemon, FirstInv
    <2>3. FailInv'
        BY <1>0, KnownStep, <1>4, Zenon DEF build_daemon, FailInv, FirstInv, CleanInv
    <2>4. QED
        BY <2>1, <2>2, <2>3, Zenon
  <1>5. QED
      BY <1>1, <1>2, <1>3, <1>4, Zenon

LEMMA TapStepKeeps ==
    ASSUME NatInv, NEW r \in Realms, TapStep(r)
    PROVE  NatInv'
  <1>0. /\ TypeOK /\ Distinct /\ CleanInv /\ FirstInv /\ FailInv /\ TypeOK' /\ Distinct'
        /\ Fault => faults' # 0 /\ (faults' = 1 => faults = 0)
      BY TapStepTypes, FaultTypes, Zenon DEF NatInv
  <1> SUFFICES CleanInv' /\ FirstInv' /\ FailInv'
      BY <1>0, Zenon DEF NatInv
  <1> USE DEF net, AsBuilt, BridgeUp, RulesUp, DhcpUp
  <1>1. CASE load_realm(r)
    <2>1. CleanInv'
        BY <1>0, KnownStep, <1>1, Zenon DEF load_realm, CreateTap, CleanInv
    <2>2. FirstInv'
        BY <1>0, KnownStep, <1>1, Zenon DEF load_realm, CreateTap, FirstInv, CleanInv
    <2>3. FailInv'
      <3>1. why = "None" /\ UNCHANGED <<lives, broken>> /\ (Fault \/ UNCHANGED faults)
          BY <1>0, <1>1, Zenon DEF load_realm, CreateTap, FirstInv
      <3>2. ASSUME faults' = 1, lives' = 1, why' \in {"dhcp", "load"}, broken' = {}
            PROVE  /\ faults = 0 /\ late = {} /\ AsBuilt /\ UNCHANGED <<bridge, rules, dhcp, shared, taps>>
                   /\ phase = "Load" /\ phase' = "Taps"
                   /\ kernel' \in {kernel, kernel \cup {TapDevice[r]}}
        <4>1. phase = "Load" /\ lives = 1 /\ faults = 0 /\ late = {}
            BY <1>0, <1>1, <3>1, <3>2, Zenon DEF load_realm, FirstInv
        <4>2. AsBuilt /\ bridge
            BY <1>0, <4>1, Zenon DEF CleanInv
        <4>3. QED
            BY <1>1, <3>1, <3>2, <4>1, <4>2, Zenon DEF load_realm, CreateTap
      <3>3. QED
          BY <1>0, KnownStep, <3>2, Zenon DEF FailInv, CleanInv
    <2>4. QED
        BY <2>1, <2>2, <2>3, Zenon
  <1>2. CASE client_command(r)
      BY <1>0, KnownStep, <1>2, Zenon DEF client_command, CleanInv, FirstInv, FailInv
  <1>3. CASE store_application(r)
      BY <1>0, KnownStep, <1>3, Zenon DEF store_application, CleanInv, FirstInv, FailInv
  <1>4. CASE create_tap_device_for_realm(r)
    <2>1. CleanInv'
      <3>1. CASE bridge
          BY <1>0, KnownStep, <1>4, <3>1, Zenon DEF create_tap_device_for_realm, CreateTap, Unlocked, CleanInv
      <3>2. ASSUME ~bridge, faults' = 0 PROVE CleanInv'
        <4>1. /\ kernel' = kernel \cup {TapDevice[r]} /\ late' = late \cup {TapDevice[r]}
              /\ UNCHANGED <<phase, why, bridge, rules, dhcp, taps, shared, faults>> /\ phase \in {"Up", "Cancelled", "Joining"}
              /\ broken \subseteq broken'
            BY <1>0, <1>4, <3>2, Zenon DEF create_tap_device_for_realm, CreateTap, Unlocked
        <4>2. Known' = Known
            BY <4>1, KnownStep, Zenon
        <4>3. why = "None"
            BY <1>0, <4>1, Zenon DEF FirstInv
        <4>4. QED
            BY <1>0, <3>2, <4>1, <4>2, <4>3, Zenon DEF CleanInv
      <3>3. QED
          BY <3>1, <3>2, Zenon DEF CleanInv
    <2>2. FirstInv'
        BY <1>0, KnownStep, <1>4, Zenon DEF create_tap_device_for_realm, Unlocked, CreateTap, ShutdownTap, FirstInv
    <2>3. FailInv'
        BY <1>0, KnownStep, <1>4, Zenon DEF create_tap_device_for_realm, CreateTap, Unlocked, FailInv, FirstInv
    <2>4. QED
        BY <2>1, <2>2, <2>3, Zenon
  <1>5. CASE shutdown_tap_device_for_realm(r)
    <2>1. CleanInv'
        BY <1>0, KnownStep, <1>5, Zenon DEF shutdown_tap_device_for_realm, ShutdownTap, ShutdownTapFails, Unlocked, CleanInv, TypeOK
    <2>2. FirstInv'
        BY <1>0, KnownStep, <1>5, Zenon DEF shutdown_tap_device_for_realm, Unlocked, CreateTap, ShutdownTap, FirstInv
    <2>3. FailInv'
        BY <1>0, KnownStep, <1>5, Zenon DEF shutdown_tap_device_for_realm, ShutdownTap, ShutdownTapFails, Unlocked, FailInv, FirstInv
    <2>4. QED
        BY <2>1, <2>2, <2>3, Zenon
  <1>6. QED
      BY <1>1, <1>2, <1>3, <1>4, <1>5, Zenon DEF TapStep

LEMMA StopStep ==
    ASSUME NatInv, cancel \/ usock_fails \/ shutdown_all_taps \/ stop_dhcp \/ delete_bridge \/ cleanup_routing \/ exit \/ kill
    PROVE  NatInv'
  <1>0. /\ TypeOK /\ Distinct /\ CleanInv /\ FirstInv /\ FailInv /\ TypeOK' /\ Distinct'
        /\ Fault => faults' # 0 /\ (faults' = 1 => faults = 0)
      BY StopTypes, FaultTypes, Zenon DEF NatInv
  <1> SUFFICES CleanInv' /\ FirstInv' /\ FailInv'
      BY <1>0, Zenon DEF NatInv
  <1> USE DEF net, AsBuilt, BridgeUp, RulesUp, DhcpUp
  <1>1. CASE cancel
      BY <1>0, KnownStep, <1>1, Zenon DEF cancel, CleanInv, FirstInv, FailInv
  <1>2. CASE usock_fails
      BY <1>0, KnownStep, <1>2, Zenon DEF usock_fails, CutOff, CleanInv, FirstInv, FailInv
  <1>3. CASE shutdown_all_taps
    <2>1. /\ phase = "Taps" /\ UNCHANGED <<why, bridge, rules, dhcp, broken, late, shared, lives>>
          /\ \/ taps = {} /\ phase' = "StopDhcp" /\ UNCHANGED <<kernel, taps, faults>>
             \/ phase' = "Taps" /\ UNCHANGED faults /\ \E r : kernel' = kernel \ {TapDevice[r]} /\ taps' = taps \ {r}
             \/ (Fault \/ (shared /\ UNCHANGED faults)) /\ phase' = "StopDhcp"
        BY <1>0, KnownStep, <1>3, Zenon DEF shutdown_all_taps, ShutdownTap, ShutdownTapFails, TypeOK
    <2>2. CleanInv'
        BY <1>0, KnownStep, <2>1, Zenon DEF CleanInv
    <2>3. FirstInv'
        BY <1>0, KnownStep, <2>1, Zenon DEF FirstInv
    <2>4. FailInv'
        BY <1>0, KnownStep, <2>1, Zenon DEF FailInv, CleanInv
    <2>5. QED
        BY <2>2, <2>3, <2>4, Zenon
  <1>4. CASE stop_dhcp
    <2>1. CleanInv'
        BY <1>0, KnownStep, <1>4, Zenon DEF stop_dhcp, CleanInv
    <2>2. FirstInv'
        BY <1>0, KnownStep, <1>4, Zenon DEF stop_dhcp, FirstInv
    <2>3. FailInv'
        BY <1>0, KnownStep, <1>4, Zenon DEF stop_dhcp, FailInv, CleanInv
    <2>4. QED
        BY <2>1, <2>2, <2>3, Zenon
  <1>5. CASE delete_bridge
    <2>1. CleanInv'
        BY <1>0, KnownStep, <1>5, Zenon DEF delete_bridge, CleanInv
    <2>2. FirstInv'
        BY <1>0, KnownStep, <1>5, Zenon DEF delete_bridge, FirstInv
    <2>3. FailInv'
        BY <1>0, KnownStep, <1>5, Zenon DEF delete_bridge, FailInv, CleanInv
    <2>4. QED
        BY <2>1, <2>2, <2>3, Zenon
  <1>6. CASE cleanup_routing
    <2>1. /\ phase = "Unroute" /\ phase' = (IF why = "None" THEN "Joining" ELSE "BuildFailed")
          /\ UNCHANGED <<why, bridge, dhcp, kernel, taps, broken, late, shared, lives>>
          /\ (rules' = NoRules /\ UNCHANGED faults) \/ UpToFailure(remove_ip_table_rules, "None")
        BY <1>6, Zenon DEF cleanup_routing, AllTables, NoRules
    <2>2. rules = AllRules /\ UpToFailure(remove_ip_table_rules, "None") => Fault
        BY <1>0, TableResults, TablesStep, Zenon DEF TypeOK, States
    <2>3. CASE UpToFailure(remove_ip_table_rules, "None")
      <3>1. UNCHANGED faults \/ Fault
          BY <1>0, KnownStep, <2>3, TableResults, TablesStep, Zenon DEF TypeOK, States
      <3>2. faults = 0 => Fault
          BY <1>0, KnownStep, <2>1, <2>2, <2>3, Zenon DEF CleanInv
      <3>3. CleanInv'
          BY <1>0, <3>1, <3>2, Zenon DEF CleanInv
      <3>4. FailInv'
        <4>1. faults = 1 /\ lives = 1 /\ why \in {"dhcp", "load"} /\ broken = {} => Fault
            BY <1>0, KnownStep, <2>1, <2>2, <2>3, Zenon DEF FailInv
        <4>2. why # "None" /\ broken = {} => faults # 0
            BY <1>0, KnownStep, <2>1, Zenon DEF CleanInv
        <4>3. QED
            BY <1>0, KnownStep, <2>1, <3>1, <4>1, <4>2, Counting, Zenon DEF FailInv
      <3>5. QED
          BY <1>0, KnownStep, <2>1, <3>3, <3>4, Zenon DEF FirstInv
    <2>4. CASE rules' = NoRules /\ UNCHANGED faults
      <3>1. CleanInv'
          BY <1>0, KnownStep, <2>1, <2>4, Zenon DEF CleanInv
      <3>2. FailInv'
          BY <1>0, KnownStep, <2>1, <2>4, Zenon DEF FailInv
      <3>3. QED
          BY <3>1, <3>2, <1>0, <2>1, Zenon DEF FirstInv
    <2>5. QED
        BY <2>1, <2>3, <2>4, Zenon
  <1>7. CASE exit
    <2>1. CleanInv'
        BY <1>0, KnownStep, <1>7, Zenon DEF exit, CleanInv
    <2>2. FirstInv' /\ FailInv'
        BY <1>0, KnownStep, <1>7, Zenon DEF exit, FirstInv, FailInv
    <2>3. QED
        BY <2>1, <2>2, Zenon
  <1>8. CASE kill
      BY <1>0, KnownStep, <1>8, Zenon DEF kill, CutOff, CleanInv, FirstInv, FailInv
  <1>9. QED
      BY <1>1, <1>2, <1>3, <1>4, <1>5, <1>6, <1>7, <1>8, Zenon
-------------------------------------------------------------------------------
LEMMA NextNat == NatInv /\ [Next]_vars => NatInv'
  <1> SUFFICES ASSUME NatInv, [Next]_vars PROVE NatInv'
      BY Zenon
  <1>1. CASE UNCHANGED vars
      BY <1>1 DEF vars, net, NatInv, TypeOK, Distinct, CleanInv, FirstInv, FailInv, AsBuilt, Known
  <1>2. QED
      BY <1>1, BuildStep, TapStepKeeps, StopStep, Zenon DEF Next, TapStep

(* The inductive invariant: what is up in each phase of the daemon, as long *)
(* as nothing, or only the first build, has failed.                         *)
THEOREM NatInvariance == Spec => []NatInv
  BY InitNat, NextNat, PTL DEF Spec

(* NetworkManagerHandler keeps its types, and every tap it knows of exists, *)
(* unless two realms have shared a device (create_tap takes one that is     *)
(* there, and shutdown_tap_device_for_realm deletes it for both).           *)
THEOREM TypeCorrect == Spec => []TypeOK
  <1>1. NatInv => TypeOK
      BY Zenon DEF NatInv
  <1>2. QED
      BY <1>1, NatInvariance, PTL

(* Without faults, shutdown_nat and a build that fails leave neither        *)
(* bridge, rules nor DHCP server, only the devices that came late if no two *)
(* realms have shared one, and a build fails only for a realm that cannot   *)
(* be loaded; a first build that one fault ends at the DHCP server, a realm *)
(* or the socket takes down what it had set up.                             *)
THEOREM StopsClean == Spec => []LeavesNothingBehind
  <1>1. NatInv => LeavesNothingBehind
    <2> SUFFICES ASSUME NatInv PROVE LeavesNothingBehind
        BY Zenon
    <2>0. CleanInv /\ FailInv
        BY Zenon DEF NatInv
    <2> USE DEF AsBuilt, BridgeUp, DhcpUp, RulesUp, Known
    <2>1. ASSUME phase \in {"Off", "BuildFailed"}, faults = 0
          PROVE  /\ ~bridge /\ ~dhcp /\ rules = NoRules /\ (shared \/ kernel \subseteq late)
                 /\ phase = "BuildFailed" => why = "load" /\ broken # {}
        BY <2>0, <2>1, Zenon DEF CleanInv
    <2>2. ASSUME phase = "BuildFailed", faults = 1, lives = 1, why \in {"dhcp", "load"}, broken = {}
          PROVE  ~bridge /\ ~dhcp /\ rules = NoRules /\ (shared \/ Cardinality(kernel) <= 1)
      <3>1. ~bridge /\ ~dhcp /\ rules = NoRules /\ (shared \/ \A d, e \in kernel : d = e)
          BY <2>0, <2>2, Zenon DEF FailInv
      <3>2. CASE kernel = {}
          BY <3>1, <3>2, FS_EmptySet
      <3>3. ASSUME NEW d \in kernel, ~shared PROVE Cardinality(kernel) <= 1
        <4>1. kernel = {d}
            BY <3>1, <3>3, Zenon
        <4>2. QED
            BY <4>1, FS_Singleton
      <3>4. QED
          BY <3>1, <3>2, <3>3, Zenon
    <2>3. QED
        BY <2>1, <2>2, Zenon DEF LeavesNothingBehind
  <1>2. QED
      BY <1>1, NatInvariance, PTL
===============================================================================
