---------------------------- MODULE RealmLifecycle ----------------------------
(***************************************************************************)
(* What a client may rely on about a realm: the states of managers/realm.rs *)
(* it moves through, and whether the warden holds a virtual machine for it. *)
(* Everything else of RealmManager (connections, requests, timeouts, the    *)
(* configs) is hidden; RealmManager implements this specification.          *)
(***************************************************************************)
VARIABLES
    state,  \* State of the realm, or "Destroyed"
    held    \* whether the VmRunner holds a virtual machine

Init == state = "Halted" /\ held = FALSE

(* Only a Halted realm without a VM gets one, from start ... *)
Launch == state = "Halted" /\ ~held /\ state' = "Provisioning" /\ held' = TRUE

(* ... or for the time of a token fetch, without leaving Halted. *)
Probe == state = "Halted" /\ held' = ~held /\ UNCHANGED state

Acknowledged == state = "Provisioning" /\ state' = "Running" /\ UNCHANGED held

(* A failed start falls back to Halted, with or without a VM left over. *)
StartFails == state = "Provisioning" /\ state' = "Halted" /\ held' \in {held, FALSE}

Updated == state = "Running" /\ state' = "NeedReboot" /\ UNCHANGED held

Rebooted == state = "NeedReboot" /\ state' = "Running" /\ UNCHANGED held

(* A realm in use gives up its VM and its state in one step. *)
Stopped == state \in {"Running", "NeedReboot"} /\ held /\ state' = "Halted" /\ held' = FALSE

Destroyed == state = "Halted" /\ state' = "Destroyed" /\ held' \in {held, FALSE}

Next ==
    Launch \/ Probe \/ Acknowledged \/ StartFails \/ Updated \/ Rebooted \/ Stopped \/ Destroyed

Spec == Init /\ [][Next]_<<state, held>>
===============================================================================
