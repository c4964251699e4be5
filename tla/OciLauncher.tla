------------------------------ MODULE OciLauncher ------------------------------
(***************************************************************************)
(* OciLauncher: how install brings an application image from a registry to *)
(* the image partition and which image it reports for measurement, with    *)
(* failures of any step.  ApplicationSetup composes it with the partitions *)
(* it works on, over several boots of the realm.                           *)
(*                                                                         *)
(* A directory is the set of the image versions whose files it holds, each *)
(* "all" of them or only a "part"; a missing directory is an empty one.    *)
(***************************************************************************)
EXTENDS Naturals

CONSTANTS
    Versions,    \* images (configuration and vendor certificate)
    Annotated,   \* the versions with the annotations of a signed image
    Signed,      \* those whose signatures verify
    None,        \* no version
    MaxFaults    \* bound on failed operations

ASSUME LauncherAssumption ==
    Signed \subseteq Annotated /\ Annotated \subseteq Versions /\ None \notin Versions /\ MaxFaults \in Nat

VARIABLES
    img, unpack,     \* the directories img and unpack: their files
    meta,            \* the file METADATA: a version, None, or "Torn"
    pc,              \* where install and prepare are
    new,             \* image_info: the version the registry offers
    current,         \* try_current_metadata
    result,          \* the result of unpack_image and move_unpack_to_img
    measured,        \* the version install returned
    torn,            \* history: img was being replaced, or not written back when the realm
                     \* stopped, and no installation completed from an empty unpack since
    faults           \* counter for the bound

disk == <<img, unpack, meta>>
launcherVars == <<disk, pc, new, current, result, measured, torn, faults>>

Files == SUBSET (Versions \X {"part", "all"})
All(v) == {<<v, "all">>}
Part(files) == {<<f[1], "part">> : f \in files}

Updating == {"Unpack", "Remove", "Rename", "Cleanup", "Create", "Write"}

LauncherInit ==
    /\ img = {} /\ unpack = {} /\ meta = None
    /\ pc = "Idle" /\ new = None /\ current = None /\ result = "None" /\ measured = None
    /\ torn = FALSE /\ faults = 0

Fault == faults < MaxFaults /\ faults' = faults + 1

(* make_launcher: a launcher for every installation. *)
from_oci_config ==
    /\ pc' = "Client" /\ new' = None /\ current' = None /\ result' = "None" /\ measured' = None
    /\ UNCHANGED <<disk, torn>>

(* create_oci_client, and the parsing of the version. *)
create_oci_client ==
    /\ pc = "Client"
    /\ \/ pc' = "Fetch" /\ UNCHANGED faults
       \/ Fault /\ pc' = "Err"
    /\ UNCHANGED <<disk, new, current, result, measured, torn>>

RequiredAnnotations(v) == v \in Annotated

(* The vendor key is signed by the CA, and the image by the vendor key.     *)
verify_signature(v) == v \in Signed

(* get_image_info reaches the registry or does not, and try_read_metadata   *)
(* takes an unreadable file for a missing one.                              *)
fetch ==
    /\ pc = "Fetch" /\ pc' = "Decide"
    /\ new' \in Versions \cup {None}
    /\ current' = IF meta = "Torn" THEN None ELSE meta
    /\ UNCHANGED <<disk, result, measured, torn, faults>>

(* Mutant: the signature is verified only for an update. *)
decide_trusts_first ==
    /\ pc = "Decide"
    /\ \/ new = None /\ current = None /\ pc' = "Err" /\ UNCHANGED measured
       \/ /\ current # None /\ new \in {None, current}
          /\ pc' = "Prepare" /\ measured' = current
       \/ /\ new # None /\ new # current
          /\ pc' = (IF verify_signature(new) \/ current = None THEN "Unpack" ELSE "Err") /\ UNCHANGED measured
    /\ UNCHANGED <<disk, new, current, result, torn, faults>>

(* Mutant: an installed image is launched, but the offered one reported. *)
decide_measures_offered ==
    /\ pc = "Decide"
    /\ \/ new = None /\ current = None /\ pc' = "Err" /\ UNCHANGED measured
       \/ /\ current # None /\ pc' = "Prepare"
          /\ measured' = IF new = None THEN current ELSE new
       \/ /\ new # None /\ current = None
          /\ pc' = (IF verify_signature(new) THEN "Unpack" ELSE "Err") /\ UNCHANGED measured
    /\ UNCHANGED <<disk, new, current, result, torn, faults>>

(* The choice of the Action: install what is new, after verify_signature,   *)
(* or launch what is installed.                                             *)
decide ==
    /\ pc = "Decide"
    /\ \/ new = None /\ current = None /\ pc' = "Err" /\ UNCHANGED measured
       \/ /\ current # None /\ new \in {None, current}
          /\ pc' = "Prepare" /\ measured' = current
       \/ /\ new # None /\ new # current
          /\ pc' = (IF RequiredAnnotations(new) /\ verify_signature(new) THEN "Unpack" ELSE "Err")
          /\ UNCHANGED measured
    /\ UNCHANGED <<disk, new, current, result, torn, faults>>

(* unpack_image adds to what the directory holds; a failure leaves a part.  *)
(* One of the two mkdirp before it returns at once.                         *)
unpack_image ==
    /\ pc = "Unpack"
    /\ \/ /\ unpack' = (unpack \ {<<new, "part">>}) \cup All(new)
          /\ result' = (IF unpack = {} THEN "Clean" ELSE "Mixed")
          /\ pc' = "Remove" /\ UNCHANGED faults
       \/ Fault /\ pc' = "Err" /\ UNCHANGED <<unpack, result>>
       \/ /\ Fault /\ pc' = "Cleanup" /\ result' = "Err"
          /\ unpack' \in {unpack, unpack \cup {<<new, "part">>}}
    /\ UNCHANGED <<img, meta, new, current, measured, torn>>

(* move_unpack_to_img removes the old image; the error is ignored ...       *)
rmrf_img ==
    /\ pc = "Remove" /\ pc' = "Rename" /\ torn' = TRUE
    /\ \/ img' = {} /\ UNCHANGED faults
       \/ Fault /\ img # {} /\ img' = Part(img)
    /\ UNCHANGED <<unpack, meta, new, current, result, measured>>

(* ... and rename fails on a directory that is not empty.                   *)
rename ==
    /\ pc = "Rename" /\ pc' = "Cleanup"
    /\ \/ /\ img = {}
          /\ img' = unpack /\ unpack' = {} /\ UNCHANGED <<result, faults>>
       \/ /\ result' = "Err" /\ UNCHANGED <<img, unpack>>
          /\ IF img = {} THEN Fault ELSE UNCHANGED faults
    /\ UNCHANGED <<meta, new, current, measured, torn>>

(* The directories temp and unpack are removed, whose errors are ignored,   *)
(* and an error of the steps before is returned.                            *)
cleanup ==
    /\ pc = "Cleanup"
    /\ pc' = IF result = "Err" THEN "Err" ELSE "Create"
    /\ \/ unpack' = {} /\ UNCHANGED faults
       \/ Fault /\ unpack # {} /\ unpack' = Part(unpack)
    /\ UNCHANGED <<img, meta, new, current, result, measured, torn>>

(* save_metadata truncates the file, then writes it. *)
save_metadata ==
    /\ \/ /\ pc = "Create" /\ pc' = "Write" /\ meta' = "Torn" /\ UNCHANGED <<measured, faults, torn>>
       \/ /\ pc = "Write" /\ pc' = "Prepare" /\ meta' = new /\ measured' = new
          /\ torn' = (result = "Mixed") /\ UNCHANGED faults
       \/ /\ pc \in {"Create", "Write"} /\ Fault /\ pc' = "Err"
          /\ UNCHANGED <<meta, measured, torn>>
    /\ UNCHANGED <<img, unpack, new, current, result>>

(* prepare builds the handler from the metadata, to run in img, both of the *)
(* overlay. METADATA is there the file of the image partition: only the     *)
(* application writes to the upper layer, and its root is img.              *)
prepare ==
    /\ pc = "Prepare"
    /\ \/ meta \in Versions /\ pc' = "Ready" /\ UNCHANGED faults
       \/ pc' = "Err" /\ (IF meta \in Versions THEN Fault ELSE UNCHANGED faults)
    /\ UNCHANGED <<disk, new, current, result, measured, torn>>

(* What is left of the directories when the realm stops between two awaits: *)
(* unpack_image or the removal of img is cut short, and of what was not yet *)
(* written back (unsaved) any part may be missing.                          *)
CutOff(unsaved) ==
    /\ torn' = (torn \/ unsaved \/ pc = "Remove")
    /\ \/ UNCHANGED disk
       \/ /\ pc = "Unpack" /\ unpack' = unpack \cup {<<new, "part">>} /\ UNCHANGED <<img, meta>>
       \/ /\ pc = "Remove" /\ img # {} /\ img' = Part(img) /\ UNCHANGED <<unpack, meta>>
       \/ unsaved /\ img' \in {img, Part(img)} /\ unpack' = Part(unpack) /\ meta' \in {meta, "Torn"}

install ==
    create_oci_client \/ fetch \/ decide \/ unpack_image \/ rmrf_img \/ rename \/ cleanup \/ save_metadata
-------------------------------------------------------------------------------
(* Types. *)
LauncherTypeOK ==
    /\ img \in Files /\ unpack \in Files
    /\ meta \in Versions \cup {None, "Torn"}
    /\ pc \in {"Idle", "Client", "Fetch", "Decide", "Prepare", "Ready", "Err"} \cup Updating
    /\ new \in Versions \cup {None} /\ current \in Versions \cup {None}
    /\ result \in {"None", "Clean", "Mixed", "Err"} /\ measured \in Versions \cup {None}
    /\ torn \in BOOLEAN /\ faults \in 0..MaxFaults

(* Nothing of an image whose signature does not verify is ever in img, also *)
(* after failures, torn updates and reboots.                                *)
OnlySignedIsInstalled == \A f \in img : f[1] \in Signed
===============================================================================
