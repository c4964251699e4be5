------------------------ MODULE ApplicationSetupProofs ------------------------
(***************************************************************************)
(* Theorems about ApplicationSetup, for any names, vendors and images and  *)
(* any number of boots and faults. The image partition: nothing but        *)
(* verified images gets into img, and the metadata describe it unless an   *)
(* update was cut off. The data partition: its keys tell the owners apart, *)
(* an application sees only its own data, and what was written back        *)
(* survives. Of both, what a running application sees through the overlay. *)
(* Last the types, with the devices and the mount of the image.            *)
(***************************************************************************)
EXTENDS ApplicationSetup, SequenceTheorems, TLAPS

ImageStages == {"image"} \X {"key", "device", "table", "mount", "format", "remount"}

(* Only a verified image is unpacked. *)
SignedInv ==
    /\ \A f \in img : f[1] \in Signed
    /\ \A f \in unpack : f[1] \in Signed
    /\ pc \in Updating => new \in Signed

(* The metadata, if they are there, describe the image. *)
Intact == meta \in Versions => img = All(meta)

(* Where an installation is, the directories hold what it has put there,    *)
(* and torn tells when the metadata may be wrong.                           *)
InstallInv ==
    /\ ~torn => Intact
    /\ pc \in {"Rename", "Create", "Write"} \/ (pc = "Cleanup" /\ result # "Err") => torn
    /\ pc \in {"Remove", "Rename"} => result = "Mixed" \/ (result = "Clean" /\ unpack = All(new))
    /\ pc = "Cleanup" => result \in {"Mixed", "Err"} \/ (result = "Clean" /\ img = All(new))
    /\ pc \in {"Create", "Write"} => result = "Mixed" \/ (result = "Clean" /\ img = All(new))

(* What is measured is what the metadata say, from the decision on. *)
MeasureInv ==
    /\ pc = "Decide" => current = IF meta = "Torn" THEN None ELSE meta
    /\ pc \in {"Prepare", "Ready"} => measured = meta
    /\ pc = "Ready" => meta \in Versions
    /\ stage \in ImageStages => pc = "Client"
    /\ pc \in Updating => stage = <<"app", "install">>

LauncherInv == torn \in BOOLEAN /\ SignedInv /\ InstallInv /\ MeasureInv

(* The steps that leave the launcher and its disk alone. *)
Quiet ==
    /\ UNCHANGED <<img, unpack, meta, pc, new, current, result, measured, torn>>
    /\ stage' \in ImageStages => stage \in ImageStages
    /\ stage = <<"app", "install">> => stage' = stage
    /\ stage' = Running => stage = Running

(* mkfs on the image partition. *)
Wiped ==
    /\ stage \in ImageStages /\ stage' # Running /\ img' = {} /\ unpack' = {} /\ meta' = None
    /\ UNCHANGED <<pc, new, current, result, measured, torn>>

(* The machine stops in order, or not. *)
Halted ==
    /\ pc' = "Idle" /\ new' = None /\ current' = None /\ result' = "None" /\ measured' = None
    /\ stage' = Off

(* What the steps of ApplicationSetup do to the launcher. *)
LEMMA Steps ==
  ASSUME [SetupNext]_setupVars
  PROVE  \/ Quiet \/ Wiped \/ provision \/ install_image \/ prepare_handler \/ aborted
         \/ (Halted /\ stage = Sync /\ UNCHANGED <<disk, torn>>) \/ (Halted /\ CutOff(unsaved))
  <1> USE DEF launcherVars, disk, ImageStages, Running
  <1>1. ASSUME NEW p \in Partitions, derive_key_for(p) PROVE Quiet
      BY <1>1 DEF derive_key_for, Quiet, Failed, Partitions
  <1>2. ASSUME NEW p \in Partitions, create_device(p) PROVE Quiet
      BY <1>2 DEF create_device, Quiet, Failed, Partitions
  <1>3. ASSUME NEW p \in Partitions, load_table(p) PROVE Quiet
      BY <1>3 DEF load_table, Quiet, Failed, Partitions
  <1>4. ASSUME NEW p \in Partitions, try_mount(p) PROVE Quiet
      BY <1>4 DEF try_mount, Mounted, Quiet, Failed, Partitions
  <1>5. ASSUME NEW p \in Partitions, remount(p) PROVE Quiet
      BY <1>5 DEF remount, Mounted, Quiet, Failed, Partitions
  <1>6. ASSUME NEW p \in Partitions, formatfs(p) PROVE Quiet \/ Wiped
      BY <1>6 DEF formatfs, Wipe, Quiet, Wiped, Failed, Partitions
  <1>7. CASE mount_overlayfs \/ write_data \/ writeback
      BY <1>7 DEF mount_overlayfs, write_data, writeback, Quiet, Failed, Running
  <1>8. CASE stop_application \/ umount \/ remove_devices \/ shutdown_failed
      BY <1>8 DEF stop_application, umount, remove_devices, shutdown_failed, Quiet, Failed, Running, Sync
  <1>9. CASE reboot
      BY <1>9 DEF reboot, Stopped, Quiet, Halted, Failed, Sync
  <1>10. CASE power_loss
      BY <1>10, Zenon DEF power_loss, Stopped, Halted
  <1>11. CASE power_on
      BY <1>11, Zenon DEF power_on, Quiet, Off
  <1>12. CASE UNCHANGED setupVars
      BY <1>12, Zenon DEF setupVars, Quiet
  <1>13. QED
      BY <1>1, <1>2, <1>3, <1>4, <1>5, <1>6, <1>7, <1>8, <1>9, <1>10, <1>11, <1>12, Zenon DEF SetupNext

(* The initial state. *)
LEMMA InitLauncher == SetupInit => LauncherInv
  <1> SUFFICES ASSUME SetupInit PROVE LauncherInv
      BY Zenon
  <1>1. pc = "Idle" /\ img = {} /\ unpack = {} /\ meta \notin Versions /\ torn = FALSE /\ stage \notin ImageStages
      BY LauncherAssumption, Zenon DEF SetupInit, LauncherInit, Off, ImageStages
  <1>2. QED
      BY <1>1, Zenon DEF LauncherInv, SignedInv, InstallInv, MeasureInv, Intact, Updating

(* Files that are cut short are still those of their image. *)
LEMMA PartOf ==
  ASSUME NEW dir, \A f \in dir : f[1] \in Signed
  PROVE  \A f \in Part(dir) : f[1] \in Signed
  BY DEF Part

(* A stop of the realm at any moment, and an abort, leave only what a step  *)
(* of the installation has put there.                                       *)
LEMMA CutOffKeeps ==
  ASSUME NEW u, LauncherInv, CutOff(u)
  PROVE  /\ torn' \in BOOLEAN
         /\ \A f \in img' : f[1] \in Signed
         /\ \A f \in unpack' : f[1] \in Signed
         /\ ~torn' => Intact'
  <1>1. torn' \in BOOLEAN /\ (~torn' => ~torn /\ ~u /\ pc # "Remove")
      BY Zenon DEF CutOff, LauncherInv
  <1>2. ~torn' => img' = img /\ meta' = meta
      BY <1>1, Zenon DEF CutOff, disk, Updating
  <1>3. ~torn' => Intact'
      BY <1>1, <1>2, Zenon DEF LauncherInv, InstallInv, Intact
  <1>4. /\ img' = img \/ img' = Part(img)
        /\ \/ unpack' = unpack \/ unpack' = Part(unpack)
           \/ pc = "Unpack" /\ unpack' = unpack \cup {<<new, "part">>}
      BY Zenon DEF CutOff, disk
  <1>5. \A f \in img' : f[1] \in Signed
      BY <1>4, PartOf, Zenon DEF LauncherInv, SignedInv
  <1>6. \A f \in unpack' : f[1] \in Signed
      BY <1>4, PartOf DEF LauncherInv, SignedInv, Updating
  <1>7. QED
      BY <1>1, <1>3, <1>5, <1>6, Zenon

(* The steps of install. *)
LEMMA InstallKeeps ==
  ASSUME LauncherInv, install_image
  PROVE  LauncherInv'
  <1> USE DEF LauncherInv, disk
  <1>S. stage' \notin ImageStages
      BY Zenon DEF install_image, ImageStages, Failed
  <1>T. pc' \in Updating => stage' = <<"app", "install">>
      BY Zenon DEF install_image, Updating
  <1>1. CASE create_oci_client
      BY <1>1, <1>S, <1>T, Zenon DEF create_oci_client, SignedInv, InstallInv, MeasureInv, Intact, Updating
  <1>2. CASE fetch
      BY <1>2, <1>S, <1>T, Zenon DEF fetch, SignedInv, InstallInv, MeasureInv, Intact, Updating
  <1>3. CASE decide
      BY <1>3, <1>S, <1>T, Zenon DEF decide, verify_signature, SignedInv, InstallInv, MeasureInv, Intact, Updating
  <1>4. CASE unpack_image
    <2>1. SignedInv'
        BY <1>4 DEF unpack_image, SignedInv, Updating, All
    <2>2. InstallInv'
        BY <1>4, Zenon DEF unpack_image, InstallInv, Intact, Updating, All
    <2>3. QED
        BY <1>4, <1>S, <1>T, <2>1, <2>2, Zenon DEF unpack_image, MeasureInv
  <1>5. CASE rmrf_img
    <2>1. SignedInv'
        BY <1>5, PartOf, Zenon DEF rmrf_img, SignedInv, Updating
    <2>2. QED
        BY <1>5, <1>S, <1>T, <2>1, Zenon DEF rmrf_img, InstallInv, MeasureInv, Updating
  <1>6. CASE rename
    <2>1. SignedInv'
        BY <1>6, Zenon DEF rename, SignedInv, Updating
    <2>2. InstallInv'
        BY <1>6, Zenon DEF rename, InstallInv, Updating
    <2>3. QED
        BY <1>6, <1>S, <1>T, <2>1, <2>2, Zenon DEF rename, MeasureInv
  <1>7. CASE cleanup
    <2>1. SignedInv'
        BY <1>7, PartOf, Zenon DEF cleanup, SignedInv, Updating
    <2>2. InstallInv'
        BY <1>7, Zenon DEF cleanup, InstallInv, Intact, Updating
    <2>3. QED
        BY <1>7, <1>S, <1>T, <2>1, <2>2, Zenon DEF cleanup, MeasureInv
  <1>8. CASE save_metadata
    <2>1. SignedInv'
        BY <1>8, Zenon DEF save_metadata, SignedInv, Updating
    <2>2. InstallInv'
        BY <1>8, Zenon DEF save_metadata, InstallInv, Intact, Updating
    <2>3. QED
        BY <1>8, <1>S, <1>T, <2>1, <2>2, Zenon DEF save_metadata, MeasureInv
  <1>9. QED
      BY <1>1, <1>2, <1>3, <1>4, <1>5, <1>6, <1>7, <1>8, Zenon DEF install_image, install

(* Every step keeps the invariant of the launcher. *)
LEMMA NextLauncher == LauncherInv /\ [SetupNext]_setupVars => LauncherInv'
  <1> SUFFICES ASSUME LauncherInv, [SetupNext]_setupVars PROVE LauncherInv'
      BY Zenon
  <1>1. CASE Quiet
      BY <1>1, ZenonT(60) DEF Quiet, LauncherInv, SignedInv, InstallInv, MeasureInv, Intact
  <1>2. CASE Wiped
    <2>1. pc = "Client"
        BY <1>2, Zenon DEF Wiped, LauncherInv, MeasureInv
    <2>2. QED
        BY <1>2, <2>1, LauncherAssumption, Zenon
        DEF Wiped, LauncherInv, SignedInv, InstallInv, MeasureInv, Intact, Updating
  <1>3. CASE provision
    <2>1. pc \notin Updating
        BY <1>3 DEF provision, Failed, LauncherInv, MeasureInv
    <2>2. pc' = "Client" /\ UNCHANGED <<img, unpack, meta, torn>>
        BY <1>3, Zenon DEF provision, from_oci_config, disk
    <2>3. QED
        BY <2>1, <2>2, Zenon DEF LauncherInv, SignedInv, InstallInv, MeasureInv, Intact, Updating
  <1>4. CASE install_image
      BY <1>4, InstallKeeps, Zenon
  <1>5. CASE prepare_handler
    <2>1. /\ pc = "Prepare" /\ pc' \in {"Ready", "Err"} /\ (pc' = "Ready" => meta \in Versions)
          /\ stage' \notin ImageStages
          /\ UNCHANGED <<img, unpack, meta, new, current, result, measured, torn>>
        BY <1>5, Zenon DEF prepare_handler, prepare, disk, Running, Failed, ImageStages
    <2>2. QED
        BY <2>1, Zenon DEF LauncherInv, SignedInv, InstallInv, MeasureInv, Intact, Updating
  <1>6. CASE aborted
    <2>1. CutOff(FALSE) /\ pc' = "Err" /\ stage' \notin ImageStages
        BY <1>6, Zenon DEF aborted, Failed, ImageStages
    <2>2. QED
        BY <2>1, CutOffKeeps, Zenon DEF LauncherInv, SignedInv, InstallInv, MeasureInv, Updating
  <1>7. CASE Halted /\ stage = Sync /\ UNCHANGED <<disk, torn>>
    <2>1. pc \notin Updating
        BY <1>7, Zenon DEF LauncherInv, MeasureInv, Sync
    <2>2. pc' = "Idle" /\ stage' \notin ImageStages /\ UNCHANGED <<img, unpack, meta, torn>>
        BY <1>7, Zenon DEF Halted, Off, ImageStages, disk
    <2>3. QED
        BY <2>1, <2>2, Zenon DEF LauncherInv, SignedInv, InstallInv, MeasureInv, Intact, Updating
  <1>8. CASE Halted /\ CutOff(unsaved)
    <2>1. pc' = "Idle" /\ stage' \notin ImageStages
        BY <1>8, Zenon DEF Halted, Off, ImageStages
    <2>2. QED
        BY <1>8, <2>1, CutOffKeeps, Zenon DEF LauncherInv, SignedInv, InstallInv, MeasureInv, Updating
  <1>9. QED
      BY <1>1, <1>2, <1>3, <1>4, <1>5, <1>6, <1>7, <1>8, Steps, Zenon

(* The invariant holds in every behaviour. *)
THEOREM LauncherInvariance == SetupSpec => []LauncherInv
  BY InitLauncher, NextLauncher, PTL DEF SetupSpec

(* OnlySignedIsInstalled for every set of images: nothing of an image whose *)
(* signatures do not verify is ever in img (launcher/oci.rs, install).      *)
THEOREM OnlySigned == SetupSpec => []OnlySignedIsInstalled
  <1>1. LauncherInv => OnlySignedIsInstalled
      BY Zenon DEF LauncherInv, SignedInv, OnlySignedIsInstalled
  <1>2. QED
      BY <1>1, LauncherInvariance, PTL

(* An application runs only after prepare. *)
RunInv == stage = Running => pc = "Ready"

LEMMA NextRun == RunInv /\ [SetupNext]_setupVars => RunInv'
  <1> SUFFICES ASSUME RunInv, [SetupNext]_setupVars PROVE RunInv'
      BY Zenon
  <1>1. CASE Quiet
      BY <1>1, Zenon DEF Quiet, RunInv
  <1>2. CASE Wiped \/ provision
      BY <1>2 DEF RunInv, Running, Wiped, provision
  <1>3. CASE prepare_handler
      BY <1>3 DEF prepare_handler, RunInv, Running, Failed
  <1>4. CASE aborted \/ Halted
      BY <1>4 DEF aborted, Halted, RunInv, Running, Failed, Off
  <1>5. CASE install_image
    <2>1. stage' # Running
        BY <1>5 DEF install_image, Running, Failed
    <2>2. QED
        BY <2>1, Zenon DEF RunInv
  <1>6. QED
      BY <1>1, <1>2, <1>3, <1>4, <1>5, Steps, Zenon

(* A running application was prepared, in every behaviour. *)
THEOREM RunInvariance == SetupSpec => []RunInv
  <1>1. SetupInit => RunInv
      BY DEF SetupInit, RunInv, Off, Running
  <1>2. QED
      BY <1>1, NextRun, PTL DEF SetupSpec
-------------------------------------------------------------------------------
(* The keys of the data partition, as sequences: they tell owners apart.    *)

(* The parts of a key: two sequences of four parts of the same lengths      *)
(* agree only if their parts do.                                            *)
Agree(s, t) == Len(s) = Len(t) /\ \A i \in 1..Len(s) : s[i] = t[i]

LEMMA AgreeParts ==
  ASSUME NEW S, NEW a \in Seq(S), NEW b \in Seq(S), NEW c \in Seq(S), NEW d \in Seq(S),
         Len(a) = Len(c), Agree(a \o b, c \o d)
  PROVE  Agree(a, c) /\ Agree(b, d)
  <1>1. /\ Len(a \o b) = Len(a) + Len(b) /\ Len(c \o d) = Len(c) + Len(d)
        /\ \A i \in 1..Len(a) + Len(b) : (a \o b)[i] = IF i <= Len(a) THEN a[i] ELSE b[i - Len(a)]
        /\ \A i \in 1..Len(c) + Len(d) : (c \o d)[i] = IF i <= Len(c) THEN c[i] ELSE d[i - Len(c)]
      BY ConcatProperties, Zenon
  <1>2. Len(a) \in Nat /\ Len(b) \in Nat /\ Len(d) \in Nat /\ Len(b) = Len(d)
    <2>1. Len(a) \in Nat /\ Len(b) \in Nat /\ Len(d) \in Nat
        BY LenProperties, Zenon
    <2>2. Len(a) + Len(b) = Len(a) + Len(d)
        BY <1>1, Zenon DEF Agree
    <2>3. QED
        BY <2>1, <2>2
  <1>3. ASSUME NEW i \in 1..Len(a) PROVE a[i] = c[i]
    <2>1. i \in 1..Len(a) + Len(b) /\ i <= Len(a)
        BY <1>2
    <2>2. QED
        BY <1>1, <1>2, <2>1, Zenon DEF Agree
  <1>4. ASSUME NEW i \in 1..Len(b) PROVE b[i] = d[i]
    <2> DEFINE j == Len(a) + i
    <2>1. j \in 1..Len(a) + Len(b) /\ ~(j <= Len(a)) /\ j - Len(a) = i
        BY <1>2
    <2> HIDE DEF j
    <2>2. (a \o b)[j] = b[i] /\ (c \o d)[j] = d[i]
        BY <1>1, <1>2, <2>1, Zenon
    <2>3. QED
        BY <1>1, <2>1, <2>2, Zenon DEF Agree
  <1>5. QED
      BY <1>2, <1>3, <1>4, Zenon DEF Agree

(* KeyOf("data") for the sealing s, the name n and the image v. *)
Sealed(s, v) ==
    IF s = "Dummy" THEN <<"sha256(">> \o Ikm \o VendorData[v] \o <<")">>
    ELSE <<"salted(">> \o Ikm \o VendorData[v] \o (IF s = "HkdfRim" THEN <<v, ")">> ELSE <<")">>)

DataKey(s, n, v) == <<IF s = "Dummy" THEN "sha256(" ELSE "expand(">> \o Sealed(s, v) \o <<n>> \o <<")">>

LEMMA KeyOfData == KeyOf("data") = DataKey(sealing, name, measured)
  <1>1. seal(Ikm, VendorData[measured], measured) = Sealed(sealing, measured)
      BY Zenon DEF seal, DummySeal, HkdfSeal, use_image_hash, Sealed
  <1>2. KeyOf("data") = derive_key(Sealed(sealing, measured), <<name>>)
      BY <1>1, Zenon DEF KeyOf
  <1>3. QED
      BY <1>2, Zenon DEF derive_key, DummyDerive, HkdfDerive, DataKey

Atoms == Names \cup Versions \cup {VendorData[v][1] : v \in Versions} \cup {VendorData[v][2] : v \in Versions}
         \cup {"sha256(", "expand(", "salted(", "ikm", ")"}

(* The four parts of the sealed key, and their lengths. *)
LEMMA Parts ==
  ASSUME NEW s, NEW v \in Versions
  PROVE  /\ VendorData[v] \in Seq(Atoms) /\ Len(VendorData[v]) = 2
         /\ Ikm \in Seq(Atoms) /\ Len(Ikm) = 1
         /\ <<"sha256(">> \in Seq(Atoms) /\ <<"salted(">> \in Seq(Atoms) /\ <<"expand(">> \in Seq(Atoms)
         /\ <<")">> \in Seq(Atoms) /\ <<v, ")">> \in Seq(Atoms)
  <1>1. VendorData[v] = <<VendorData[v][1], VendorData[v][2]>>
      BY SetupAssumption, Zenon
  <1>2. VendorData[v][1] \in Atoms /\ VendorData[v][2] \in Atoms /\ v \in Atoms
      BY Zenon DEF Atoms
  <1>3. {"sha256(", "expand(", "salted(", "ikm", ")"} \subseteq Atoms
      BY Zenon DEF Atoms
  <1> HIDE DEF Atoms
  <1>4. <<VendorData[v][1], VendorData[v][2]>> \in Seq(Atoms) /\ Len(<<VendorData[v][1], VendorData[v][2]>>) = 2
      BY <1>2
  <1>5. VendorData[v] \in Seq(Atoms) /\ Len(VendorData[v]) = 2
      BY <1>1, <1>4, Zenon
  <1>6. /\ Ikm \in Seq(Atoms) /\ Len(Ikm) = 1
        /\ <<"sha256(">> \in Seq(Atoms) /\ <<"salted(">> \in Seq(Atoms) /\ <<"expand(">> \in Seq(Atoms)
      BY <1>3 DEF Ikm
  <1>7. <<")">> \in Seq(Atoms) /\ <<v, ")">> \in Seq(Atoms)
      BY <1>2, <1>3
  <1>8. QED
      BY <1>5, <1>6, <1>7, Zenon

LEMMA AgreeThree ==
  ASSUME NEW S, NEW x \in Seq(S), NEW b \in Seq(S), NEW c \in Seq(S), NEW d \in Seq(S), NEW e \in Seq(S),
         Len(b) = Len(c), Agree((x \o b) \o d, (x \o c) \o e)
  PROVE  Agree(b, c) /\ Agree(d, e)
  <1>1. x \o b \in Seq(S) /\ x \o c \in Seq(S) /\ Len(x \o b) = Len(x \o c)
      BY ConcatProperties, ZenonT(60)
  <1>2. Agree(x \o b, x \o c) /\ Agree(d, e)
      BY <1>1, AgreeParts, Zenon
  <1>3. QED
      BY <1>2, AgreeParts, Zenon

(* How long the keys are. *)
LEMMA SealedIsSeq ==
  ASSUME NEW s, NEW v \in Versions
  PROVE  Sealed(s, v) \in Seq(Atoms) /\ Len(Sealed(s, v)) = IF s = "HkdfRim" THEN 6 ELSE 5
  <1> DEFINE h == <<IF s = "Dummy" THEN "sha256(" ELSE "salted(">>
             z == IF s = "HkdfRim" THEN <<v, ")">> ELSE <<")">>
  <1>1. /\ h \in Seq(Atoms) /\ Len(h) = 1
        /\ z \in Seq(Atoms) /\ Len(z) = IF s = "HkdfRim" THEN 2 ELSE 1
      BY Parts, Zenon
  <1>2. Sealed(s, v) = ((h \o Ikm) \o VendorData[v]) \o z
      BY Zenon DEF Sealed
  <1> HIDE DEF h, z
  <1>3. h \o Ikm \in Seq(Atoms) /\ Len(h \o Ikm) = 2
      BY <1>1, Parts, ConcatProperties
  <1>4. VendorData[v] \in Seq(Atoms) /\ Len(VendorData[v]) = 2
      BY Parts, Zenon
  <1> DEFINE g == h \o Ikm
             k == g \o VendorData[v]
  <1> HIDE DEF g
  <1>5. g \in Seq(Atoms) /\ Len(g) = 2
      BY <1>3, Zenon DEF g
  <1>6. k \in Seq(Atoms) /\ Len(k) = Len(g) + Len(VendorData[v])
      BY <1>4, <1>5, ConcatProperties, Zenon
  <1> HIDE DEF k
  <1>7. k \in Seq(Atoms) /\ Len(k) = 4
      BY <1>4, <1>5, <1>6
  <1>8. k \o z \in Seq(Atoms) /\ Len(k \o z) = Len(k) + Len(z)
      BY <1>1, <1>7, ConcatProperties, Zenon
  <1>9. QED
      BY <1>1, <1>2, <1>7, <1>8 DEF g, k

(* The sealed key tells the vendor and, bound to the image, the image. *)
LEMMA SealedTells ==
  ASSUME NEW s, NEW v \in Versions, NEW w \in Versions, Agree(Sealed(s, v), Sealed(s, w))
  PROVE  VendorData[v] = VendorData[w] /\ (s = "HkdfRim" => v = w)
  <1> DEFINE x == <<IF s = "Dummy" THEN "sha256(" ELSE "salted(">> \o Ikm
             z(u) == IF s = "HkdfRim" THEN <<u, ")">> ELSE <<")">>
  <1>1. <<IF s = "Dummy" THEN "sha256(" ELSE "salted(">> \in Seq(Atoms) /\ Ikm \in Seq(Atoms)
      BY Parts, Zenon
  <1>2. x \in Seq(Atoms) /\ z(v) \in Seq(Atoms) /\ z(w) \in Seq(Atoms)
      BY <1>1, Parts, ConcatProperties, Zenon
  <1>3. Sealed(s, v) = (x \o VendorData[v]) \o z(v) /\ Sealed(s, w) = (x \o VendorData[w]) \o z(w)
      BY Zenon DEF Sealed
  <1>4. s = "HkdfRim" => z(v)[1] = v /\ z(w)[1] = w /\ Len(z(v)) = 2
      BY Zenon
  <1> HIDE DEF x, z
  <1>5. /\ VendorData[v] \in Seq(Atoms) /\ Len(VendorData[v]) = 2
        /\ VendorData[w] \in Seq(Atoms) /\ Len(VendorData[w]) = 2
      BY Parts, Zenon
  <1>6. Agree(VendorData[v], VendorData[w]) /\ Agree(z(v), z(w))
      BY <1>2, <1>3, <1>5, AgreeThree
  <1>7. VendorData[v][1] = VendorData[w][1] /\ VendorData[v][2] = VendorData[w][2]
      BY <1>5, <1>6 DEF Agree
  <1>8. VendorData[v] = VendorData[w]
    <2>1. <<VendorData[v][1], VendorData[v][2]>> = <<VendorData[w][1], VendorData[w][2]>>
        BY <1>7, Zenon
    <2>2. QED
        BY <2>1, SetupAssumption, Zenon
  <1>9. s = "HkdfRim" => v = w
      BY <1>4, <1>6 DEF Agree
  <1>10. QED
      BY <1>8, <1>9, Zenon

(* Equal keys are those of the same owner ... *)
LEMMA KeyTells ==
  ASSUME NEW s, NEW n \in Names, NEW m \in Names, NEW v \in Versions, NEW w \in Versions,
         DataKey(s, n, v) = DataKey(s, m, w)
  PROVE  n = m /\ VendorData[v] = VendorData[w] /\ (s = "HkdfRim" => v = w)
  <1> DEFINE h == <<IF s = "Dummy" THEN "sha256(" ELSE "expand(">>
             e == <<")">>
             N(x) == <<x>>
             a == (h \o Sealed(s, v)) \o N(n)
             b == (h \o Sealed(s, w)) \o N(m)
  <1>1. h \in Seq(Atoms) /\ e \in Seq(Atoms)
      BY Parts, Zenon
  <1>2. N(n) \in Seq(Atoms) /\ N(m) \in Seq(Atoms) /\ Len(N(n)) = 1 /\ Len(N(m)) = 1 /\ N(n)[1] = n /\ N(m)[1] = m
    <2>1. n \in Atoms /\ m \in Atoms
        BY Zenon DEF Atoms
    <2>2. QED
        BY <2>1
  <1>3. DataKey(s, n, v) = a \o e /\ DataKey(s, m, w) = b \o e
      BY Zenon DEF DataKey
  <1> HIDE DEF h, e, N
  <1>4. /\ Sealed(s, v) \in Seq(Atoms) /\ Sealed(s, w) \in Seq(Atoms)
        /\ Len(Sealed(s, v)) = Len(Sealed(s, w))
      BY SealedIsSeq, Zenon
  <1>5. /\ h \o Sealed(s, v) \in Seq(Atoms) /\ Len(h \o Sealed(s, v)) = Len(h) + Len(Sealed(s, v))
        /\ h \o Sealed(s, w) \in Seq(Atoms) /\ Len(h \o Sealed(s, w)) = Len(h) + Len(Sealed(s, w))
      BY <1>1, <1>4, ConcatProperties, Zenon
  <1>6. /\ a \in Seq(Atoms) /\ Len(a) = Len(h \o Sealed(s, v)) + Len(N(n))
        /\ b \in Seq(Atoms) /\ Len(b) = Len(h \o Sealed(s, w)) + Len(N(m))
      BY <1>2, <1>5, ConcatProperties, Zenon
  <1>7. Len(a) = Len(b)
      BY <1>2, <1>4, <1>5, <1>6, Zenon
  <1>8. Agree(a \o e, b \o e)
      BY <1>3, Zenon DEF Agree
  <1>9. Agree(a, b)
    <2> HIDE DEF a, b
    <2> QED
        BY <1>1, <1>6, <1>7, <1>8, AgreeParts, Zenon
  <1>10. Agree(Sealed(s, v), Sealed(s, w)) /\ Agree(N(n), N(m))
      BY <1>1, <1>2, <1>4, <1>9, AgreeThree, Zenon
  <1>11. n = m
      BY <1>2, <1>10 DEF Agree
  <1>12. QED
      BY <1>10, <1>11, SealedTells, Zenon

(* ... the same owner has the same key ... *)
LEMMA OwnerKeeps ==
  ASSUME NEW f, NEW g, SameOwner(f, g)
  PROVE  DataKey(sealing, f[1], f[2]) = DataKey(sealing, g[1], g[2])
  <1>1. Sealed(sealing, f[2]) = Sealed(sealing, g[2])
      BY Zenon DEF SameOwner, use_image_hash, Sealed
  <1>2. QED
      BY <1>1, Zenon DEF SameOwner, DataKey

(* ... and no key is empty. *)
LEMMA KeyIsKey ==
  ASSUME NEW s, NEW n \in Names, NEW v \in Versions
  PROVE  DataKey(s, n, v) # NoKey
  <1> DEFINE h == <<IF s = "Dummy" THEN "sha256(" ELSE "expand(">>
             a == (h \o Sealed(s, v)) \o <<n>>
  <1>1. h \in Seq(Atoms) /\ <<")">> \in Seq(Atoms) /\ Len(<<")">>) = 1
      BY Parts, Zenon
  <1>2. <<n>> \in Seq(Atoms)
    <2>1. n \in Atoms
        BY Zenon DEF Atoms
    <2>2. QED
        BY <2>1
  <1>3. DataKey(s, n, v) = a \o <<")">>
      BY Zenon DEF DataKey
  <1> HIDE DEF h
  <1>4. a \in Seq(Atoms)
      BY <1>1, <1>2, SealedIsSeq, ConcatProperties, Zenon
  <1> HIDE DEF a
  <1>5. Len(a \o <<")">>) = Len(a) + Len(<<")">>) /\ Len(a) \in Nat
      BY <1>1, <1>4, ConcatProperties, LenProperties, Zenon
  <1>6. Len(a \o <<")">>) # 0
      BY <1>1, <1>5
  <1>7. Len(NoKey) = 0
      BY Zenon DEF NoKey
  <1>8. QED
      BY <1>3, <1>6, <1>7, Zenon
-------------------------------------------------------------------------------

(* The stages at which the data partition is being set up or in use: there  *)
(* is a key for it, a table, a mount.                                       *)
At(t) == <<"data", t>>
InUse == {<<"app", "overlay">>, <<"app", "prepare">>, Running}
Tabled == {At("mount"), At("format"), At("remount")} \cup InUse
Keyed == {At("device"), At("table")} \cup Tabled
DataStages == {At("key")} \cup Keyed

Domains ==
    /\ DOMAIN keyring = Partitions /\ DOMAIN tables = Partitions /\ DOMAIN fs = Partitions
    /\ meta \in Versions \cup {None, "Torn"}
    /\ name \in Names

(* The files on the data partition were written by owners of its key. *)
OwnInv ==
    /\ durable \subseteq files
    /\ \A f \in files : f[1] \in Names /\ f[2] \in Versions /\ DataKey(sealing, f[1], f[2]) = fs["data"]

(* The key that is derived reaches the device. *)
KeyInv ==
    /\ stage \in DataStages => measured \in Versions
    /\ stage \in Keyed => keyring["data"] = DataKey(sealing, name, measured)
    /\ stage \in Tabled => tables["data"] = keyring["data"]

(* A mounted partition stays what it is: its device is neither given        *)
(* another table nor removed, nor is it formatted.                          *)
MountInv ==
    /\ "data" \in mounts => fs["data"] = tables["data"] /\ tables["data"] # NoKey
    /\ stage \in {At("table"), At("mount"), At("format"), At("remount")} => "data" \notin mounts
    /\ stage = <<"down", "devices">> => mounts = {}
    /\ stage \in InUse => "data" \in mounts

(* What was written back is there, and is not formatted away by its owner. *)
SaveInv ==
    /\ excuse \/ saved \subseteq durable
    /\ stage \in {At("device"), At("table"), At("mount")} /\ "data" \notin mounts =>
          excuse \/ \A f \in saved : DataKey(sealing, f[1], f[2]) = DataKey(sealing, name, measured)
    /\ stage = At("format") => excuse \/ saved = {}

DataInv == Domains /\ OwnInv /\ KeyInv /\ MountInv /\ SaveInv

LEMMA InitData == SetupInit => DataInv
  <1> SUFFICES ASSUME SetupInit PROVE DataInv
      BY Zenon
  <1>1. /\ stage = Off /\ files = {} /\ durable = {} /\ saved = {} /\ mounts = {} /\ meta = None /\ name \in Names
        /\ keyring = NoPartition /\ tables = NoPartition /\ fs = NoPartition
      BY Zenon DEF SetupInit, LauncherInit
  <1>2. stage \notin DataStages /\ stage # <<"down", "devices">>
      BY <1>1, Zenon DEF Off, DataStages, Keyed, Tabled, InUse, Running, At
  <1>3. Domains
      BY <1>1, Zenon DEF Domains, NoPartition
  <1>4. OwnInv /\ MountInv /\ SaveInv
      BY <1>1, <1>2, Zenon DEF OwnInv, MountInv, SaveInv, DataStages, Keyed, Tabled
  <1>5. QED
      BY <1>2, <1>3, <1>4, Zenon DEF DataInv, KeyInv, DataStages, Keyed

(* A step that ends outside the stages of the data partition, and leaves    *)
(* its file system and what was written back alone.                         *)
LEMMA Elsewhere ==
  ASSUME DataInv, Domains', stage' \notin DataStages,
         stage' = <<"down", "devices">> => mounts' = {},
         sealing' = sealing, fs'["data"] = fs["data"],
         "data" \in mounts' => "data" \in mounts /\ tables'["data"] = tables["data"],
         files' \subseteq files, durable' \subseteq files', excuse' \/ saved' \subseteq durable'
  PROVE  DataInv'
  <1>1. OwnInv'
      BY Zenon DEF DataInv, OwnInv
  <1>2. KeyInv'
      BY Zenon DEF KeyInv, DataStages, Keyed
  <1>3. MountInv'
      BY Zenon DEF DataInv, MountInv, DataStages, Keyed, Tabled
  <1>4. SaveInv'
      BY Zenon DEF SaveInv, DataStages, Keyed, Tabled
  <1>5. QED
      BY <1>1, <1>2, <1>3, <1>4, Zenon DEF DataInv

(* The same for a step that leaves the data alone altogether. *)
LEMMA Aside ==
  ASSUME DataInv, Domains', stage' \notin DataStages,
         stage' = <<"down", "devices">> => mounts' = {},
         UNCHANGED <<sealing, files, durable, saved>>, excuse => excuse', fs'["data"] = fs["data"],
         "data" \in mounts' => "data" \in mounts /\ tables'["data"] = tables["data"]
  PROVE  DataInv'
  <1>1. durable \subseteq files /\ (excuse \/ saved \subseteq durable)
      BY Zenon DEF DataInv, OwnInv, SaveInv
  <1>2. QED
      BY <1>1, Elsewhere, Zenon

(* The steps on the image partition. *)
LEMMA ImageSteps ==
  ASSUME DataInv,
         \/ derive_key_for("image") \/ create_device("image") \/ load_table("image")
         \/ try_mount("image") \/ formatfs("image") \/ remount("image")
  PROVE  DataInv'
  <1>1. UNCHANGED <<sealing, name, files, durable, saved>> /\ (excuse => excuse')
    <2>1. UNCHANGED <<sealing, name, files, durable, saved>>
        BY Zenon DEF derive_key_for, create_device, load_table, try_mount, formatfs, remount, Wipe, config, data
    <2>2. excuse => excuse'
        BY Zenon DEF derive_key_for, create_device, load_table, try_mount, formatfs, remount, data
    <2>3. QED
        BY <2>1, <2>2, Zenon
  <1>2. stage' \notin DataStages /\ stage' # <<"down", "devices">>
      BY DEF derive_key_for, create_device, load_table, try_mount, formatfs, remount, Mounted, Failed, DataStages,
             Keyed, Tabled, InUse, Running, At
  <1>3. /\ DOMAIN keyring' = DOMAIN keyring /\ DOMAIN tables' = DOMAIN tables /\ DOMAIN fs' = DOMAIN fs
      BY Zenon DEF derive_key_for, create_device, load_table, try_mount, formatfs, remount, logon_seal, device_create, load,
             Mounted, kernel
  <1>4. tables'["data"] = tables["data"] /\ fs'["data"] = fs["data"]
      BY Zenon DEF DataInv, Domains, Partitions, derive_key_for, create_device, load_table, try_mount, formatfs, remount,
             device_create, load, Mounted, kernel
  <1>5. "data" \in mounts' => "data" \in mounts
      BY DEF derive_key_for, create_device, load_table, try_mount, formatfs, remount, Mounted, kernel
  <1>6. meta' \in {meta, None}
      BY Zenon DEF derive_key_for, create_device, load_table, try_mount, formatfs, remount, Wipe, disk
  <1>7. Domains'
      BY <1>1, <1>3, <1>6, Zenon DEF DataInv, Domains
  <1>8. QED
      BY <1>1, <1>2, <1>4, <1>5, <1>7, Aside, Zenon

(* Keys, devices and tables of the data partition. *)
LEMMA KeySteps ==
  ASSUME DataInv, derive_key_for("data") \/ create_device("data") \/ load_table("data")
  PROVE  DataInv'
  <1> USE DEF data, config, kernel
  <1>1. UNCHANGED <<meta, sealing, name, measured, mounts, fs, files, durable, saved>> /\ (excuse => excuse')
    <2>1. UNCHANGED <<meta, sealing, name, measured, mounts, fs, files, durable, saved>>
        BY Zenon DEF derive_key_for, create_device, load_table, disk
    <2>2. excuse => excuse'
        BY Zenon DEF derive_key_for, create_device, load_table
    <2>3. QED
        BY <2>1, <2>2, Zenon
  <1>2. /\ DOMAIN keyring' = DOMAIN keyring /\ DOMAIN tables' = DOMAIN tables
      BY Zenon DEF derive_key_for, create_device, load_table, logon_seal, device_create, load
  <1>3. Domains'
      BY <1>1, <1>2, Zenon DEF DataInv, Domains
  <1>4. OwnInv'
      BY <1>1, Zenon DEF DataInv, OwnInv
  <1>5. CASE derive_key_for("data") /\ stage' = At("device")
    <2>1. /\ stage = At("key") /\ keyring'["data"] = DataKey(sealing, name, measured) /\ tables' = tables
          /\ excuse' = (excuse \/ \E f \in saved : ~SameOwner(f, <<name, measured>>))
        BY <1>5, KeyOfData, Zenon DEF DataInv, Domains, Partitions, derive_key_for, logon_seal, At, Failed
    <2>2. excuse' \/ \A f \in saved : DataKey(sealing, f[1], f[2]) = DataKey(sealing, name, measured)
      <3> SUFFICES ASSUME ~excuse', NEW f \in saved
                   PROVE  DataKey(sealing, f[1], f[2]) = DataKey(sealing, name, measured)
          BY Zenon
      <3>1. SameOwner(f, <<name, measured>>)
          BY <2>1, Zenon
      <3>2. QED
          BY <3>1, OwnerKeeps
    <2>3. KeyInv'
        BY <1>1, <1>5, <2>1, Zenon DEF DataInv, KeyInv, DataStages, Keyed, Tabled, InUse, Running, At
    <2>4. MountInv'
        BY <1>1, <1>5, <2>1, Zenon DEF DataInv, MountInv, InUse, Running, At
    <2>5. SaveInv'
        BY <1>1, <1>5, <2>2, Zenon DEF DataInv, SaveInv, At
    <2>6. QED
        BY <1>3, <1>4, <2>3, <2>4, <2>5, Zenon DEF DataInv
  <1>6. CASE create_device("data") /\ stage' = At("table")
    <2>1. stage = At("device") /\ tables["data"] = NoKey /\ keyring' = keyring /\ excuse' = excuse
        BY <1>6, Zenon DEF create_device, At, Failed
    <2>2. "data" \notin mounts
        BY <2>1, Zenon DEF DataInv, MountInv
    <2>3. KeyInv'
        BY <1>1, <1>6, <2>1, Zenon DEF DataInv, KeyInv, DataStages, Keyed, Tabled, InUse, Running, At
    <2>4. MountInv'
        BY <1>1, <1>6, <2>2, Zenon DEF MountInv, InUse, Running, At
    <2>5. SaveInv'
        BY <1>1, <1>6, <2>1, <2>2, Zenon DEF DataInv, SaveInv, At
    <2>6. QED
        BY <1>3, <1>4, <2>3, <2>4, <2>5, Zenon DEF DataInv
  <1>7. CASE load_table("data") /\ stage' = At("mount")
    <2>1. stage = At("table") /\ tables'["data"] = keyring["data"] /\ keyring' = keyring /\ excuse' = excuse
        BY <1>7, Zenon DEF DataInv, Domains, Partitions, load_table, load, At, Failed
    <2>2. "data" \notin mounts
        BY <2>1, Zenon DEF DataInv, MountInv
    <2>3. KeyInv'
        BY <1>1, <1>7, <2>1, Zenon DEF DataInv, KeyInv, DataStages, Keyed, Tabled, InUse, Running, At
    <2>4. MountInv'
        BY <1>1, <1>7, <2>2, Zenon DEF MountInv, InUse, Running, At
    <2>5. SaveInv'
        BY <1>1, <1>7, <2>1, <2>2, Zenon DEF DataInv, SaveInv, At
    <2>6. QED
        BY <1>3, <1>4, <2>3, <2>4, <2>5, Zenon DEF DataInv
  <1>8. CASE stage' = Failed
    <2>1. stage' \notin DataStages /\ stage' # <<"down", "devices">>
        BY <1>8, Zenon DEF Failed, DataStages, Keyed, Tabled, InUse, Running, At
    <2>2. "data" \in mounts => tables' = tables
        BY Zenon DEF DataInv, MountInv, derive_key_for, create_device, load_table, At
    <2>3. QED
        BY <1>1, <1>3, <2>1, <2>2, Aside, Zenon
  <1>9. QED
      BY <1>5, <1>6, <1>7, <1>8, Zenon DEF derive_key_for, create_device, load_table, At

(* A partition whose key is not that of the device holds nothing of the     *)
(* application that is set up.                                              *)
LEMMA NothingToLose ==
  ASSUME DataInv, stage = At("mount"), fs["data"] # tables["data"]
  PROVE  excuse \/ saved = {}
  <1> SUFFICES ASSUME ~excuse, NEW f \in saved PROVE FALSE
      BY Zenon
  <1>1. f \in files
      BY Zenon DEF DataInv, SaveInv, OwnInv
  <1>2. DataKey(sealing, f[1], f[2]) = fs["data"]
      BY <1>1, Zenon DEF DataInv, OwnInv
  <1>3. "data" \notin mounts
      BY Zenon DEF DataInv, MountInv
  <1>4. DataKey(sealing, f[1], f[2]) = DataKey(sealing, name, measured)
      BY <1>3, Zenon DEF DataInv, SaveInv
  <1>5. tables["data"] = DataKey(sealing, name, measured)
      BY Zenon DEF DataInv, KeyInv, Keyed, Tabled
  <1>6. QED
      BY <1>2, <1>4, <1>5, Zenon

(* Mounting the data partition, the first and the second time. *)
LEMMA MountSteps ==
  ASSUME DataInv, try_mount("data") \/ remount("data")
  PROVE  DataInv'
  <1> USE DEF data, config, kernel
  <1>1. /\ UNCHANGED <<meta, sealing, name, measured, keyring, tables, fs, files, durable, saved>>
      BY Zenon DEF try_mount, remount, disk
  <1>2. excuse => excuse'
      BY Zenon DEF try_mount, remount
  <1>3. Domains' /\ OwnInv'
      BY <1>1, Zenon DEF DataInv, Domains, OwnInv
  <1>4. /\ stage \in {At("mount"), At("remount")} /\ "data" \notin mounts
        /\ measured \in Versions /\ tables["data"] = keyring["data"]
        /\ keyring["data"] = DataKey(sealing, name, measured) /\ name \in Names
      BY Zenon DEF DataInv, KeyInv, MountInv, Domains, try_mount, remount, DataStages, Keyed, Tabled, At
  <1>5. excuse' \/ saved' \subseteq durable'
      BY <1>1, <1>2, Zenon DEF DataInv, SaveInv
  <1>6. CASE stage' = <<"app", "overlay">>
    <2>1. fs["data"] = tables["data"] /\ "data" \in mounts'
        BY <1>6, Zenon DEF try_mount, remount, Mounted, Failed
    <2>2. KeyInv'
        BY <1>1, <1>4, <1>6, Zenon DEF KeyInv, DataStages, Keyed, Tabled, InUse
    <2>3. tables["data"] # NoKey
        BY <1>4, KeyIsKey, Zenon
    <2>4. MountInv'
        BY <1>1, <1>6, <2>1, <2>3, Zenon DEF MountInv, At
    <2>5. SaveInv'
        BY <1>5, <1>6, Zenon DEF SaveInv, At
    <2>6. QED
        BY <1>3, <2>2, <2>4, <2>5, Zenon DEF DataInv
  <1>7. CASE stage' = At("format")
    <2>1. mounts' = mounts /\ stage = At("mount") /\ (fs["data"] # tables["data"] \/ excuse' = TRUE)
        BY <1>7, Zenon DEF try_mount, remount, Mounted, Failed, At
    <2>2. excuse' \/ saved' = {}
        BY <1>1, <1>2, <2>1, NothingToLose, Zenon
    <2>3. KeyInv'
        BY <1>1, <1>4, <1>7, Zenon DEF KeyInv, DataStages, Keyed, Tabled, InUse
    <2>4. MountInv'
        BY <1>4, <1>7, <2>1, Zenon DEF MountInv, InUse, Running, At
    <2>5. SaveInv'
        BY <1>5, <1>7, <2>2, Zenon DEF SaveInv, At
    <2>6. QED
        BY <1>3, <2>3, <2>4, <2>5, Zenon DEF DataInv
  <1>8. CASE stage' = Failed
    <2>1. mounts' = mounts /\ stage' \notin DataStages /\ stage' # <<"down", "devices">>
        BY <1>8, Zenon DEF try_mount, remount, Mounted, Failed, DataStages, Keyed, Tabled, InUse, Running, At
    <2>2. QED
        BY <1>1, <1>2, <1>3, <2>1, Aside, Zenon
  <1>9. QED
      BY <1>6, <1>7, <1>8, Zenon DEF try_mount, remount, Mounted, At

(* Formatting the data partition. *)
LEMMA FormatSteps ==
  ASSUME DataInv, formatfs("data")
  PROVE  DataInv'
  <1> USE DEF data, config, kernel
  <1>1. /\ UNCHANGED <<meta, sealing, name, measured, keyring, tables, mounts, saved, excuse>>
        /\ stage = At("format") /\ stage' \in {At("remount"), Failed}
        /\ DOMAIN fs' = DOMAIN fs
        /\ (files' = {} /\ durable' = {}) \/ UNCHANGED <<fs, files, durable>>
      BY Zenon DEF formatfs, Wipe, disk, At
  <1>2. Domains' /\ OwnInv'
      BY <1>1, Zenon DEF DataInv, Domains, OwnInv
  <1>3. "data" \notin mounts /\ (excuse \/ saved = {})
      BY <1>1, Zenon DEF DataInv, MountInv, SaveInv
  <1>4. KeyInv'
      BY <1>1, Zenon DEF DataInv, KeyInv, DataStages, Keyed, Tabled, InUse, Running, Failed, At
  <1>5. MountInv'
      BY <1>1, <1>3 DEF MountInv, InUse, Running, Failed, At
  <1>6. SaveInv'
      BY <1>1, <1>3, Zenon DEF SaveInv, Failed, At
  <1>7. QED
      BY <1>2, <1>4, <1>5, <1>6, Zenon DEF DataInv

(* The image is installed, and the data partition set up for it. *)
LEMMA InstallSteps ==
  ASSUME LauncherInv, DataInv, install_image
  PROVE  DataInv'
  <1>1. /\ UNCHANGED <<sealing, name, keyring, tables, mounts, fs, files, durable, saved, excuse>>
        /\ stage = <<"app", "install">>
        /\ stage' = IF pc' = "Prepare" THEN At("key") ELSE IF pc' = "Err" THEN Failed ELSE stage
      BY Zenon DEF install_image, data, config, kernel, At
  <1>2. /\ meta' \in Versions \cup {None, "Torn"}
        /\ pc' = "Prepare" => measured' \in Versions
    <2>1. meta \in Versions \cup {None, "Torn"}
        BY Zenon DEF DataInv, Domains
    <2>2. CASE decide
      <3>1. current = IF meta = "Torn" THEN None ELSE meta
          BY <2>2, Zenon DEF decide, LauncherInv, MeasureInv
      <3>2. QED
          BY <2>1, <2>2, <3>1, Zenon DEF decide, disk
    <2>3. CASE save_metadata
      <3>1. new \in Versions
          BY <2>3, LauncherAssumption, Zenon DEF save_metadata, LauncherInv, SignedInv, Updating
      <3>2. QED
          BY <2>1, <2>3, <3>1, Zenon DEF save_metadata
    <2>4. CASE create_oci_client \/ fetch \/ unpack_image \/ rmrf_img \/ rename \/ cleanup
        BY <2>1, <2>4, Zenon DEF create_oci_client, fetch, unpack_image, rmrf_img, rename, cleanup, disk
    <2>5. QED
        BY <2>2, <2>3, <2>4, Zenon DEF install_image, install
  <1>3. Domains' /\ OwnInv'
      BY <1>1, <1>2, Zenon DEF DataInv, Domains, OwnInv
  <1>4. KeyInv'
      BY <1>1, <1>2, Zenon DEF KeyInv, DataStages, Keyed, Tabled, InUse, Running, Failed, At
  <1>5. MountInv' /\ SaveInv'
      BY <1>1, Zenon DEF DataInv, MountInv, SaveInv, InUse, Running, Failed, At
  <1>6. QED
      BY <1>3, <1>4, <1>5, Zenon DEF DataInv

(* The application is prepared on the mounted data, and writes to it. *)
LEMMA UseSteps ==
  ASSUME DataInv, mount_overlayfs \/ prepare_handler \/ write_data
  PROVE  DataInv'
  <1> USE DEF data, config, kernel, launcherVars, disk
  <1>1. /\ UNCHANGED <<meta, sealing, name, measured, keyring, tables, fs, durable, saved, excuse>>
        /\ mounts' \in {mounts, mounts \cup {"overlay"}}
        /\ files' = files \/ files' = files \cup {<<name, measured>>}
        /\ stage \in InUse /\ stage' \in InUse \cup {Failed}
      BY Zenon DEF mount_overlayfs, prepare_handler, prepare, write_data, InUse
  <1>2. /\ measured \in Versions /\ name \in Names /\ "data" \in mounts /\ fs["data"] = tables["data"]
        /\ tables["data"] = keyring["data"] /\ keyring["data"] = DataKey(sealing, name, measured)
      BY <1>1, Zenon DEF DataInv, Domains, KeyInv, MountInv, DataStages, Keyed, Tabled
  <1>3. Domains' /\ OwnInv'
      BY <1>1, <1>2 DEF DataInv, Domains, OwnInv
  <1>4. KeyInv'
      BY <1>1, <1>2, Zenon DEF KeyInv
  <1>5. MountInv'
      BY <1>1, <1>2 DEF DataInv, MountInv, InUse, Running, Failed, At
  <1>6. SaveInv'
      BY <1>1 DEF DataInv, SaveInv, InUse, Running, Failed, At
  <1>7. QED
      BY <1>3, <1>4, <1>5, <1>6, Zenon DEF DataInv

(* The kernel writes back what is mounted. *)
LEMMA WritebackStep ==
  ASSUME DataInv, writeback
  PROVE  DataInv'
  <1>1. /\ UNCHANGED <<meta, stage, sealing, name, measured, keyring, tables, mounts, fs, files>>
        /\ \/ "data" \in mounts /\ durable' = files /\ saved' = files
           \/ UNCHANGED <<durable, saved, excuse>>
      BY Zenon DEF writeback, Saved, launcherVars, disk, config, kernel
  <1>2. Domains' /\ OwnInv' /\ KeyInv' /\ MountInv'
      BY <1>1, Zenon DEF DataInv, Domains, OwnInv, KeyInv, MountInv
  <1>3. SaveInv'
      BY <1>1, Zenon DEF DataInv, SaveInv, MountInv
  <1>4. QED
      BY <1>2, <1>3, Zenon DEF DataInv

(* The realm is provisioned, shut down, or stops. *)
LEMMA RealmSteps ==
  ASSUME DataInv,
         \/ provision \/ aborted \/ stop_application \/ umount \/ remove_devices \/ shutdown_failed
         \/ reboot \/ power_loss \/ power_on
  PROVE  DataInv'
  <1> USE DEF data, config, kernel, launcherVars, disk
  <1>1. stage' \notin DataStages /\ (stage' = <<"down", "devices">> => mounts' = {})
    <2>1. CASE provision \/ aborted \/ stop_application \/ shutdown_failed \/ reboot \/ power_loss \/ power_on
      <3>1. stage' \in {<<"image", "key">>, Failed, <<"down", "umount">>, Sync, Off, <<"realm", "up">>}
          BY <2>1, Zenon DEF provision, aborted, stop_application, shutdown_failed, reboot, power_loss, power_on,
                             Stopped
      <3>2. QED
          BY <3>1 DEF DataStages, Keyed, Tabled, InUse, Running, Failed, Sync, Off, At
    <2>2. CASE umount
      <3>1. stage' \in {<<"down", "umount">>, Sync} \/ (stage' = <<"down", "devices">> /\ mounts' = {})
          BY <2>2, Zenon DEF umount
      <3>2. QED
          BY <3>1 DEF DataStages, Keyed, Tabled, InUse, Running, Sync, At
    <2>3. CASE remove_devices
      <3>1. stage' \in {<<"down", "devices">>, Sync} /\ mounts' = {}
          BY <2>3, Zenon DEF remove_devices, DataInv, MountInv
      <3>2. QED
          BY <3>1 DEF DataStages, Keyed, Tabled, InUse, Running, Sync, At
    <2>4. QED
        BY <2>1, <2>2, <2>3, Zenon
  <1>2. Domains'
    <2>1. meta' \in {meta, "Torn"} /\ name' \in Names
        BY Zenon DEF DataInv, Domains, provision, from_oci_config, aborted, stop_application, umount, remove_devices,
               shutdown_failed, reboot, power_loss, power_on, CutOff
    <2>2. DOMAIN keyring' = Partitions /\ DOMAIN tables' = Partitions /\ DOMAIN fs' = Partitions
        BY Zenon DEF DataInv, Domains, provision, aborted, stop_application, umount, remove_devices, shutdown_failed,
                     reboot, power_loss, power_on, Stopped, NoPartition, device_remove
    <2>3. QED
        BY <2>1, <2>2, Zenon DEF DataInv, Domains
  <1>3. sealing' = sealing /\ fs' = fs
      BY Zenon DEF provision, aborted, stop_application, umount, remove_devices, shutdown_failed, reboot, power_loss,
                   power_on
  <1>4. "data" \in mounts' => "data" \in mounts /\ tables' = tables
      BY Zenon DEF DataInv, MountInv, provision, aborted, stop_application, umount, remove_devices, shutdown_failed,
                   reboot, power_loss, power_on, Stopped
  <1>5. /\ files' \subseteq files /\ durable' \subseteq files'
        /\ excuse' \/ saved' \subseteq durable'
    <2>1. durable \subseteq files /\ (excuse \/ saved \subseteq durable)
        BY Zenon DEF DataInv, OwnInv, SaveInv
    <2>2. CASE umount \/ reboot
      <3>1. files' = files /\ ((durable' = files /\ saved' = files) \/ UNCHANGED <<durable, saved, excuse>>)
          BY <2>2, Zenon DEF umount, reboot, Saved
      <3>2. QED
          BY <2>1, <3>1, Zenon
    <2>3. CASE power_loss
      <3>1. files' \in {files, durable} /\ durable' = files' /\ UNCHANGED <<saved, excuse>>
          BY <2>3, Zenon DEF power_loss
      <3>2. QED
          BY <2>1, <3>1, Zenon
    <2>4. CASE provision \/ aborted \/ stop_application \/ remove_devices \/ shutdown_failed \/ power_on
      <3>1. UNCHANGED <<files, durable, saved, excuse>>
          BY <2>4, Zenon DEF provision, aborted, stop_application, remove_devices, shutdown_failed, power_on
      <3>2. QED
          BY <2>1, <3>1, Zenon
    <2>5. QED
        BY <2>2, <2>3, <2>4, Zenon
  <1>6. QED
      BY <1>1, <1>2, <1>3, <1>4, <1>5, Elsewhere, Zenon

(* Every step keeps the invariant of the data partition. *)
LEMMA NextData == LauncherInv /\ DataInv /\ [SetupNext]_setupVars => DataInv'
  <1> SUFFICES ASSUME LauncherInv, DataInv, [SetupNext]_setupVars PROVE DataInv'
      BY Zenon
  <1>1. ASSUME NEW p \in Partitions,
               derive_key_for(p) \/ create_device(p) \/ load_table(p) \/ try_mount(p) \/ formatfs(p) \/ remount(p)
        PROVE  DataInv'
      BY <1>1, ImageSteps, KeySteps, MountSteps, FormatSteps, Zenon DEF Partitions
  <1>2. CASE UNCHANGED setupVars
      BY <1>2, ZenonT(60) DEF setupVars, launcherVars, disk, data, config, kernel, DataInv, Domains, OwnInv, KeyInv,
                         MountInv, SaveInv
  <1>3. QED
      BY <1>1, <1>2, InstallSteps, UseSteps, WritebackStep, RealmSteps, Zenon DEF SetupNext

(* The invariant holds in every behaviour. *)
THEOREM DataInvariance == SetupSpec => []DataInv
  <1>1. SetupInit /\ [][SetupNext]_setupVars /\ []LauncherInv => []DataInv
      BY InitData, NextData, PTL
  <1>2. QED
      BY <1>1, LauncherInvariance, PTL DEF SetupSpec

(* DataOfOwner for every set of names, vendors and images: a running        *)
(* application sees only files of its own name, vendor certificate and,     *)
(* where the sealing is bound to it, image (key/hkdf.rs, app.rs setup).     *)
THEOREM OwnersOnly == SetupSpec => []DataOfOwner
  <1>1. DataInv => DataOfOwner
    <2> SUFFICES ASSUME DataInv, stage = Running, NEW f \in files PROVE SameOwner(f, <<name, measured>>)
        BY Zenon DEF DataOfOwner
    <2>1. /\ measured \in Versions /\ name \in Names /\ fs["data"] = DataKey(sealing, name, measured)
        BY Zenon DEF DataInv, Domains, KeyInv, MountInv, DataStages, Keyed, Tabled, InUse
    <2>2. f[1] \in Names /\ f[2] \in Versions /\ DataKey(sealing, f[1], f[2]) = DataKey(sealing, name, measured)
        BY <2>1, Zenon DEF DataInv, OwnInv
    <2>3. f[1] = name /\ VendorData[f[2]] = VendorData[measured] /\ (sealing = "HkdfRim" => f[2] = measured)
        BY <2>1, <2>2, KeyTells
    <2>4. QED
        BY <2>3, Zenon DEF SameOwner, use_image_hash
  <1>2. QED
      BY <1>1, DataInvariance, PTL

(* RunsMeasured for every set of images and vendors and any number of       *)
(* failures and boots: below, the root of an application is the image that  *)
(* install reported, unless an update was cut off since the last clean one; *)
(* above are files written under images of its vendor, and under no other   *)
(* image where the sealing is bound to it (launcher/oci.rs, app.rs setup).  *)
THEOREM MeasuredRuns == SetupSpec => []RunsMeasured
  <1>1. LauncherInv /\ RunInv /\ DataOfOwner => RunsMeasured
    <2> SUFFICES ASSUME LauncherInv, RunInv, DataOfOwner, stage = Running, ~torn PROVE RunsMeasured
        BY Zenon DEF RunsMeasured
    <2>1. img = All(measured)
        BY Zenon DEF LauncherInv, InstallInv, MeasureInv, Intact, RunInv
    <2>2. ASSUME NEW f \in files
          PROVE  VendorData[f[2]] = VendorData[measured] /\ (use_image_hash => f[2] = measured)
      <3>1. SameOwner(f, <<name, measured>>)
          BY Zenon DEF DataOfOwner
      <3>2. QED
          BY <3>1 DEF SameOwner
    <2>3. QED
        BY <2>1, <2>2, Zenon DEF RunsMeasured
  <1>2. QED
      BY <1>1, LauncherInvariance, RunInvariance, OwnersOnly, PTL

(* DataSurvives for any number of boots, failures and stops of the realm:   *)
(* mount-or-format never destroys data that was written back, unless mount  *)
(* failed or another identity was set up on the partition (app.rs setup,    *)
(* try_mount_or_format_partition).                                          *)
THEOREM WrittenSurvives == SetupSpec => []DataSurvives
  <1>1. DataInv => DataSurvives
      BY Zenon DEF DataInv, OwnInv, SaveInv, DataSurvives
  <1>2. QED
      BY <1>1, DataInvariance, PTL
-------------------------------------------------------------------------------
(* Types, the devices of the application and the mount of its image.         *)

LEMMA FaultType ==
  ASSUME faults \in 0..MaxFaults, Fault \/ UNCHANGED faults
  PROVE  faults' \in 0..MaxFaults
  BY LauncherAssumption DEF Fault

(* Every step counts at most one failure. *)
LEMMA FaultSteps ==
  ASSUME [SetupNext]_setupVars
  PROVE  Fault \/ UNCHANGED faults
  <1>1. ASSUME NEW p \in Partitions,
               derive_key_for(p) \/ create_device(p) \/ load_table(p) \/ try_mount(p) \/ formatfs(p) \/ remount(p)
        PROVE  Fault \/ UNCHANGED faults
      BY <1>1, Zenon DEF derive_key_for, create_device, load_table, try_mount, formatfs, remount
  <1>2. CASE install_image
      BY <1>2, Zenon DEF install_image, install, create_oci_client, fetch, decide, unpack_image, rmrf_img, rename,
                         cleanup, save_metadata
  <1>3. CASE provision \/ mount_overlayfs \/ prepare_handler \/ aborted \/ umount \/ remove_devices \/ reboot
             \/ power_loss
      BY <1>3, Zenon DEF provision, mount_overlayfs, prepare_handler, prepare, aborted, umount, remove_devices,
                         reboot, power_loss
  <1>4. CASE write_data \/ writeback \/ stop_application \/ shutdown_failed \/ power_on \/ UNCHANGED setupVars
      BY <1>4, Zenon DEF write_data, writeback, stop_application, shutdown_failed, power_on, setupVars, launcherVars
  <1>5. QED
      BY <1>1, <1>2, <1>3, <1>4, Zenon DEF SetupNext

(* Files that are cut short, and those an installation adds. *)
LEMMA FilesType ==
  ASSUME NEW dir \in Files
  PROVE  /\ Part(dir) \in Files /\ {} \in Files
         /\ \A v \in Versions : dir \cup {<<v, "part">>} \in Files /\ (dir \ {<<v, "part">>}) \cup All(v) \in Files
  BY DEF Files, Part, All

(* The variables of the launcher, without the counter. *)
LauncherTypes ==
    /\ img \in Files /\ unpack \in Files
    /\ meta \in Versions \cup {None, "Torn"}
    /\ pc \in {"Idle", "Client", "Fetch", "Decide", "Prepare", "Ready", "Err"} \cup Updating
    /\ new \in Versions \cup {None} /\ current \in Versions \cup {None}
    /\ result \in {"None", "Clean", "Mixed", "Err"} /\ measured \in Versions \cup {None}

LEMMA CutOffTypes ==
  ASSUME NEW u, LauncherInv, LauncherTypes, CutOff(u)
  PROVE  img' \in Files /\ unpack' \in Files /\ meta' \in Versions \cup {None, "Torn"}
  <1>1. pc \in Updating => new \in Versions
      BY LauncherAssumption, Zenon DEF LauncherInv, SignedInv
  <1>2. /\ img' = img \/ img' = Part(img)
        /\ \/ unpack' = unpack \/ unpack' = Part(unpack)
           \/ pc = "Unpack" /\ unpack' = unpack \cup {<<new, "part">>}
        /\ meta' \in {meta, "Torn"}
      BY Zenon DEF CutOff, disk
  <1>3. img' \in Files
      BY <1>2, FilesType, Zenon DEF LauncherTypes
  <1>4. unpack' \in Files
      BY <1>1, <1>2, FilesType, Zenon DEF LauncherTypes, Updating
  <1>5. QED
      BY <1>2, <1>3, <1>4, Zenon DEF LauncherTypes

LEMMA InstallTypes ==
  ASSUME LauncherInv, LauncherTypes, install
  PROVE  LauncherTypes'
  <1>1. pc \in Updating => new \in Versions
      BY LauncherAssumption, Zenon DEF LauncherInv, SignedInv
  <1>2. CASE create_oci_client \/ fetch \/ decide
    <2>1. /\ UNCHANGED <<img, unpack, meta, result>> /\ pc' \in {"Fetch", "Err", "Decide", "Prepare", "Unpack"}
          /\ new' \in Versions \cup {None}
        BY <1>2, Zenon DEF create_oci_client, fetch, decide, disk, LauncherTypes
    <2>2. current' \in Versions \cup {None} /\ measured' \in Versions \cup {None}
        BY <1>2, Zenon DEF create_oci_client, fetch, decide, LauncherTypes
    <2>3. QED
        BY <2>1, <2>2, Zenon DEF LauncherTypes, Updating
  <1>3. CASE unpack_image
    <2>1. unpack' \in Files
        BY <1>1, <1>3, FilesType, Zenon DEF unpack_image, LauncherTypes, Updating
    <2>2. QED
        BY <1>3, <2>1, Zenon DEF unpack_image, LauncherTypes, Updating
  <1>4. CASE rmrf_img
    <2>1. img' \in Files
        BY <1>4, FilesType, Zenon DEF rmrf_img, LauncherTypes
    <2>2. QED
        BY <1>4, <2>1, Zenon DEF rmrf_img, LauncherTypes, Updating
  <1>5. CASE rename
    <2>1. img' \in Files /\ unpack' \in Files
        BY <1>5, FilesType, Zenon DEF rename, LauncherTypes
    <2>2. QED
        BY <1>5, <2>1, Zenon DEF rename, LauncherTypes, Updating
  <1>6. CASE cleanup
    <2>1. unpack' \in Files
        BY <1>6, FilesType, Zenon DEF cleanup, LauncherTypes
    <2>2. QED
        BY <1>6, <2>1, Zenon DEF cleanup, LauncherTypes, Updating
  <1>7. CASE save_metadata
    <2>1. new \in Versions /\ UNCHANGED <<img, unpack, new, current, result>>
        BY <1>1, <1>7, Zenon DEF save_metadata, Updating
    <2>2. meta' \in {meta, "Torn", new} /\ measured' \in {measured, new} /\ pc' \in {"Write", "Prepare", "Err"}
        BY <1>7, Zenon DEF save_metadata
    <2>3. QED
        BY <2>1, <2>2, Zenon DEF LauncherTypes, Updating
  <1>8. QED
      BY <1>2, <1>3, <1>4, <1>5, <1>6, <1>7, Zenon DEF install

LEMMA NextLauncherTypes ==
  ASSUME LauncherInv, LauncherTypes, [SetupNext]_setupVars
  PROVE  LauncherTypes'
  <1>1. CASE Quiet
      BY <1>1, Zenon DEF Quiet, LauncherTypes
  <1>2. CASE Wiped
    <2>1. {} \in Files
        BY FilesType, Zenon DEF LauncherTypes
    <2>2. QED
        BY <1>2, <2>1, Zenon DEF Wiped, LauncherTypes
  <1>3. CASE provision
      BY <1>3, Zenon DEF provision, from_oci_config, disk, LauncherTypes
  <1>4. CASE install_image
      BY <1>4, InstallTypes, Zenon DEF install_image
  <1>5. CASE prepare_handler
      BY <1>5, Zenon DEF prepare_handler, prepare, disk, LauncherTypes
  <1>6. CASE aborted
    <2>1. img' \in Files /\ unpack' \in Files /\ meta' \in Versions \cup {None, "Torn"}
        BY <1>6, CutOffTypes, Zenon DEF aborted
    <2>2. QED
        BY <1>6, <2>1, Zenon DEF aborted, LauncherTypes
  <1>7. CASE Halted /\ stage = Sync /\ UNCHANGED <<disk, torn>>
      BY <1>7, Zenon DEF Halted, disk, LauncherTypes
  <1>8. CASE Halted /\ CutOff(unsaved)
    <2>1. img' \in Files /\ unpack' \in Files /\ meta' \in Versions \cup {None, "Torn"}
        BY <1>8, CutOffTypes, Zenon
    <2>2. QED
        BY <1>8, <2>1, Zenon DEF Halted, LauncherTypes
  <1>9. QED
      BY <1>1, <1>2, <1>3, <1>4, <1>5, <1>6, <1>7, <1>8, Steps, Zenon

(* Where a step leads. *)
LEMMA StageSteps ==
  ASSUME stage \in Stages, [SetupNext]_setupVars
  PROVE  stage' \in Stages
  <1>1. ASSUME NEW p \in Partitions,
               derive_key_for(p) \/ create_device(p) \/ load_table(p) \/ try_mount(p) \/ formatfs(p) \/ remount(p)
        PROVE  stage' \in Stages
    <2>1. \/ stage' \in {<<p, t>> : t \in {"device", "table", "mount", "format", "remount"}}
          \/ stage' \in {Failed, <<"app", "install">>, <<"app", "overlay">>}
        BY <1>1, Zenon DEF derive_key_for, create_device, load_table, try_mount, formatfs, remount, Mounted
    <2>2. QED
        BY <2>1 DEF Stages, AtSetup
  <1>2. CASE provision \/ install_image \/ mount_overlayfs \/ prepare_handler \/ aborted \/ write_data \/ writeback
             \/ stop_application \/ umount \/ remove_devices \/ shutdown_failed \/ reboot \/ power_loss \/ power_on
             \/ UNCHANGED setupVars
    <2>1. stage' \in {stage, <<"image", "key">>, <<"data", "key">>, Failed, <<"app", "prepare">>, Running, Sync, Off,
                      <<"down", "umount">>, <<"down", "devices">>, <<"realm", "up">>}
        BY <1>2, Zenon DEF provision, install_image, mount_overlayfs, prepare_handler, aborted, write_data, writeback,
                    stop_application, umount, remove_devices, shutdown_failed, reboot, power_loss, power_on, Stopped,
                    setupVars, kernel
    <2>2. QED
        BY <2>1 DEF Stages, AtSetup, Partitions
  <1>3. QED
      BY <1>1, <1>2, Zenon DEF SetupNext

(* The other variables of the setup. *)
SetupTypes ==
    /\ stage \in Stages /\ sealing \in {"Dummy", "Hkdf", "HkdfRim"}
    /\ mounts \subseteq Partitions \cup {"overlay"}
    /\ files \subseteq Names \X Versions /\ durable \subseteq Names \X Versions /\ saved \subseteq Names \X Versions
    /\ unsaved \in BOOLEAN /\ excuse \in BOOLEAN /\ boots \in 0..MaxBoots

(* What is written back is one of the three sets, or {}. *)
LEMMA SetTypes ==
  ASSUME SetupTypes, DataInv, [SetupNext]_setupVars
  PROVE  /\ files' \subseteq Names \X Versions /\ durable' \subseteq Names \X Versions
         /\ saved' \subseteq Names \X Versions
  <1> USE DEF data
  <1>1. stage = Running => <<name, measured>> \in Names \X Versions
    <2>1. stage = Running => name \in Names /\ measured \in Versions
        BY Zenon DEF DataInv, Domains, KeyInv, DataStages, Keyed, Tabled, InUse
    <2>2. QED
        BY <2>1, Zenon
  <1>2. /\ files' \in {files, durable, {}} \/ (stage = Running /\ files' = files \cup {<<name, measured>>})
        /\ durable' \in {files, durable, {}} /\ saved' \in {files, saved}
    <2>1. ASSUME NEW p \in Partitions,
                 derive_key_for(p) \/ create_device(p) \/ load_table(p) \/ try_mount(p) \/ formatfs(p) \/ remount(p)
          PROVE  files' \in {files, {}} /\ durable' \in {durable, {}} /\ saved' = saved
        BY <2>1, Zenon DEF derive_key_for, create_device, load_table, try_mount, formatfs, remount, Wipe
    <2>2. CASE provision \/ install_image \/ mount_overlayfs \/ prepare_handler \/ aborted \/ stop_application
               \/ remove_devices \/ shutdown_failed \/ power_on \/ UNCHANGED setupVars
        BY <2>2, Zenon DEF provision, install_image, mount_overlayfs, prepare_handler, aborted, stop_application,
                           remove_devices, shutdown_failed, power_on, setupVars
    <2>3. CASE write_data \/ writeback \/ umount \/ reboot \/ power_loss
        BY <2>3, Zenon DEF write_data, writeback, umount, reboot, power_loss, Saved
    <2>4. QED
        BY <2>1, <2>2, <2>3, Zenon DEF SetupNext
  <1>3. QED
      BY <1>1, <1>2, Zenon DEF SetupTypes

LEMMA FlagTypes ==
  ASSUME SetupTypes, [SetupNext]_setupVars
  PROVE  unsaved' \in BOOLEAN /\ excuse' \in BOOLEAN
  <1> USE DEF data, SetupTypes
  <1>1. ASSUME NEW p \in Partitions,
               derive_key_for(p) \/ create_device(p) \/ load_table(p) \/ try_mount(p) \/ formatfs(p) \/ remount(p)
        PROVE  unsaved' \in BOOLEAN /\ excuse' \in BOOLEAN
    <2>1. unsaved' \in BOOLEAN
        BY <1>1, Zenon DEF derive_key_for, create_device, load_table, try_mount, formatfs, remount, Wipe
    <2>2. excuse' \in BOOLEAN
        BY <1>1, Zenon DEF derive_key_for, create_device, load_table, try_mount, formatfs, remount
    <2>3. QED
        BY <2>1, <2>2, Zenon
  <1>2. CASE provision \/ install_image \/ mount_overlayfs \/ prepare_handler \/ aborted \/ stop_application
             \/ remove_devices \/ shutdown_failed \/ power_on \/ UNCHANGED setupVars
      BY <1>2, Zenon DEF provision, install_image, mount_overlayfs, prepare_handler, aborted, stop_application,
                         remove_devices, shutdown_failed, power_on, setupVars
  <1>3. CASE write_data \/ writeback \/ umount \/ reboot \/ power_loss
      BY <1>3, Zenon DEF write_data, writeback, umount, reboot, power_loss, Saved
  <1>4. QED
      BY <1>1, <1>2, <1>3, Zenon DEF SetupNext

LEMMA MountTypes ==
  ASSUME SetupTypes, [SetupNext]_setupVars
  PROVE  mounts' \subseteq Partitions \cup {"overlay"}
  <1> USE DEF kernel
  <1>1. ASSUME NEW p \in Partitions,
               derive_key_for(p) \/ create_device(p) \/ load_table(p) \/ try_mount(p) \/ formatfs(p) \/ remount(p)
        PROVE  mounts' \in {mounts, mounts \cup {p}}
      BY <1>1, Zenon DEF derive_key_for, create_device, load_table, try_mount, formatfs, remount, Mounted
  <1>2. CASE provision \/ install_image \/ prepare_handler \/ aborted \/ write_data \/ writeback
             \/ stop_application \/ remove_devices \/ shutdown_failed \/ power_on \/ UNCHANGED setupVars
    <2>1. UNCHANGED mounts
        BY <1>2, Zenon DEF provision, install_image, prepare_handler, aborted, write_data, writeback,
                           stop_application, remove_devices, shutdown_failed, power_on, setupVars
    <2>2. QED
        BY <2>1, Zenon DEF SetupTypes
  <1>3. CASE mount_overlayfs \/ umount \/ reboot \/ power_loss
    <2>1. mounts' \in {mounts, mounts \cup {"overlay"}, {}} \/ \E x : mounts' = mounts \ {x}
        BY <1>3, Zenon DEF mount_overlayfs, umount, reboot, power_loss, Stopped
    <2>2. QED
        BY <2>1, Zenon DEF SetupTypes
  <1>4. QED
      BY <1>1, <1>2, <1>3, Zenon DEF SetupNext, SetupTypes

LEMMA ConfigTypes ==
  ASSUME SetupTypes, [SetupNext]_setupVars
  PROVE  sealing' \in {"Dummy", "Hkdf", "HkdfRim"} /\ boots' \in 0..MaxBoots
  <1> USE DEF config
  <1>1. ASSUME NEW p \in Partitions,
               derive_key_for(p) \/ create_device(p) \/ load_table(p) \/ try_mount(p) \/ formatfs(p) \/ remount(p)
        PROVE  UNCHANGED config
      BY <1>1, Zenon DEF derive_key_for, create_device, load_table, try_mount, formatfs, remount
  <1>2. CASE provision \/ install_image \/ mount_overlayfs \/ prepare_handler \/ aborted \/ write_data \/ writeback
             \/ stop_application \/ umount \/ remove_devices \/ shutdown_failed \/ reboot \/ power_loss
             \/ UNCHANGED setupVars
      BY <1>2, Zenon DEF provision, install_image, mount_overlayfs, prepare_handler, aborted, write_data, writeback,
                         stop_application, umount, remove_devices, shutdown_failed, reboot, power_loss, setupVars,
                         SetupTypes
  <1>3. CASE power_on
    <2>1. sealing' = sealing /\ boots < MaxBoots /\ boots' = boots + 1
        BY <1>3, Zenon DEF power_on
    <2>2. boots' \in 0..MaxBoots
        BY <2>1, SetupAssumption DEF SetupTypes
    <2>3. QED
        BY <2>1, <2>2, Zenon DEF SetupTypes
  <1>4. QED
      BY <1>1, <1>2, <1>3, Zenon DEF SetupNext, SetupTypes
-------------------------------------------------------------------------------
(* Application.devices, and the mount of the image.                          *)

AtImage(t) == <<"image", t>>

(* Before the device of the image has its table Application.devices is      *)
(* empty, and before that of the data partition it holds the image's.       *)
NoDevice == {AtImage("key"), AtImage("device"), AtImage("table")}
OneDevice == {AtImage("mount"), AtImage("format"), AtImage("remount"), <<"app", "install">>,
              At("key"), At("device"), At("table")}

DeviceInv ==
    /\ devices \in {<<>>, <<"image">>, <<"image", "data">>}
    /\ stage \in NoDevice => devices = <<>>
    /\ stage \in OneDevice => devices = <<"image">>

(* What Append does. *)
LEMMA Appended ==
    ASSUME NEW S, NEW s \in Seq(S), NEW x \in S
    PROVE  /\ Append(s, x) \in Seq(S) /\ Len(Append(s, x)) = Len(s) + 1
           /\ \A i \in 1..Len(s) : Append(s, x)[i] = s[i]
           /\ Append(s, x)[Len(s) + 1] = x
  OBVIOUS

(* The devices of an application, in the order of their creation. *)
LEMMA Devices ==
    /\ Append(<<>>, "image") = <<"image">> /\ Append(<<"image">>, "data") = <<"image", "data">>
    /\ SubSeq(<<"image", "data">>, 1, 1) = <<"image">>
  <1> DEFINE S == {"image", "data"}
             one == <<"image">>
             two == <<"image", "data">>
  <1>1. one \in Seq(S) /\ Len(one) = 1 /\ one[1] = "image"
      OBVIOUS
  <1>2. two \in Seq(S) /\ Len(two) = 2 /\ two[1] = "image" /\ two[2] = "data"
      OBVIOUS
  <1>3. Append(<<>>, "image") = <<"image">>
      OBVIOUS
  <1> HIDE DEF one, two
  <1>4. Append(one, "data") = two
    <2>1. /\ Append(one, "data") \in Seq(S) /\ Len(Append(one, "data")) = 2
          /\ Append(one, "data")[1] = "image" /\ Append(one, "data")[2] = "data"
      <3>1. "data" \in S /\ 1 \in 1..Len(one) /\ Len(one) + 1 = 2
          BY <1>1
      <3> HIDE DEF S
      <3>2. \A s \in Seq(S) : \A x \in S :
                 /\ Append(s, x) \in Seq(S) /\ Len(Append(s, x)) = Len(s) + 1
                 /\ \A i \in 1..Len(s) : Append(s, x)[i] = s[i]
                 /\ Append(s, x)[Len(s) + 1] = x
          BY Appended, Zenon
      <3>3. Append(one, "data") \in Seq(S) /\ Len(Append(one, "data")) = Len(one) + 1
          BY <1>1, <3>1, <3>2, Zenon
      <3>4. Append(one, "data")[Len(one) + 1] = "data"
          BY <1>1, <3>1, <3>2, Zenon
      <3>5. Append(one, "data")[1] = one[1]
          BY <1>1, <3>1, <3>2, Zenon
      <3> QED
          BY <1>1, <3>1, <3>3, <3>4, <3>5, Zenon
    <2> QED
        BY <1>2, <2>1
  <1>5. SubSeq(two, 1, 1) = one
    <2>1. SubSeq(two, 1, 1) \in Seq(S) /\ Len(SubSeq(two, 1, 1)) = 1 /\ SubSeq(two, 1, 1)[1] = "image"
        BY <1>2
    <2> QED
        BY <1>1, <2>1
  <1> QED
      BY <1>3, <1>4, <1>5, Zenon DEF one, two

LEMMA DeviceStep ==
  ASSUME DeviceInv, [SetupNext]_setupVars
  PROVE  DeviceInv'
  <1> USE DEF kernel, NoDevice, OneDevice, AtImage, At
  <1>1. CASE derive_key_for("image") \/ create_device("image")
    <2>1. stage \in NoDevice /\ stage' \in NoDevice \cup {Failed} /\ UNCHANGED devices
        BY <1>1, Zenon DEF derive_key_for, create_device
    <2>2. QED
        BY <2>1 DEF DeviceInv, Failed
  <1>2. CASE load_table("image")
    <2>1. devices = <<>>
        BY <1>2, Zenon DEF load_table, DeviceInv
    <2>2. \/ stage' = AtImage("mount") /\ devices' = Append(devices, "image")
          \/ stage' = Failed /\ UNCHANGED devices
        BY <1>2, Zenon DEF load_table
    <2>3. \/ stage' = AtImage("mount") /\ devices' = <<"image">>
          \/ stage' = Failed /\ UNCHANGED devices
        BY <2>1, <2>2, Devices, Zenon
    <2>4. QED
        BY <2>3 DEF DeviceInv, Failed
  <1>3. CASE try_mount("image") \/ formatfs("image") \/ remount("image")
    <2>1. stage \in OneDevice /\ stage' \in OneDevice \cup {Failed} /\ UNCHANGED devices
        BY <1>3, Zenon DEF try_mount, formatfs, remount, Mounted
    <2>2. QED
        BY <2>1 DEF DeviceInv, Failed
  <1>4. CASE derive_key_for("data") \/ create_device("data")
    <2>1. stage \in OneDevice /\ stage' \in OneDevice \cup {Failed} /\ UNCHANGED devices
        BY <1>4, Zenon DEF derive_key_for, create_device
    <2>2. QED
        BY <2>1 DEF DeviceInv, Failed
  <1>5. CASE load_table("data")
    <2>1. devices = <<"image">>
        BY <1>5, Zenon DEF load_table, DeviceInv
    <2>2. \/ stage' = At("mount") /\ devices' = Append(devices, "data")
          \/ stage' = Failed /\ UNCHANGED devices
        BY <1>5, Zenon DEF load_table
    <2>3. \/ stage' = At("mount") /\ devices' = <<"image", "data">>
          \/ stage' = Failed /\ UNCHANGED devices
        BY <2>1, <2>2, Devices, Zenon
    <2>4. QED
        BY <2>3 DEF DeviceInv, Failed
  <1>6. CASE try_mount("data") \/ formatfs("data") \/ remount("data")
    <2>1. stage' \in {At("format"), At("remount"), <<"app", "overlay">>, Failed} /\ UNCHANGED devices
        BY <1>6, Zenon DEF try_mount, formatfs, remount, Mounted
    <2>2. QED
        BY <2>1 DEF DeviceInv, Failed
  <1>7. CASE install_image
    <2>1. stage \in OneDevice /\ stage' \in OneDevice \cup {Failed} /\ UNCHANGED devices
        BY <1>7, Zenon DEF install_image
    <2>2. QED
        BY <2>1 DEF DeviceInv, Failed
  <1>8. CASE provision
      BY <1>8, Zenon DEF provision, DeviceInv
  <1>9. CASE mount_overlayfs \/ prepare_handler \/ aborted \/ stop_application \/ umount \/ shutdown_failed \/ power_on
    <2>1. /\ stage' \in {<<"app", "prepare">>, Running, Failed, <<"down", "umount">>, <<"down", "devices">>, Sync,
                         <<"realm", "up">>}
          /\ UNCHANGED devices
        BY <1>9, Zenon DEF mount_overlayfs, prepare_handler, aborted, stop_application, umount, shutdown_failed,
                           power_on
    <2>2. QED
        BY <2>1 DEF DeviceInv, Failed, Running, Sync
  <1>10. CASE write_data \/ writeback \/ UNCHANGED setupVars
      BY <1>10, Zenon DEF write_data, writeback, setupVars, DeviceInv
  <1>11. CASE remove_devices
    <2>1. /\ stage' \in {<<"down", "devices">>, Sync}
          /\ UNCHANGED devices \/ (devices # <<>> /\ devices' = SubSeq(devices, 1, Len(devices) - 1))
        BY <1>11, Zenon DEF remove_devices
    <2>2. devices' \in {<<>>, <<"image">>, <<"image", "data">>}
      <3>1. CASE UNCHANGED devices
          BY <3>1, Zenon DEF DeviceInv
      <3>2. CASE devices = <<"image">> /\ devices' = SubSeq(devices, 1, Len(devices) - 1)
          BY <3>2
      <3>3. CASE devices = <<"image", "data">> /\ devices' = SubSeq(devices, 1, Len(devices) - 1)
        <4>1. Len(devices) - 1 = 1
            BY <3>3
        <4>2. devices' = SubSeq(<<"image", "data">>, 1, 1)
            BY <3>3, <4>1, Zenon
        <4>3. QED
            BY <4>2, Devices, Zenon
      <3>4. QED
          BY <2>1, <3>1, <3>2, <3>3, Zenon DEF DeviceInv
    <2>3. QED
        BY <2>1, <2>2 DEF DeviceInv, Sync
  <1>12. CASE reboot \/ power_loss
    <2>1. stage' \in {Off, Sync, Failed, <<"down", "umount">>} /\ devices' \in {<<>>, devices}
        BY <1>12, Zenon DEF reboot, power_loss, Stopped
    <2>2. QED
        BY <2>1 DEF DeviceInv, Off, Sync, Failed
  <1>13. QED
      BY <1>1, <1>2, <1>3, <1>4, <1>5, <1>6, <1>7, <1>8, <1>9, <1>10, <1>11, <1>12, Zenon DEF SetupNext, Partitions

(* The key of the image partition is not empty. *)
LEMMA ImageKeyIsKey == KeyOf("image") # NoKey
  <1> DEFINE S == {"sha256(", "expand(", "ikm", "App manager label", ")"}
             h == <<IF sealing = "Dummy" THEN "sha256(" ELSE "expand(">>
             l == <<"App manager label">>
             a == (h \o Ikm) \o l
             e == <<")">>
  <1>1. h \in Seq(S) /\ Ikm \in Seq(S) /\ l \in Seq(S) /\ e \in Seq(S) /\ Len(e) = 1
    <2>1. <<"sha256(">> \in Seq(S) /\ <<"expand(">> \in Seq(S)
        OBVIOUS
    <2>2. Ikm \in Seq(S) /\ l \in Seq(S) /\ e \in Seq(S) /\ Len(e) = 1
        BY DEF Ikm
    <2>3. QED
        BY <2>1, <2>2, Zenon
  <1>2. KeyOf("image") = a \o e
      BY Zenon DEF KeyOf, derive_key, DummyDerive, HkdfDerive
  <1> HIDE DEF S, h, l, e
  <1>3. h \o Ikm \in Seq(S)
      BY <1>1, ConcatProperties, Zenon
  <1>4. a \in Seq(S)
      BY <1>1, <1>3, ConcatProperties, Zenon
  <1> HIDE DEF a
  <1>5. Len(a \o e) = Len(a) + Len(e) /\ Len(a) \in Nat
      BY <1>1, <1>4, ConcatProperties, LenProperties, Zenon
  <1>6. Len(a \o e) # 0
      BY <1>1, <1>5
  <1>7. Len(NoKey) = 0
      BY Zenon DEF NoKey
  <1>8. QED
      BY <1>2, <1>6, <1>7, Zenon

(* While the image is mounted its device keeps the table with the key of    *)
(* the file system: no setup creates, loads or formats over it.             *)
ImageInv ==
    /\ "image" \in mounts => fs["image"] = tables["image"] /\ tables["image"] # NoKey
    /\ stage \in {AtImage("table"), AtImage("mount"), AtImage("format"), AtImage("remount")} => "image" \notin mounts
    /\ stage \in {AtImage("device"), AtImage("table")} => keyring["image"] # NoKey
    /\ stage \in {AtImage("mount"), AtImage("format"), AtImage("remount")} => tables["image"] # NoKey

(* A step that ends outside the stages of the image partition, and neither  *)
(* formats it nor changes the table of the mounted image.                   *)
LEMMA ImageAside ==
  ASSUME ImageInv, stage' \notin ImageStages \ {AtImage("key")},
         "image" \in mounts' =>
             "image" \in mounts /\ tables'["image"] = tables["image"] /\ fs'["image"] = fs["image"]
  PROVE  ImageInv'
  <1>1. stage' \notin {AtImage("device"), AtImage("table"), AtImage("mount"), AtImage("format"), AtImage("remount")}
      BY DEF ImageStages, AtImage
  <1>2. QED
      BY <1>1, Zenon DEF ImageInv

(* Setting up the image partition. *)
LEMMA ImagePartitionSteps ==
  ASSUME ImageInv, Domains,
         \/ derive_key_for("image") \/ create_device("image") \/ load_table("image")
         \/ try_mount("image") \/ formatfs("image") \/ remount("image")
  PROVE  ImageInv'
  <1> USE DEF kernel, AtImage
  <1>1. CASE derive_key_for("image")
    <2>1. /\ stage' \in {AtImage("device"), Failed} /\ UNCHANGED <<tables, mounts, fs>>
          /\ stage' = AtImage("device") => keyring' = [keyring EXCEPT !["image"] = KeyOf("image")]
        BY <1>1 DEF derive_key_for, logon_seal, Failed
    <2>2. stage' = AtImage("device") => keyring'["image"] # NoKey
        BY <2>1, ImageKeyIsKey, Zenon DEF Domains, Partitions
    <2>3. QED
        BY <2>1, <2>2 DEF ImageInv, Failed
  <1>2. CASE create_device("image")
    <2>1. /\ stage = AtImage("device") /\ UNCHANGED <<keyring, mounts, fs>>
          /\ \/ tables["image"] = NoKey /\ stage' = AtImage("table")
             \/ stage' = Failed /\ UNCHANGED tables
        BY <1>2, Zenon DEF create_device
    <2>2. QED
        BY <2>1 DEF ImageInv, Failed
  <1>3. CASE load_table("image")
    <2>1. /\ stage = AtImage("table") /\ stage' \in {AtImage("mount"), Failed} /\ UNCHANGED <<keyring, mounts, fs>>
          /\ stage' = AtImage("mount") => tables' = [tables EXCEPT !["image"] = keyring["image"]]
        BY <1>3 DEF load_table, load, Failed
    <2>2. stage' = AtImage("mount") => tables'["image"] = keyring["image"]
        BY <2>1, Zenon DEF Domains, Partitions
    <2>3. QED
        BY <2>1, <2>2 DEF ImageInv, Failed
  <1>4. CASE try_mount("image") \/ remount("image")
    <2>1. /\ stage \in {AtImage("mount"), AtImage("remount")} /\ UNCHANGED <<keyring, tables, fs>>
          /\ \/ fs["image"] = tables["image"] /\ stage' = <<"app", "install">>
             \/ stage' \in {AtImage("format"), Failed} /\ UNCHANGED mounts
        BY <1>4, Zenon DEF try_mount, remount, Mounted
    <2>2. QED
        BY <2>1 DEF ImageInv, Failed
  <1>5. CASE formatfs("image")
    <2>1. stage = AtImage("format") /\ stage' \in {AtImage("remount"), Failed} /\ UNCHANGED <<keyring, tables, mounts>>
        BY <1>5, Zenon DEF formatfs
    <2>2. QED
        BY <2>1 DEF ImageInv, Failed
  <1>6. QED
      BY <1>1, <1>2, <1>3, <1>4, <1>5, Zenon

(* The steps on the data partition leave the image's device alone. *)
LEMMA ImageBesideData ==
  ASSUME ImageInv, Domains,
         \/ derive_key_for("data") \/ create_device("data") \/ load_table("data")
         \/ try_mount("data") \/ formatfs("data") \/ remount("data")
  PROVE  ImageInv'
  <1> USE DEF kernel
  <1>1. stage' \in {At("device"), At("table"), At("mount"), At("format"), At("remount"), <<"app", "overlay">>, Failed}
      BY Zenon DEF derive_key_for, create_device, load_table, try_mount, formatfs, remount, Mounted, At
  <1>2. stage' \notin ImageStages
      BY <1>1 DEF ImageStages, At, Failed
  <1>3. tables'["image"] = tables["image"] /\ fs'["image"] = fs["image"]
      BY Zenon DEF Domains, Partitions, derive_key_for, create_device, load_table, try_mount, formatfs, remount,
             device_create, load, Mounted
  <1>4. "image" \in mounts' => "image" \in mounts
      BY Zenon DEF derive_key_for, create_device, load_table, try_mount, formatfs, remount, Mounted
  <1>5. QED
      BY <1>2, <1>3, <1>4, ImageAside, Zenon

LEMMA ImageStep ==
  ASSUME ImageInv, DataInv, [SetupNext]_setupVars
  PROVE  ImageInv'
  <1> USE DEF kernel
  <1>1. CASE provision \/ install_image \/ mount_overlayfs \/ prepare_handler \/ aborted \/ stop_application \/ umount
             \/ shutdown_failed \/ power_on
    <2>1. /\ stage' \in {AtImage("key"), <<"app", "install">>, At("key"), <<"app", "prepare">>, Running, Failed,
                         <<"down", "umount">>, <<"down", "devices">>, Sync, <<"realm", "up">>}
          /\ UNCHANGED <<tables, fs>> /\ ("image" \in mounts' => "image" \in mounts)
      <3>1. stage' \in {AtImage("key"), <<"app", "install">>, At("key"), <<"app", "prepare">>, Running, Failed,
                        <<"down", "umount">>, <<"down", "devices">>, Sync, <<"realm", "up">>}
          BY <1>1, Zenon DEF provision, install_image, mount_overlayfs, prepare_handler, aborted, stop_application,
                             umount, shutdown_failed, power_on, AtImage, At
      <3>2. UNCHANGED <<tables, fs>>
          BY <1>1, Zenon DEF provision, install_image, mount_overlayfs, prepare_handler, aborted, stop_application,
                             umount, shutdown_failed, power_on
      <3>3. "image" \in mounts' => "image" \in mounts
        <4>1. mounts' = mounts \/ mounts' = mounts \cup {"overlay"} \/ \E x : mounts' = mounts \ {x}
            BY <1>1, Zenon DEF provision, install_image, mount_overlayfs, prepare_handler, aborted, stop_application,
                               umount, shutdown_failed, power_on
        <4>2. QED
            BY <4>1
      <3>4. QED
          BY <3>1, <3>2, <3>3, Zenon
    <2>2. stage' \notin ImageStages \ {AtImage("key")}
        BY <2>1 DEF ImageStages, AtImage, At, Running, Failed, Sync
    <2>3. QED
        BY <2>1, <2>2, ImageAside, Zenon
  <1>2. CASE write_data \/ writeback \/ UNCHANGED setupVars
      BY <1>2, Zenon DEF write_data, writeback, setupVars, ImageInv
  <1>3. CASE remove_devices
    <2>1. stage' \in {<<"down", "devices">>, Sync} /\ UNCHANGED mounts /\ mounts = {}
        BY <1>3, Zenon DEF remove_devices, DataInv, MountInv
    <2>2. stage' \notin ImageStages \ {AtImage("key")}
        BY <2>1 DEF ImageStages, Sync
    <2>3. QED
        BY <2>1, <2>2, ImageAside, Zenon
  <1>4. CASE reboot \/ power_loss
    <2>1. /\ stage' \in {Off, Sync, Failed, <<"down", "umount">>} /\ UNCHANGED fs
          /\ mounts' = {} \/ UNCHANGED <<tables, mounts>>
        BY <1>4, Zenon DEF reboot, power_loss, Stopped
    <2>2. stage' \notin ImageStages \ {AtImage("key")}
        BY <2>1 DEF ImageStages, Off, Sync, Failed
    <2>3. QED
        BY <2>1, <2>2, ImageAside, Zenon
  <1>5. QED
      BY <1>1, <1>2, <1>3, <1>4, ImagePartitionSteps, ImageBesideData, Zenon DEF SetupNext, Partitions, DataInv

(* The rest of the type invariant, with what makes it inductive. *)
SetupInv == faults \in 0..MaxFaults /\ LauncherTypes /\ SetupTypes /\ DeviceInv /\ ImageInv

LEMMA InitSetup == SetupInit => SetupInv
  <1> SUFFICES ASSUME SetupInit PROVE SetupInv
      BY Zenon
  <1>1. 0 \in 0..MaxFaults /\ 0 \in 0..MaxBoots /\ {} \in Files
      BY LauncherAssumption, SetupAssumption DEF Files
  <1>2. stage \notin ImageStages /\ stage \notin NoDevice /\ stage \notin OneDevice /\ stage \in Stages
      BY Zenon DEF SetupInit, Off, ImageStages, NoDevice, OneDevice, AtImage, At, Stages
  <1>3. faults \in 0..MaxFaults /\ LauncherTypes
      BY <1>1, Zenon DEF SetupInit, LauncherInit, LauncherTypes
  <1>4. SetupTypes
      BY <1>1, <1>2, Zenon DEF SetupInit, SetupTypes
  <1>5. DeviceInv
      BY <1>2, Zenon DEF SetupInit, DeviceInv
  <1>6. ImageInv
    <2>1. stage \notin {AtImage("device"), AtImage("table"), AtImage("mount"), AtImage("format"), AtImage("remount")}
        BY <1>2 DEF ImageStages, AtImage
    <2>2. QED
        BY <2>1, Zenon DEF SetupInit, ImageInv
  <1>7. QED
      BY <1>3, <1>4, <1>5, <1>6, Zenon DEF SetupInv

LEMMA NextSetup == LauncherInv /\ DataInv /\ SetupInv /\ [SetupNext]_setupVars => SetupInv'
  <1> SUFFICES ASSUME LauncherInv, DataInv, SetupInv, [SetupNext]_setupVars PROVE SetupInv'
      BY Zenon
  <1>1. faults' \in 0..MaxFaults /\ LauncherTypes'
      BY FaultSteps, FaultType, NextLauncherTypes, Zenon DEF SetupInv
  <1>2. SetupTypes'
    <2>1. SetupTypes
        BY Zenon DEF SetupInv
    <2>2. stage' \in Stages
        BY <2>1, StageSteps, Zenon DEF SetupTypes
    <2>3. QED
        BY <2>1, <2>2, SetTypes, FlagTypes, MountTypes, ConfigTypes, Zenon DEF SetupTypes
  <1>3. DeviceInv' /\ ImageInv'
      BY DeviceStep, ImageStep, Zenon DEF SetupInv
  <1>4. QED
      BY <1>1, <1>2, <1>3, Zenon DEF SetupInv

(* TypeOK for every instance, with its claim on mounts: a partition that is *)
(* mounted has the key of its device, through setups that fail half way and *)
(* are repeated, shutdowns and stops of the realm (app.rs, setup and        *)
(* cleanup; dm/device.rs).                                                  *)
THEOREM TypeCorrect == SetupSpec => []TypeOK
  <1>1. SetupInit /\ [][SetupNext]_setupVars /\ []LauncherInv /\ []DataInv => []SetupInv
      BY InitSetup, NextSetup, PTL
  <1>2. LauncherInv /\ DataInv /\ SetupInv => TypeOK
    <2> SUFFICES ASSUME LauncherInv, DataInv, SetupInv PROVE TypeOK
        BY Zenon
    <2>1. LauncherTypeOK
        BY Zenon DEF SetupInv, LauncherTypes, LauncherInv, LauncherTypeOK
    <2>2. name \in Names /\ durable \subseteq files
        BY Zenon DEF DataInv, Domains, OwnInv
    <2>3. \A p \in Partitions : p \in mounts => fs[p] = tables[p] /\ fs[p] # NoKey
        BY Zenon DEF SetupInv, DataInv, ImageInv, MountInv, Partitions
    <2>4. QED
        BY <2>1, <2>2, <2>3, Zenon DEF SetupInv, SetupTypes, DeviceInv, TypeOK
  <1>3. QED
      BY <1>1, <1>2, LauncherInvariance, DataInvariance, PTL DEF SetupSpec
================================================================================
