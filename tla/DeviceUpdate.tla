---------------------------- MODULE DeviceUpdate ----------------------------
(***************************************************************************)
(* How one device gets new firmware: over BLE (src/src/ota_handler.cpp),   *)
(* over WiFi in place or after a restart (src/src/wifi_ota_handler.cpp),   *)
(* and how a manager stages an image in its own spare slot and relays it   *)
(* (src/src/manager/manager_main.cpp; the relay itself is MeshOta).        *)
(*                                                                         *)
(* An image is Size pieces, and a slot holds what was written at each      *)
(* place.  The bootloader, the flash and the HTTP download are external:   *)
(* they are modelled by what the code relies on.  A checksum holds iff the *)
(* pieces are those of one image in order.                                 *)
(***************************************************************************)
EXTENDS Naturals, Sequences, FiniteSets

CONSTANTS
  Own,         \* images made for this device
  Fleet,       \* images made for the nodes, which a manager relays
  Size,        \* pieces of an image
  MaxAsks,     \* bound: requests from the phone and the mesh
  MaxCrashes,  \* bound: times the power fails
  TornWrites   \* the power may fail between two values of one record in NVS

VARIABLES
  role,        \* OUISPY_ROLE_MANAGER or not
  slot,        \* the two OTA partitions
  boot,        \* the partition otadata names
  running,     \* the partition that runs
  mode,        \* how far setup() is
  nvs,         \* the values kept under "ouispy-wifi"
  load,        \* the download that runs
  ble,         \* g_active, what was asked and received over BLE
  otaUrl,      \* g_otaUrl
  notified,    \* the task of the in-place update has been notified
  doomed,      \* tasks in the delay before their esp_restart()
  told,        \* history: the image the device said it restarts into
  crossed,     \* history: two updates wrote the spare slot in this boot
  asks, crashes

updHistory == <<told, crossed>>
updBounds == <<asks, crashes>>
updVars == <<role, slot, boot, running, mode, nvs, load, ble, otaUrl, notified,
             doomed, updHistory, updBounds>>

Slots == {0, 1}
Firmware == Own \cup Fleet
Nobody == "none"
Places == 1..Size

ASSUME SizeAssumption == Size \in Nat \ {0}
ASSUME ImagesAssumption == Nobody \notin Firmware

Erased == [img |-> Nobody, piece |-> 0]
Piece(i, k) == [img |-> i, piece |-> k]
Written(i) == [k \in Places |-> Piece(i, k)]
Blank == [k \in Places |-> Erased]

Whole(s) == \E i \in Firmware : slot[s] = Written(i)
ImageIn(s) == slot[s][1].img

NoLoad == [task |-> Nobody, img |-> Nobody, pos |-> 0, fleet |-> FALSE]
NoBle == [on |-> FALSE, img |-> Nobody, got |-> << >>]
\* sz and crc stand for the image whose length and checksum are kept.
FreshNvs == [url |-> Nobody, pend |-> FALSE, fleet |-> FALSE,
             relay |-> FALSE, sz |-> Nobody, crc |-> Nobody]

UpdInit ==
  /\ role \in {"node", "manager"}
  /\ slot \in {[s \in Slots |-> IF s = 0 THEN Written(i) ELSE Blank] : i \in Own}
  /\ boot = 0 /\ running = 0 /\ mode = "up" /\ nvs = FreshNvs
  /\ load = NoLoad /\ ble = NoBle /\ otaUrl = Nobody /\ notified = FALSE
  /\ doomed = {} /\ told = Nobody /\ crossed = FALSE /\ asks = 0 /\ crashes = 0

\* esp_ota_get_next_update_partition(NULL)
Target == 1 - running

-----------------------------------------------------------------------------
(* Restarts.                                                               *)

\* The bootloader takes the slot of otadata, or the other if that is not whole.
Reboot ==
  /\ running' = IF Whole(boot) THEN boot ELSE 1 - boot
  /\ mode' = "boot" /\ load' = NoLoad /\ ble' = NoBle
  /\ otaUrl' = Nobody /\ notified' = FALSE /\ doomed' = {}
  /\ told' = Nobody /\ crossed' = FALSE

esp_restart ==
  /\ doomed # {}
  /\ Reboot
  /\ UNCHANGED <<role, slot, boot, nvs, updBounds>>

\* A task that is to restart goes on no further, the others do.
Runs(task) == mode = "up" /\ task \notin doomed

\* What NVS holds if the power fails between two values: a request without its
\* kind, a relay without its checksum, or without its length as well.
HalfWritten ==
  {[nvs EXCEPT !.url = i, !.pend = TRUE] :
     i \in IF role = "manager" /\ Runs("ble") THEN Firmware ELSE {}}
  \cup
  {[nvs EXCEPT !.relay = TRUE, !.sz = i] :
     i \in IF load.fleet /\ load.pos = Size THEN {load.img, nvs.sz} ELSE {}}

PowerLoss ==
  /\ crashes < MaxCrashes /\ crashes' = crashes + 1
  /\ nvs' \in {nvs} \cup IF TornWrites THEN HalfWritten ELSE {}
  /\ Reboot
  /\ UNCHANGED <<role, slot, boot, asks>>

Ask == asks < MaxAsks /\ asks' = asks + 1

-----------------------------------------------------------------------------
(* What setup() does before and after an update.                           *)

StartLoad(task, i, fleet) ==
  /\ load' = [task |-> task, img |-> i, pos |-> 0, fleet |-> fleet]
  /\ slot' = [slot EXCEPT ![Target] = Blank]

Forgotten == [nvs EXCEPT !.pend = FALSE, !.url = Nobody]

\* The request is forgotten before it is tried; without a network it is over.
wifiOtaRunPendingBlocking ==
  /\ mode = "boot" /\ nvs.pend
  /\ nvs' = Forgotten
  /\ \/ mode' = "late" /\ UNCHANGED <<slot, load>>
     \/ nvs.url # Nobody /\ mode' = "blocking" /\ StartLoad("boot", nvs.url, nvs.fleet)
  /\ UNCHANGED <<role, boot, running, ble, otaUrl, notified, doomed, updHistory, updBounds>>

\* Mutant: the flag stays until the relay has ended.
wifiOtaGetRelayPendingMutant ==
  /\ mode' = IF nvs.relay THEN "relay" ELSE "up"
  /\ nvs' = nvs

wifiOtaGetRelayPending ==
  /\ mode' = IF nvs.relay THEN "relay" ELSE "up"
  /\ nvs' = [nvs EXCEPT !.relay = FALSE]

setup ==
  /\ \/ mode = "boot" /\ ~nvs.pend
     \/ mode = "late"
  /\ \/ role = "manager" /\ wifiOtaGetRelayPending
     \/ role = "node" /\ mode' = "up" /\ UNCHANGED nvs
  /\ UNCHANGED <<role, slot, boot, running, load, ble, otaUrl, notified, doomed,
                 updHistory, updBounds>>

\* The relay ends, fails to start, or is cut off after 180 s.
RelayEnds ==
  /\ mode = "relay" /\ doomed = {}
  /\ doomed' = {"boot"}
  /\ UNCHANGED <<role, slot, boot, running, mode, nvs, load, ble, otaUrl, notified,
                 updHistory, updBounds>>

-----------------------------------------------------------------------------
(* The download: runOta and wifiOtaStageToPartition.                       *)

Over == load' = NoLoad /\ mode' = IF load.task = "boot" THEN "late" ELSE mode

Crossing == crossed' = (crossed \/ ble.on \/ told # Nobody)

Fetch ==
  /\ load.task # Nobody /\ load.pos < Size
  /\ slot' = [slot EXCEPT ![Target][load.pos + 1] = Piece(load.img, load.pos + 1)]
  /\ load' = [load EXCEPT !.pos = @ + 1]
  /\ Crossing
  /\ UNCHANGED <<role, boot, running, mode, nvs, ble, otaUrl, notified, doomed, told,
                 updBounds>>

\* The server, the network or the flash fails; a fleet image that is short too.
Fail ==
  /\ load.task # Nobody
  /\ Over
  /\ UNCHANGED <<role, slot, boot, running, nvs, ble, otaUrl, notified, doomed,
                 updHistory, updBounds>>

\* HTTP_UPDATE_OK: the image was verified and made the one to boot.
Installed ==
  /\ load.task # Nobody /\ ~load.fleet /\ load.pos = Size /\ Whole(Target)
  /\ boot' = Target /\ told' = load.img
  /\ load' = NoLoad /\ doomed' = doomed \cup {load.task}
  /\ crossed' = (crossed \/ told # Nobody)
  /\ UNCHANGED <<role, slot, running, mode, nvs, ble, otaUrl, notified, updBounds>>

Relayed(i) == [nvs EXCEPT !.relay = TRUE, !.sz = i, !.crc = i]

\* Mutant: how much was to come is not compared.
StagedMutant ==
  /\ load.task # Nobody /\ load.fleet
  /\ nvs' = Relayed(load.img)
  /\ load' = NoLoad /\ doomed' = doomed \cup {"boot"}
  /\ UNCHANGED <<role, slot, boot, running, mode, ble, otaUrl, notified, updHistory, updBounds>>

Staged ==
  /\ load.task # Nobody /\ load.fleet /\ load.pos = Size
  /\ nvs' = Relayed(load.img)
  /\ load' = NoLoad /\ doomed' = doomed \cup {"boot"}
  /\ UNCHANGED <<role, slot, boot, running, mode, ble, otaUrl, notified, updHistory, updBounds>>

-----------------------------------------------------------------------------
(* Requests.                                                               *)

Pending(i, fleet) == [nvs EXCEPT !.url = i, !.pend = TRUE, !.fleet = fleet]

savePending(task, i, fleet) ==
  /\ nvs' = Pending(i, fleet)
  /\ doomed' = doomed \cup {task}
  /\ UNCHANGED <<role, slot, boot, running, mode, load, ble, otaUrl, notified,
                 updHistory, crashes>>

\* SYS_CMD_OTA_VIA_WIFI and SYS_CMD_FLEET_OTA on a manager.
AskManager ==
  /\ role = "manager" /\ Runs("ble") /\ Ask
  /\ \/ \E i \in Own : savePending("ble", i, FALSE)
     \/ \E i \in Fleet : savePending("ble", i, TRUE)

\* MESH_PKT_WIFI_OTA: a node takes over the network and the address.
WifiOtaPacket ==
  /\ role = "node" /\ Runs("mesh") /\ Ask
  /\ \E i \in Own : savePending("mesh", i, FALSE)

\* SYS_CMD_OTA_VIA_WIFI on a node: the task reads the address when it gets to it.
wifiOtaDispatch ==
  /\ role = "node" /\ Runs("ble") /\ Ask
  /\ otaUrl' \in Own /\ notified' = TRUE
  /\ UNCHANGED <<role, slot, boot, running, mode, nvs, load, ble, doomed, updHistory, crashes>>

otaTaskLoop ==
  /\ Runs("wifi") /\ notified /\ load.task = Nobody
  /\ notified' = FALSE
  /\ \/ StartLoad("wifi", otaUrl, FALSE) /\ Crossing
     \/ UNCHANGED <<slot, load, crossed>>
  /\ UNCHANGED <<role, boot, running, mode, nvs, ble, otaUrl, doomed, told, updBounds>>

\* SYS_CMD_REBOOT and SYS_CMD_FACTORY_RESET
SystemControl ==
  /\ Runs("ble") /\ Ask
  /\ nvs' \in {nvs, FreshNvs}
  /\ doomed' = doomed \cup {"ble"}
  /\ UNCHANGED <<role, slot, boot, running, mode, load, ble, otaUrl, notified,
                 updHistory, crashes>>

-----------------------------------------------------------------------------
(* The update over BLE.                                                    *)

Interfering == crossed' = (crossed \/ load.task # Nobody \/ told # Nobody)

\* One that runs is given up; begin may fail, or the image be too long.
handleStart ==
  /\ Runs("ble") /\ Ask
  /\ \/ \E i \in Own : ble' = [on |-> TRUE, img |-> i, got |-> << >>]
        /\ slot' = [slot EXCEPT ![Target] = Blank]
        /\ Interfering
     \/ ble' = NoBle /\ UNCHANGED <<slot, crossed>>
  /\ UNCHANGED <<role, boot, running, mode, nvs, load, otaUrl, notified, doomed, told, crashes>>

\* A piece too many ends it, and so does the flash; one out of order does not.
handleData ==
  /\ Runs("ble") /\ ble.on
  /\ \/ \E k \in Places :
          /\ Len(ble.got) < Size
          /\ ble' = [ble EXCEPT !.got = Append(@, k)]
          /\ slot' = [slot EXCEPT ![Target][Len(ble.got) + 1] = Piece(ble.img, k)]
          /\ Interfering
     \/ ble' = NoBle /\ UNCHANGED <<slot, crossed>>
  /\ UNCHANGED <<role, boot, running, mode, nvs, load, otaUrl, notified, doomed, told, updBounds>>

Accepts == ble.got = [k \in Places |-> k] /\ Whole(Target)

\* Mutant: a failure to set the boot partition is not an error.
handleCommitMutant ==
  /\ Runs("ble") /\ ble.on
  /\ ble' = NoBle
  /\ \/ /\ Accepts
        /\ boot' \in {boot, Target} /\ told' = ImageIn(Target)
        /\ doomed' = doomed \cup {"ble"}
        /\ crossed' = (crossed \/ told # Nobody)
     \/ UNCHANGED <<boot, told, doomed, crossed>>
  /\ UNCHANGED <<role, slot, running, mode, nvs, load, otaUrl, notified, updBounds>>

\* The length and the checksum, then the image itself, then the boot partition.
handleCommit ==
  /\ Runs("ble") /\ ble.on
  /\ ble' = NoBle
  /\ \/ /\ Accepts
        /\ boot' = Target /\ told' = ImageIn(Target)
        /\ doomed' = doomed \cup {"ble"}
        /\ crossed' = (crossed \/ told # Nobody)
     \/ UNCHANGED <<boot, told, doomed, crossed>>
  /\ UNCHANGED <<role, slot, running, mode, nvs, load, otaUrl, notified, updBounds>>

handleAbort ==
  /\ Runs("ble") /\ ble.on
  /\ ble' = NoBle
  /\ UNCHANGED <<role, slot, boot, running, mode, nvs, load, otaUrl, notified, doomed,
                 updHistory, updBounds>>

Download == Fetch \/ Fail \/ Installed \/ Staged

UpdNext ==
  \/ esp_restart \/ PowerLoss
  \/ wifiOtaRunPendingBlocking \/ setup \/ RelayEnds
  \/ Download
  \/ AskManager \/ WifiOtaPacket \/ wifiOtaDispatch \/ otaTaskLoop \/ SystemControl
  \/ handleStart \/ handleData \/ handleCommit \/ handleAbort

\* The device runs on, and every wait of it has an end: the join after 20 s, a
\* download that stalls after 60 s, the relay after 180 s.
UpdFairness ==
  /\ WF_updVars(esp_restart) /\ WF_updVars(wifiOtaRunPendingBlocking)
  /\ WF_updVars(setup) /\ WF_updVars(RelayEnds) /\ WF_updVars(Download)

UpdSpec == UpdInit /\ [][UpdNext]_updVars /\ UpdFairness
-----------------------------------------------------------------------------
(* Properties.                                                             *)

\* Every variable has its type, and a request waits with its address.
UpdTypeOK ==
  /\ slot \in [Slots -> [Places -> {Erased} \cup {Piece(i, k) : i \in Firmware, k \in Places}]]
  /\ {boot, running} \subseteq Slots
  /\ mode \in {"boot", "blocking", "late", "relay", "up"}
  /\ nvs.pend => nvs.url # Nobody
  /\ load.task # Nobody => (load.task = "boot" <=> mode = "blocking")
  /\ ble.on => mode = "up" /\ Len(ble.got) <= Size
  /\ doomed \subseteq {"boot", "ble", "mesh", "wifi"}

\* The device always runs from a whole image made for it, whichever way the
\* last updates took, wherever the power failed, and although a manager keeps
\* images of the nodes in its spare slot (esp_ota_get_next_update_partition,
\* savePending).
RunsOwn == Whole(running) /\ ImageIn(running) \in Own

\* What a manager relays is the image whose length and checksum it stored,
\* complete, in the slot the relay reads.
RelayMatches ==
  mode = "relay" => /\ slot[Target] = Written(nvs.sz) /\ nvs.sz = nvs.crc
                    /\ nvs.sz \in Fleet

\* Both slots are what the device takes them for: the one it runs from an image
\* made for it, the one it relays from the image it was told.
SlotsSound == UpdTypeOK /\ RunsOwn /\ RelayMatches

\* After the device has said it restarts into an image (0xFF, REBOOTING), that
\* image runs, unless two updates wrote the spare slot at the same time.
OkMeansRuns ==
  [][(mode' = "boot" /\ told # Nobody /\ ~crossed) => ImageIn(running') = told]_updVars

\* The same without the exception.
OkAlwaysRuns ==
  [][(mode' = "boot" /\ told # Nobody) => ImageIn(running') = told]_updVars

\* However a request ends, the device is reachable again: no stored flag makes
\* it restart for ever.
ComesBack == mode # "up" ~> mode = "up"
=============================================================================
