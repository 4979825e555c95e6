---------------------------- MODULE MCDetections ----------------------------
(* Instances of Detections for TLC.                                        *)
EXTENDS Detections
CONSTANTS cam, tag

\* A camera seen on both radios; the same, when its advertisement has no name.
Camera == [mac |-> cam, has |-> {"flockName"}]
Bare   == [mac |-> cam, has |-> {}]
Beacon == [kind |-> "beacon", from |-> cam, to |-> NoMac, bss |-> cam]
\* A Find My tag, and two more; somebody who throws others off a network.
Tag    == [mac |-> tag, has |-> {"findMy"}]
Deauth == [kind |-> "deauth", from |-> tag, to |-> cam, bss |-> cam]

TwoScenes == {[adverts |-> {Camera}, frames |-> {Beacon}],
              [adverts |-> {Tag}, frames |-> {Deauth}]}
\* The camera's two advertisements in turn; two cameras; two tags.
BothScene == {[adverts |-> {Camera, Bare}, frames |-> {}]}
PairScene == {[adverts |-> {Camera, [Camera EXCEPT !.mac = tag]}, frames |-> {}]}
TagScene  == {[adverts |-> {Tag, [Tag EXCEPT !.mac = cam]}, frames |-> {}]}
OneMac == {cam}
Nobody == {}
OneEngine == {"FLOCK_BLE"}
OneList == {{}}
ThreeEngines == {"DETECTOR", "FLOCK_BLE", "FLOCK_WIFI"}
Signs == {"tracker", "deauth"}
TwoLists == {{}, {[scope |-> "ble", macs |-> {cam, tag}]}}
=============================================================================
