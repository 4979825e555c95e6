--------------------------- MODULE RadioCoexProofs ---------------------------
(***************************************************************************)
(* How the engines share the radios, proved for every set of engines, all  *)
(* choices of radios and any number of changes of them.                    *)
(*                                                                         *)
(* The radio is one record and a callback a function on it, so the proof   *)
(* is one lemma per callback: from a sound record it makes a sound one.    *)
(***************************************************************************)
EXTENDS RadioCoex, TLAPS

\* The sniffer is on for the parsers that are registered.
Listens(s) == s.promisc <=> s.wifi # {}

\* What holds of the radio between any two callbacks: the two tables and what
\* the engines remember of them.
Sound(s) ==
  /\ s \in Radio
  /\ Listens(s)
  /\ s.wifi \subseteq s.on /\ s.ble \subseteq s.on
  /\ "WARDRIVE" \in s.on <=> Hosting(s)
  /\ Hosting(s) => Hosted \cap (s.wifi \cup s.ble) = {}
  /\ "DETECTOR" \in s.wifi => "DETECTOR" \in s.own
  /\ "FOXHUNTER" \in s.wifi <=> "FOXHUNTER" \in s.own
  /\ "WARDRIVE" \in s.ble => s.wdScan
  /\ {"FLOCK_BLE", "UNIPWN"} \cap s.wifi = {} /\ "FLOCK_WIFI" \notin s.ble

\* The radios that some engines are told to use.
Masked(s) ==
  /\ s.mask["FOXHUNTER"] = Radios /\ s.mask["UNIPWN"] = {"ble"}
  /\ s.mask["FLOCK_BLE"] \subseteq {"ble"} /\ s.mask["FLOCK_WIFI"] \subseteq {"wifi"}
  /\ s.mask["PCAP"] \in {{"wifi"}, {"ble"}}

\* An engine that no other feeds is in the tables of the radios it was told to
\* use: FLOCK_BLE perhaps in one more, FOXHUNTER perhaps in none.
Fits(s, e) ==
  IF e = "FOXHUNTER" THEN e \in s.wifi <=> e \in s.ble
  ELSE ~(Hosting(s) /\ e \in Hosted) =>
         /\ e \in s.wifi <=> "wifi" \in Wants(s, e)
         /\ "ble" \in Wants(s, e) => e \in s.ble
         /\ e \in s.ble => e = "FLOCK_BLE" \/ "ble" \in Wants(s, e)

Good(s) == Sound(s) /\ Masked(s) /\ \A e \in s.on : Fits(s, e)

\* No engine is between the halves of a restart.
AtRest(s) == Good(s) /\ s.on = s.state

\* The engine that is between the halves of a restart is off; all others are
\* what the registry says.
Restartable == {"DETECTOR", "SKYSPY", "FLOCK_BLE", "FLOCK_WIFI", "WARDRIVE"}

RadioInv ==
  /\ Good(radio)
  /\ restarting \in (Engines \cap Restartable) \cup {NoEngine}
  /\ restarting \in radio.state \cup {"WARDRIVE", NoEngine}
  /\ radio.on = radio.state \ {restarting}

USE EnginesAssumption DEF EngineIds, Radios

-----------------------------------------------------------------------------
(* The tables.                                                             *)

\* From s to t only the tables, what the owners remember and the scan change.
Moved(s, t, wifi, ble, own) ==
  /\ t \in Radio /\ Listens(t)
  /\ t.wifi = wifi /\ t.ble = ble /\ t.own = own
  /\ t.state = s.state /\ t.on = s.on /\ t.mask = s.mask
  /\ t.sig = s.sig /\ t.wdScan = s.wdScan

LEMMA RegisterFacts ==
  ASSUME NEW s \in Radio, NEW e \in Engines, Listens(s)
  PROVE  /\ Moved(s, wifiCoexRegister(s, e), s.wifi \cup {e}, s.ble, s.own)
         /\ Moved(s, bleCoexRegister(s, e), s.wifi, s.ble \cup {e}, s.own)
  BY DEF Radio, Listens, Moved, wifiCoexRegister, bleCoexRegister

LEMMA UnregisterFacts ==
  ASSUME NEW s \in Radio, NEW e, Listens(s)
  PROVE  /\ Moved(s, wifiCoexUnregister(s, e), s.wifi \ {e}, s.ble, s.own)
         /\ Moved(s, bleCoexUnregister(s, e), s.wifi, s.ble \ {e}, s.own)
  BY DEF Radio, Listens, Moved, wifiCoexUnregister, bleCoexUnregister

\* While the mesh runs no engine turns WiFi off.
LEMMA WifiStaysOn ==
  ASSUME NEW s \in Radio, Listens(s), MeshOn
  PROVE  Moved(s, wifiOff(s), s.wifi, s.ble, s.own)
  BY DEF Radio, Listens, Moved, wifiOff

LEMMA TakeFacts ==
  ASSUME NEW s \in Radio, NEW e \in Engines, NEW R, Listens(s)
  PROVE  Moved(s, Take(s, e, R),
               s.wifi \cup {i \in {e} : "wifi" \in R},
               s.ble \cup {i \in {e} : "ble" \in R}, s.own)
  <1> DEFINE t == IF "ble" \in R THEN bleCoexRegister(s, e) ELSE s
  <1>1. Moved(s, t, s.wifi, s.ble \cup {i \in {e} : "ble" \in R}, s.own)
    BY RegisterFacts DEF Moved
  <1>2. Take(s, e, R) = IF "wifi" \in R THEN wifiCoexRegister(t, e) ELSE t
    BY DEF Take
  <1> HIDE DEF t
  <1>3. Moved(t, wifiCoexRegister(t, e), t.wifi \cup {e}, t.ble, t.own)
    BY <1>1, RegisterFacts DEF Moved
  <1> QED  BY <1>1, <1>2, <1>3 DEF Moved

LEMMA TakeOwnFacts ==
  ASSUME NEW s \in Radio, NEW e \in Engines \cap {"DETECTOR", "FOXHUNTER"}, Listens(s)
  PROVE  Moved(s, TakeOwn(s, e),
               s.wifi \cup {i \in {e} : "wifi" \in Wants(s, e)},
               s.ble \cup {i \in {e} : "ble" \in Wants(s, e)},
               s.own \cup {i \in {e} : "wifi" \in Wants(s, e)})
  <1> DEFINE t == Take(s, e, Wants(s, e))
  <1>1. Moved(s, t, s.wifi \cup {i \in {e} : "wifi" \in Wants(s, e)},
              s.ble \cup {i \in {e} : "ble" \in Wants(s, e)}, s.own)
    BY TakeFacts
  <1>2. TakeOwn(s, e) = IF "wifi" \in Wants(s, e) THEN [t EXCEPT !.own = t.own \cup {e}] ELSE t
    BY DEF TakeOwn
  <1> HIDE DEF t
  <1>3. Moved(t, [t EXCEPT !.own = t.own \cup {e}], t.wifi, t.ble, t.own \cup {e})
    BY <1>1 DEF Moved, Radio, Listens
  <1> QED  BY <1>1, <1>2, <1>3 DEF Moved

-----------------------------------------------------------------------------
(* The hosted engines.                                                     *)

LEMMA HostFacts ==
  ASSUME NEW s \in Radio, Listens(s)
  PROVE  Moved(s, Hosts(s, TRUE), s.wifi \ {"FLOCK_WIFI", "DETECTOR"},
               s.ble \ {"FLOCK_BLE", "DETECTOR"}, s.own)
  <1> DEFINE a == wifiCoexUnregister(s, "FLOCK_WIFI")
             b == bleCoexUnregister(a, "FLOCK_BLE")
             c == wifiCoexUnregister(b, "DETECTOR")
             d == bleCoexUnregister(c, "DETECTOR")
  <1>1. Hosts(s, TRUE) = d
    BY DEF Hosts, flockWifiHostSuspend, flockBleHostSuspend, detectorHostSuspend
  <1>2. Moved(s, a, s.wifi \ {"FLOCK_WIFI"}, s.ble, s.own)
    BY UnregisterFacts
  <1> HIDE DEF a
  <1>3. Moved(a, b, a.wifi, a.ble \ {"FLOCK_BLE"}, a.own)
    BY <1>2, UnregisterFacts DEF Moved
  <1> HIDE DEF b
  <1>4. Moved(b, c, b.wifi \ {"DETECTOR"}, b.ble, b.own)
    BY <1>3, UnregisterFacts DEF Moved
  <1> HIDE DEF c
  <1>5. Moved(c, d, c.wifi, c.ble \ {"DETECTOR"}, c.own)
    BY <1>4, UnregisterFacts DEF Moved
  <1> HIDE DEF d
  <1> QED  BY <1>1, <1>2, <1>3, <1>4, <1>5 DEF Moved

\* Those of S that run.
Run(s, S) == S \cap s.on

LEMMA UnhostFacts ==
  ASSUME NEW s \in Radio, Listens(s), Masked(s)
  PROVE  Moved(s, Hosts(s, FALSE),
               s.wifi \cup {e \in Run(s, {"FLOCK_WIFI", "DETECTOR"}) : "wifi" \in Wants(s, e)},
               s.ble \cup Run(s, {"FLOCK_BLE"})
                     \cup {e \in Run(s, {"DETECTOR"}) : "ble" \in Wants(s, e)},
               s.own \cup {e \in Run(s, {"DETECTOR"}) : "wifi" \in Wants(s, e)})
  <1> DEFINE a == flockWifiHostSuspend(s, FALSE)
             b == flockBleHostSuspend(a, FALSE)
             c == detectorHostSuspend(b, FALSE)
  <1>1. Hosts(s, FALSE) = c
    BY DEF Hosts
  <1>2. Moved(s, a, s.wifi \cup {e \in Run(s, {"FLOCK_WIFI"}) : "wifi" \in Wants(s, e)},
              s.ble, s.own)
    <2>1. CASE "FLOCK_WIFI" \in s.on
      <3>1. "FLOCK_WIFI" \in Engines /\ a = Take(s, "FLOCK_WIFI", s.mask["FLOCK_WIFI"])
        BY <2>1 DEF Radio, flockWifiHostSuspend
      <3>2. Wants(s, "FLOCK_WIFI") = s.mask["FLOCK_WIFI"] /\ "ble" \notin s.mask["FLOCK_WIFI"]
        BY DEF Wants, Masked
      <3> HIDE DEF a
      <3>3. Moved(s, a, s.wifi \cup {i \in {"FLOCK_WIFI"} : "wifi" \in s.mask["FLOCK_WIFI"]},
                  s.ble \cup {i \in {"FLOCK_WIFI"} : "ble" \in s.mask["FLOCK_WIFI"]}, s.own)
        BY <3>1, TakeFacts
      <3> QED  BY <2>1, <3>2, <3>3 DEF Moved, Run
    <2>2. CASE "FLOCK_WIFI" \notin s.on
      <3>1. a = s
        BY <2>2 DEF flockWifiHostSuspend
      <3> HIDE DEF a
      <3> QED  BY <2>2, <3>1 DEF Moved, Run
    <2> QED  BY <2>1, <2>2
  <1> HIDE DEF a
  <1>3. Moved(a, b, a.wifi, a.ble \cup Run(a, {"FLOCK_BLE"}), a.own)
    <2>1. CASE "FLOCK_BLE" \in a.on
      <3>1. "FLOCK_BLE" \in Engines /\ a \in Radio /\ Listens(a)
        BY <1>2, <2>1 DEF Radio, Moved
      <3>2. b = bleCoexRegister(a, "FLOCK_BLE")
        BY <2>1 DEF flockBleHostSuspend
      <3> HIDE DEF b
      <3>3. Moved(a, b, a.wifi, a.ble \cup {"FLOCK_BLE"}, a.own)
        BY <3>1, <3>2, RegisterFacts
      <3> QED  BY <2>1, <3>3 DEF Moved, Run
    <2>2. CASE "FLOCK_BLE" \notin a.on
      <3>1. b = a
        BY <2>2 DEF flockBleHostSuspend
      <3> HIDE DEF b
      <3> QED  BY <1>2, <2>2, <3>1 DEF Moved, Run
    <2> QED  BY <2>1, <2>2
  <1> HIDE DEF b
  <1>4. Moved(b, c, b.wifi \cup {e \in Run(b, {"DETECTOR"}) : "wifi" \in Wants(b, e)},
              b.ble \cup {e \in Run(b, {"DETECTOR"}) : "ble" \in Wants(b, e)},
              b.own \cup {e \in Run(b, {"DETECTOR"}) : "wifi" \in Wants(b, e)})
    <2>1. CASE "DETECTOR" \in b.on
      <3>1. "DETECTOR" \in Engines \cap {"DETECTOR", "FOXHUNTER"} /\ b \in Radio /\ Listens(b)
        BY <1>3, <2>1 DEF Radio, Moved
      <3>2. c = TakeOwn(b, "DETECTOR")
        BY <2>1 DEF detectorHostSuspend
      <3> HIDE DEF c
      <3>3. Moved(b, c, b.wifi \cup {i \in {"DETECTOR"} : "wifi" \in Wants(b, "DETECTOR")},
                  b.ble \cup {i \in {"DETECTOR"} : "ble" \in Wants(b, "DETECTOR")},
                  b.own \cup {i \in {"DETECTOR"} : "wifi" \in Wants(b, "DETECTOR")})
        BY <3>1, <3>2, TakeOwnFacts
      <3> QED  BY <2>1, <3>3 DEF Moved, Run
    <2>2. CASE "DETECTOR" \notin b.on
      <3>1. c = b
        BY <2>2 DEF detectorHostSuspend
      <3> HIDE DEF c
      <3> QED  BY <1>3, <2>2, <3>1 DEF Moved, Run
    <2> QED  BY <2>1, <2>2
  <1> HIDE DEF c
  <1>5. /\ a.on = s.on /\ b.on = s.on
        /\ \A e \in {"FLOCK_WIFI", "DETECTOR"} : Wants(a, e) = Wants(s, e) /\ Wants(b, e) = Wants(s, e)
    BY <1>2, <1>3 DEF Moved, Wants
  <1>6. Moved(s, c, c.wifi, c.ble, c.own)
    BY <1>2, <1>3, <1>4 DEF Moved
  <1>7. c.wifi = s.wifi \cup {e \in Run(s, {"FLOCK_WIFI", "DETECTOR"}) : "wifi" \in Wants(s, e)}
    BY <1>2, <1>3, <1>4, <1>5 DEF Moved, Run
  <1>8. c.ble = s.ble \cup Run(s, {"FLOCK_BLE"})
                     \cup {e \in Run(s, {"DETECTOR"}) : "ble" \in Wants(s, e)}
    BY <1>2, <1>3, <1>4, <1>5 DEF Moved, Run
  <1>9. c.own = s.own \cup {e \in Run(s, {"DETECTOR"}) : "wifi" \in Wants(s, e)}
    BY <1>2, <1>3, <1>4, <1>5 DEF Moved, Run
  <1> QED  BY <1>1, <1>6, <1>7, <1>8, <1>9

-----------------------------------------------------------------------------
(* Stopping an engine.                                                     *)

\* Engine x is off and out of the tables, and nothing else has changed.
Stopped(s, t, x) ==
  /\ t \in Radio /\ Listens(t)
  /\ t.wifi = s.wifi \ {x} /\ t.ble = s.ble \ {x} /\ t.own = s.own \ {x}
  /\ t.on = s.on \ {x} /\ t.state = s.state \ ({x} \cap {"PCAP"})
  /\ t.mask = s.mask /\ t.sig = s.sig /\ t.wdScan = s.wdScan

LEMMA OffFacts ==
  ASSUME NEW s, NEW u, NEW x, x # "PCAP", Moved(s, u, s.wifi \ {x}, s.ble \ {x}, s.own \ {x})
  PROVE  Stopped(s, [u EXCEPT !.on = @ \ {x}], x)
  BY DEF Moved, Stopped, Radio, Listens

LEMMA OwnerStopFacts ==
  ASSUME NEW s, Sound(s), MeshOn, NEW x \in {"DETECTOR", "FOXHUNTER"}
  PROVE  Moved(s, ownerStop(s, x), s.wifi \ {x}, s.ble \ {x}, s.own \ {x})
  <1> DEFINE a == [s EXCEPT !.own = @ \ {x}]
             b == wifiCoexUnregister(a, x)
             c == wifiOff(b)
             d == IF x \in s.own THEN c ELSE s
             e == bleCoexUnregister(d, x)
  <1>0. s \in Radio /\ Listens(s)
    BY DEF Sound
  <1>1. Moved(s, a, s.wifi, s.ble, s.own \ {x})
    BY <1>0 DEF Moved, Radio, Listens
  <1>2. ownerStop(s, x) = e
    BY DEF ownerStop
  <1> HIDE DEF a
  <1>3. Moved(a, b, a.wifi \ {x}, a.ble, a.own)
    BY <1>1, UnregisterFacts DEF Moved
  <1> HIDE DEF b
  <1>4. Moved(b, c, b.wifi, b.ble, b.own)
    BY <1>3, WifiStaysOn DEF Moved
  <1> HIDE DEF c
  <1>5. Moved(s, d, s.wifi \ {x}, s.ble, s.own \ {x})
    <2>1. CASE x \in s.own
      BY <2>1, <1>1, <1>3, <1>4 DEF Moved
    <2>2. CASE x \notin s.own
      <3>1. s.wifi \ {x} = s.wifi /\ s.own \ {x} = s.own
        BY <2>2 DEF Sound
      <3> QED  BY <1>0, <2>2, <3>1 DEF Moved
    <2> QED  BY <2>1, <2>2
  <1> HIDE DEF d
  <1>6. Moved(d, e, d.wifi, d.ble \ {x}, d.own)
    BY <1>5, UnregisterFacts DEF Moved
  <1> HIDE DEF e
  <1> QED  BY <1>2, <1>5, <1>6 DEF Moved

\* Every engine but WARDRIVE.
LEMMA StopFacts ==
  ASSUME NEW s, Sound(s), Masked(s), MeshOn, NEW x \in s.on, x # "WARDRIVE",
         x = "PCAP" => Fits(s, x)
  PROVE  Stopped(s, Stop(s, x), x)
  <1>0. s \in Radio /\ Listens(s) /\ x \in EngineIds
    BY DEF Sound, Radio
  <1>1. CASE x \in {"DETECTOR", "FOXHUNTER"}
    <2> DEFINE t == ownerStop(s, x)
    <2>1. Stop(s, x) = [t EXCEPT !.on = @ \ {x}]
      BY <1>1 DEF Stop, detectorStop, foxhunterStop
    <2>2. Moved(s, t, s.wifi \ {x}, s.ble \ {x}, s.own \ {x})
      BY <1>1, OwnerStopFacts
    <2> HIDE DEF t
    <2> QED  BY <1>1, <2>1, <2>2, OffFacts
  <1>2. CASE x \in {"FLOCK_BLE", "UNIPWN"}
    <2> DEFINE t == bleCoexUnregister(s, x)
    <2>1. Stop(s, x) = [t EXCEPT !.on = @ \ {x}]
      BY <1>2 DEF Stop, flockBleStop, unipwnStop
    <2>2. Moved(s, t, s.wifi, s.ble \ {x}, s.own)
      BY <1>0, UnregisterFacts
    <2> HIDE DEF t
    <2>3. s.wifi \ {x} = s.wifi /\ s.own \ {x} = s.own
      BY <1>0, <1>2 DEF Sound, Radio
    <2>4. Moved(s, t, s.wifi \ {x}, s.ble \ {x}, s.own \ {x})
      BY <2>2, <2>3
    <2> QED  BY <1>2, <2>1, <2>4, OffFacts
  <1>3. CASE x = "FLOCK_WIFI"
    <2> DEFINE a == wifiCoexUnregister(s, x)
               b == wifiOff(a)
               t == IF Hosting(s) THEN s ELSE b
    <2>1. Stop(s, x) = [t EXCEPT !.on = @ \ {x}]
      BY <1>3 DEF Stop, flockWifiStop
    <2>2. Moved(s, a, s.wifi \ {x}, s.ble, s.own)
      BY <1>0, UnregisterFacts
    <2> HIDE DEF a
    <2>3. Moved(a, b, a.wifi, a.ble, a.own)
      BY <2>2, WifiStaysOn DEF Moved
    <2> HIDE DEF b
    <2>4. s.ble \ {x} = s.ble /\ s.own \ {x} = s.own
      BY <1>0, <1>3 DEF Sound, Radio
    <2>5. Hosting(s) => s.wifi \ {x} = s.wifi
      BY <1>3 DEF Sound, Hosted
    <2>6. Moved(s, t, s.wifi \ {x}, s.ble \ {x}, s.own \ {x})
      BY <1>0, <2>2, <2>3, <2>4, <2>5 DEF Moved
    <2> HIDE DEF t
    <2> QED  BY <1>3, <2>1, <2>6, OffFacts
  <1>4. CASE x = "SKYSPY"
    <2> DEFINE a == bleCoexUnregister(s, x)
               b == [a EXCEPT !.scan = FALSE]
               t == wifiCoexUnregister(b, x)
    <2>1. Stop(s, x) = [t EXCEPT !.on = @ \ {x}]
      BY <1>4 DEF Stop, skyspyStop
    <2>2. Moved(s, a, s.wifi, s.ble \ {x}, s.own)
      BY <1>0, UnregisterFacts
    <2> HIDE DEF a
    <2>3. Moved(a, b, a.wifi, a.ble, a.own)
      BY <2>2 DEF Moved, Radio, Listens
    <2> HIDE DEF b
    <2>4. Moved(b, t, b.wifi \ {x}, b.ble, b.own)
      BY <2>3, UnregisterFacts DEF Moved
    <2> HIDE DEF t
    <2>5. s.own \ {x} = s.own
      BY <1>0, <1>4 DEF Radio
    <2>6. Moved(s, t, s.wifi \ {x}, s.ble \ {x}, s.own \ {x})
      BY <2>2, <2>3, <2>4, <2>5 DEF Moved
    <2> QED  BY <1>4, <2>1, <2>6, OffFacts
  <1>5. CASE x = "PCAP"
    <2> DEFINE u == bleCoexUnregister(s, x)
               a == IF s.mask["PCAP"] = {"wifi"} THEN wifiCoexUnregister(s, x)
                    ELSE [u EXCEPT !.scan = @ /\ ~s.pcapScan, !.pcapScan = FALSE]
               t == [a EXCEPT !.state = @ \ {x}]
    <2>1. Stop(s, x) = [t EXCEPT !.on = @ \ {x}]
      BY <1>5 DEF Stop, pcapStop
    <2>2. /\ Moved(s, wifiCoexUnregister(s, x), s.wifi \ {x}, s.ble, s.own)
          /\ Moved(s, u, s.wifi, s.ble \ {x}, s.own)
      BY <1>0, UnregisterFacts
    <2> HIDE DEF u
    <2>3. Moved(s, [u EXCEPT !.scan = @ /\ ~s.pcapScan, !.pcapScan = FALSE],
                s.wifi, s.ble \ {x}, s.own)
      BY <2>2 DEF Moved, Radio, Listens
    <2>4. /\ s.own \ {x} = s.own
          /\ s.mask["PCAP"] = {"wifi"} => s.ble \ {x} = s.ble
          /\ s.mask["PCAP"] # {"wifi"} => s.wifi \ {x} = s.wifi
      BY <1>0, <1>5 DEF Radio, Fits, Masked, Wants, Hosted
    <2>5. Moved(s, a, s.wifi \ {x}, s.ble \ {x}, s.own \ {x})
      BY <2>2, <2>3, <2>4
    <2> HIDE DEF a
    <2>6. Stopped(s, [t EXCEPT !.on = @ \ {x}], x)
      BY <1>5, <2>5 DEF Moved, Stopped, Radio, Listens
    <2> QED  BY <2>1, <2>6
  <1> QED  BY <1>0, <1>1, <1>2, <1>3, <1>4, <1>5

\* WARDRIVE besides gives the engines it fed their radios back.
Unhosted(s, t) ==
  /\ t \in Radio /\ Listens(t)
  /\ t.wifi = (s.wifi \ {"WARDRIVE"})
       \cup {e \in Run(s, {"FLOCK_WIFI", "DETECTOR"}) : "wifi" \in Wants(s, e)}
  /\ t.ble = (s.ble \ {"WARDRIVE"}) \cup Run(s, {"FLOCK_BLE"})
       \cup {e \in Run(s, {"DETECTOR"}) : "ble" \in Wants(s, e)}
  /\ t.own = s.own \cup {e \in Run(s, {"DETECTOR"}) : "wifi" \in Wants(s, e)}
  /\ t.on = s.on \ {"WARDRIVE"} /\ t.state = s.state \ {"WARDRIVE"}
  /\ t.mask = s.mask /\ t.sig = s.sig

LEMMA WardriveStopFacts ==
  ASSUME NEW s, Sound(s), Masked(s), MeshOn
  PROVE  Unhosted(s, Stop(s, "WARDRIVE"))
  <1> DEFINE u == bleCoexUnregister(s, "WARDRIVE")
             a == IF s.wdScan THEN [u EXCEPT !.scan = FALSE, !.wdScan = FALSE, !.elapsed = 2]
                  ELSE s
             w == wifiCoexUnregister(a, "WARDRIVE")
             b == wifiOff(w)
             c == [b EXCEPT !.state = @ \ {"WARDRIVE"}]
             d == Hosts(c, FALSE)
             t == [d EXCEPT !.on = @ \ {"WARDRIVE"}]
  <1>0. s \in Radio /\ Listens(s)
    BY DEF Sound
  <1>1. Stop(s, "WARDRIVE") = t
    BY DEF Stop, wardriveStop
  <1>2. Moved(s, u, s.wifi, s.ble \ {"WARDRIVE"}, s.own)
    BY <1>0, UnregisterFacts
  <1> HIDE DEF u
  <1>3. /\ a \in Radio /\ Listens(a)
        /\ a.wifi = s.wifi /\ a.ble = s.ble \ {"WARDRIVE"} /\ a.own = s.own
        /\ a.on = s.on /\ a.state = s.state /\ a.mask = s.mask /\ a.sig = s.sig
    <2>1. CASE s.wdScan
      <3>1. a = [u EXCEPT !.scan = FALSE, !.wdScan = FALSE, !.elapsed = 2]
        BY <2>1
      <3> HIDE DEF a
      <3>2. u \in Radio /\ Listens(u)
        BY <1>2 DEF Moved
      <3>3. /\ a \in Radio /\ Listens(a) /\ a.wifi = u.wifi /\ a.ble = u.ble /\ a.own = u.own
            /\ a.on = u.on /\ a.state = u.state /\ a.mask = u.mask /\ a.sig = u.sig
        <4>1. 2 \in 0..2 /\ FALSE \in BOOLEAN
          OBVIOUS
        <4>2. a \in Radio
          BY <3>1, <3>2, <4>1 DEF Radio
        <4>3. /\ a.promisc = u.promisc /\ a.wifi = u.wifi /\ a.ble = u.ble /\ a.own = u.own
              /\ a.on = u.on /\ a.state = u.state /\ a.mask = u.mask /\ a.sig = u.sig
          BY <3>1, <3>2 DEF Radio
        <4> QED  BY <3>2, <4>2, <4>3 DEF Listens
      <3> QED  BY <1>2, <3>3 DEF Moved
    <2>2. CASE ~s.wdScan
      <3>1. a = s /\ s.ble \ {"WARDRIVE"} = s.ble
        BY <2>2 DEF Sound
      <3> QED  BY <1>0, <3>1
    <2> QED  BY <2>1, <2>2
  <1> HIDE DEF a
  <1>4. Moved(a, w, a.wifi \ {"WARDRIVE"}, a.ble, a.own)
    BY <1>3, UnregisterFacts
  <1> HIDE DEF w
  <1>5. Moved(w, b, w.wifi, w.ble, w.own)
    BY <1>4, WifiStaysOn DEF Moved
  <1> HIDE DEF b
  <1>6. /\ c \in Radio /\ Listens(c)
        /\ c.wifi = s.wifi \ {"WARDRIVE"} /\ c.ble = s.ble \ {"WARDRIVE"} /\ c.own = s.own
        /\ c.on = s.on /\ c.state = s.state \ {"WARDRIVE"} /\ c.mask = s.mask /\ c.sig = s.sig
    BY <1>3, <1>4, <1>5 DEF Moved, Radio, Listens
  <1> HIDE DEF c
  <1>7. Masked(c) /\ (\A e : Wants(c, e) = Wants(s, e)) /\ (\A S : Run(c, S) = Run(s, S))
    BY <1>6 DEF Masked, Wants, Run
  <1>8. Moved(c, d, c.wifi \cup {e \in Run(c, {"FLOCK_WIFI", "DETECTOR"}) : "wifi" \in Wants(c, e)},
              c.ble \cup Run(c, {"FLOCK_BLE"})
                    \cup {e \in Run(c, {"DETECTOR"}) : "ble" \in Wants(c, e)},
              c.own \cup {e \in Run(c, {"DETECTOR"}) : "wifi" \in Wants(c, e)})
    BY <1>6, <1>7, UnhostFacts
  <1> HIDE DEF d
  <1>9. /\ t \in Radio /\ Listens(t)
        /\ t.wifi = d.wifi /\ t.ble = d.ble /\ t.own = d.own /\ t.state = d.state
        /\ t.on = d.on \ {"WARDRIVE"} /\ t.mask = d.mask /\ t.sig = d.sig
    BY <1>8 DEF Moved, Radio, Listens
  <1> HIDE DEF t
  <1> QED  BY <1>1, <1>6, <1>7, <1>8, <1>9 DEF Moved, Unhosted

\* What was sound and fitting stays so without engine x.
LEMMA StoppedIsGood ==
  ASSUME NEW s, NEW t, NEW x, x # "WARDRIVE", Sound(s), Masked(s),
         \A e \in s.on \ {x} : Fits(s, e), Stopped(s, t, x)
  PROVE  Good(t)
  <1>1. Hosting(t) <=> Hosting(s)
    BY DEF Stopped, Hosting
  <1>2. Sound(t)
    BY <1>1 DEF Sound, Stopped
  <1>3. Masked(t)
    BY DEF Masked, Stopped
  <1>4. ASSUME NEW e \in t.on PROVE Fits(t, e)
    <2>1. e \in s.on /\ e # x /\ Fits(s, e) /\ Wants(t, e) = Wants(s, e)
      BY <1>4 DEF Stopped, Wants
    <2>2. (e \in t.wifi <=> e \in s.wifi) /\ (e \in t.ble <=> e \in s.ble)
      BY <2>1 DEF Stopped
    <2> QED  BY <1>1, <2>1, <2>2 DEF Fits
  <1> QED  BY <1>2, <1>3, <1>4 DEF Good

LEMMA UnhostedIsGood ==
  ASSUME NEW s, NEW t, "WARDRIVE" \in s.on, Sound(s), Masked(s),
         \A e \in s.on \ {"WARDRIVE"} : Fits(s, e), Unhosted(s, t)
  PROVE  Good(t)
  <1>1. Hosting(s) /\ ~Hosting(t)
    BY DEF Sound, Unhosted, Hosting
  <1>2. "WARDRIVE" \notin t.wifi \cup t.ble
    BY DEF Unhosted, Run
  <1>3. Sound(t)
    BY <1>1, <1>2 DEF Sound, Unhosted, Run
  <1>4. Masked(t)
    BY DEF Masked, Unhosted
  <1>5. ASSUME NEW e \in t.on PROVE Fits(t, e)
    <2>1. e \in s.on /\ e # "WARDRIVE" /\ Fits(s, e) /\ Wants(t, e) = Wants(s, e)
      BY <1>5 DEF Unhosted, Wants
    <2>2. CASE e \in Hosted
      <3>1. e \notin s.wifi /\ e \notin s.ble
        BY <1>1, <2>2 DEF Sound
      <3>2. "wifi" \notin Wants(s, "FLOCK_BLE") /\ "ble" \notin Wants(s, "FLOCK_WIFI")
        BY DEF Masked, Wants
      <3>3. /\ e \in t.wifi <=> "wifi" \in Wants(s, e)
            /\ "ble" \in Wants(s, e) => e \in t.ble
            /\ e \in t.ble => e = "FLOCK_BLE" \/ "ble" \in Wants(s, e)
        BY <2>1, <2>2, <3>1, <3>2 DEF Unhosted, Run, Hosted
      <3> QED  BY <2>1, <2>2, <3>3 DEF Fits, Hosted
    <2>3. CASE e \notin Hosted
      <3>1. (e \in t.wifi <=> e \in s.wifi) /\ (e \in t.ble <=> e \in s.ble)
        BY <2>1, <2>3 DEF Unhosted, Run, Hosted
      <3> QED  BY <2>1, <2>3, <3>1 DEF Fits
    <2> QED  BY <2>2, <2>3
  <1> QED  BY <1>3, <1>4, <1>5 DEF Good

\* An engine that stops, for good or for a restart with other radios, takes no
\* radio from an engine that runs, and leaves nothing in the tables.
LEMMA StopKeeps ==
  ASSUME NEW s, Sound(s), Masked(s), MeshOn, NEW x \in s.on,
         \A e \in s.on \ {x} : Fits(s, e), x = "PCAP" => Fits(s, x)
  PROVE  /\ Good(Stop(s, x)) /\ Stop(s, x).on = s.on \ {x}
         /\ Stop(s, x).state \ {x} = s.state \ {x}
         /\ Stop(s, x).mask = s.mask
  <1>1. CASE x # "WARDRIVE"
    BY <1>1, StopFacts, StoppedIsGood DEF Stopped
  <1>2. CASE x = "WARDRIVE"
    <2>1. Unhosted(s, Stop(s, "WARDRIVE"))
      BY WardriveStopFacts
    <2> QED  BY <1>2, <2>1, UnhostedIsGood DEF Unhosted
  <1> QED  BY <1>1, <1>2

LEMMA DisableKeeps ==
  ASSUME NEW s, AtRest(s), MeshOn, NEW x
  PROVE  AtRest(engineDisable(s, x)) /\ engineDisable(s, x).on = s.on \ {x}
  <1>1. CASE x \in s.state
    <2> DEFINE t == Stop(s, x)
    <2>1. Good(t) /\ t.on = s.on \ {x} /\ t.state \ {x} = s.state \ {x}
      BY <1>1, StopKeeps DEF AtRest, Good
    <2>2. engineDisable(s, x) = [t EXCEPT !.state = t.state \ {x}]
      BY <1>1 DEF engineDisable
    <2> HIDE DEF t
    <2> DEFINE u == [t EXCEPT !.state = t.state \ {x}]
    <2>3. t \in Radio /\ t.state \ {x} = t.on
      BY <2>1 DEF Good, Sound, AtRest
    <2>4. /\ u \in Radio /\ u.state = t.on /\ u.on = t.on /\ u.wifi = t.wifi /\ u.ble = t.ble
          /\ u.own = t.own /\ u.mask = t.mask /\ u.sig = t.sig /\ u.wdScan = t.wdScan
          /\ (Listens(u) <=> Listens(t))
      BY <2>3 DEF Radio, Listens
    <2> HIDE DEF u
    <2>5. Hosting(u) <=> Hosting(t)
      BY <2>1, <2>4 DEF Good, Sound, Hosting
    <2>6. Good(u)
      BY <2>1, <2>4, <2>5 DEF Good, Sound, Masked, Fits, Wants
    <2> QED  BY <2>1, <2>2, <2>4, <2>6 DEF AtRest, u
  <1>2. CASE x \notin s.state
    BY <1>2 DEF engineDisable, AtRest
  <1> QED  BY <1>1, <1>2

-----------------------------------------------------------------------------
(* Starting an engine.                                                     *)

\* The radios engine x takes when it starts: none if WARDRIVE runs and x is
\* passive then.
TakesOf(s, x) ==
  IF Hosting(s) /\ x \in Hosted \cup {"FOXHUNTER"} THEN {} ELSE Wants(s, x)

Begun(s, t, x) ==
  /\ t \in Radio /\ Listens(t)
  /\ t.wifi = s.wifi \cup {i \in {x} : "wifi" \in TakesOf(s, x)}
  /\ t.ble = s.ble \cup {i \in {x} : "ble" \in TakesOf(s, x)}
  /\ t.own = s.own \cup {i \in {x} \cap {"DETECTOR", "FOXHUNTER"} : "wifi" \in TakesOf(s, x)}
  /\ t.on = s.on \cup {x} /\ t.state = s.state \cup ({x} \cap {"PCAP"})
  /\ t.mask = s.mask /\ t.sig = s.sig /\ t.wdScan = s.wdScan

Granted(s, u, x) ==
  Moved(s, u, s.wifi \cup {i \in {x} : "wifi" \in TakesOf(s, x)},
        s.ble \cup {i \in {x} : "ble" \in TakesOf(s, x)},
        s.own \cup {i \in {x} \cap {"DETECTOR", "FOXHUNTER"} : "wifi" \in TakesOf(s, x)})

LEMMA OnFacts ==
  ASSUME NEW s, NEW u, NEW x \in Engines, x # "PCAP", Granted(s, u, x)
  PROVE  Begun(s, [u EXCEPT !.on = @ \cup {x}], x)
  BY DEF Granted, Moved, Begun, Radio, Listens

\* Every engine but WARDRIVE; FOXHUNTER when it need not switch others off.
LEMMA StartFacts ==
  ASSUME NEW s, Good(s), NEW x \in Engines \ s.on, x # "WARDRIVE",
         x = "FOXHUNTER" => Hosting(s)
  PROVE  Begun(s, Start(s, x), x)
  <1> DEFINE R == TakesOf(s, x)
  <1>0. s \in Radio /\ Listens(s) /\ x \in EngineIds /\ Sound(s) /\ Masked(s)
    BY DEF Good, Sound
  <1>1. CASE Hosting(s) /\ x \in Hosted \cup {"FOXHUNTER"}
    <2>1. Start(s, x) = [s EXCEPT !.on = @ \cup {x}]
      BY <1>1 DEF Start, detectorStart, flockBleStart, flockWifiStart, foxhunterStart, Hosted
    <2>2. R = {}
      BY <1>1 DEF TakesOf
    <2>3. Granted(s, s, x)
      BY <1>0, <2>2 DEF Granted, Moved
    <2>4. x # "PCAP"
      BY <1>1 DEF Hosted
    <2> QED  BY <2>1, <2>3, <2>4, OnFacts
  <1>2. CASE ~Hosting(s) /\ x = "DETECTOR"
    <2> DEFINE t == TakeOwn(s, x)
    <2>1. Start(s, x) = [t EXCEPT !.on = @ \cup {x}]
      BY <1>2 DEF Start, detectorStart
    <2>2. R = Wants(s, x) /\ {x} \cap {"DETECTOR", "FOXHUNTER"} = {x}
      BY <1>2 DEF TakesOf
    <2>3. Moved(s, t, s.wifi \cup {i \in {x} : "wifi" \in Wants(s, x)},
                s.ble \cup {i \in {x} : "ble" \in Wants(s, x)},
                s.own \cup {i \in {x} : "wifi" \in Wants(s, x)})
      BY <1>0, <1>2, TakeOwnFacts
    <2> HIDE DEF t
    <2>4. Granted(s, t, x)
      BY <2>2, <2>3 DEF Granted
    <2> QED  BY <1>2, <2>1, <2>4, OnFacts
  <1>3. CASE ~(Hosting(s) /\ x \in Hosted) /\ x \in {"FLOCK_BLE", "FLOCK_WIFI", "SKYSPY"}
    <2> DEFINE t == Take(s, x, s.mask[x])
    <2>1. Start(s, x) = [t EXCEPT !.on = @ \cup {x}]
      BY <1>3 DEF Start, flockBleStart, flockWifiStart, skyspyStart, Hosted
    <2>2. R = s.mask[x] /\ {x} \cap {"DETECTOR", "FOXHUNTER"} = {}
      BY <1>3 DEF TakesOf, Wants
    <2>3. Moved(s, t, s.wifi \cup {i \in {x} : "wifi" \in s.mask[x]},
                s.ble \cup {i \in {x} : "ble" \in s.mask[x]}, s.own)
      BY <1>0, TakeFacts
    <2> HIDE DEF t
    <2>4. Granted(s, t, x)
      BY <2>2, <2>3 DEF Granted
    <2> QED  BY <1>3, <2>1, <2>4, OnFacts
  <1>4. CASE x = "UNIPWN"
    <2> DEFINE t == bleCoexRegister(s, x)
    <2>1. Start(s, x) = [t EXCEPT !.on = @ \cup {x}]
      BY <1>4 DEF Start, unipwnStart
    <2>2. R = {"ble"} /\ {x} \cap {"DETECTOR", "FOXHUNTER"} = {}
      BY <1>0, <1>4 DEF TakesOf, Wants, Masked, Hosted
    <2>3. Moved(s, t, s.wifi, s.ble \cup {x}, s.own)
      BY <1>0, RegisterFacts
    <2> HIDE DEF t
    <2>4. Granted(s, t, x)
      BY <2>2, <2>3 DEF Granted
    <2> QED  BY <1>4, <2>1, <2>4, OnFacts
  <1>5. CASE x = "PCAP"
    <2> DEFINE a == Take(s, x, s.mask[x])
               b == a.scan \/ s.mask["PCAP"] = {"ble"}
               c == a.pcapScan \/ s.mask["PCAP"] = {"ble"}
               d == [a EXCEPT !.scan = b, !.pcapScan = c]
               t == [d EXCEPT !.state = @ \cup {x}]
    <2>1. Start(s, x) = [t EXCEPT !.on = @ \cup {x}]
      BY <1>5 DEF Start, pcapStart
    <2>2. R = s.mask[x] /\ {x} \cap {"DETECTOR", "FOXHUNTER"} = {}
      BY <1>5 DEF TakesOf, Wants, Hosted
    <2>3. Moved(s, a, s.wifi \cup {i \in {x} : "wifi" \in s.mask[x]},
                s.ble \cup {i \in {x} : "ble" \in s.mask[x]}, s.own)
      BY <1>0, TakeFacts
    <2> HIDE DEF a
    <2>4. a \in Radio /\ b \in BOOLEAN /\ c \in BOOLEAN
      BY <2>3 DEF Moved
    <2> HIDE DEF b, c
    <2>5. /\ d \in Radio /\ d.promisc = a.promisc /\ d.wifi = a.wifi /\ d.ble = a.ble
          /\ d.own = a.own /\ d.state = a.state /\ d.on = a.on
          /\ d.mask = a.mask /\ d.sig = a.sig /\ d.wdScan = a.wdScan
      BY <2>4 DEF Radio
    <2> HIDE DEF d
    <2>6. /\ t \in Radio /\ t.promisc = a.promisc /\ t.wifi = a.wifi /\ t.ble = a.ble
          /\ t.own = a.own /\ t.state = a.state \cup {x} /\ t.on = a.on
          /\ t.mask = a.mask /\ t.sig = a.sig /\ t.wdScan = a.wdScan
      BY <2>5 DEF Radio
    <2> HIDE DEF t
    <2> DEFINE u == [t EXCEPT !.on = @ \cup {x}]
    <2>7. /\ u \in Radio /\ u.promisc = t.promisc /\ u.wifi = t.wifi /\ u.ble = t.ble
          /\ u.own = t.own /\ u.state = t.state /\ u.on = t.on \cup {x}
          /\ u.mask = t.mask /\ u.sig = t.sig /\ u.wdScan = t.wdScan
      BY <2>6 DEF Radio
    <2> HIDE DEF u
    <2>8. Begun(s, u, x)
      BY <1>5, <2>2, <2>3, <2>6, <2>7 DEF Begun, Moved, Listens
    <2> QED  BY <2>1, <2>8 DEF d, t, u
  <1> QED  BY <1>0, <1>1, <1>2, <1>3, <1>4, <1>5 DEF Hosted

LEMMA BegunIsGood ==
  ASSUME NEW s, NEW t, NEW x \in EngineIds \ s.on, x # "WARDRIVE", Good(s), Begun(s, t, x)
  PROVE  Good(t)
  <1>0. Sound(s) /\ Masked(s) /\ Sound(s)
    BY DEF Good
  <1>1. Hosting(t) <=> Hosting(s)
    BY DEF Begun, Hosting
  <1>2. Masked(t) /\ \A e : Wants(t, e) = Wants(s, e)
    BY <1>0 DEF Masked, Begun, Wants
  <1>3. /\ "FLOCK_BLE" = x \/ "UNIPWN" = x => "wifi" \notin TakesOf(s, x)
        /\ x = "FLOCK_WIFI" => "ble" \notin TakesOf(s, x)
        /\ x = "FOXHUNTER" => TakesOf(s, x) \in {{}, Radios}
        /\ Hosting(s) /\ x \in Hosted => TakesOf(s, x) = {}
    BY <1>0 DEF TakesOf, Wants, Masked
  <1>4. x \notin s.wifi /\ x \notin s.ble
    BY <1>0 DEF Sound
  <1>5. /\ t.wifi \subseteq t.on /\ t.ble \subseteq t.on
        /\ "WARDRIVE" \in t.on <=> Hosting(t)
        /\ Hosting(t) => Hosted \cap (t.wifi \cup t.ble) = {}
    BY <1>0, <1>1, <1>3 DEF Sound, Begun
  <1>6. /\ "DETECTOR" \in t.wifi => "DETECTOR" \in t.own
        /\ "FOXHUNTER" \in t.wifi <=> "FOXHUNTER" \in t.own
    BY <1>0, <1>4 DEF Sound, Begun
  <1>7. /\ "WARDRIVE" \in t.ble => t.wdScan
        /\ {"FLOCK_BLE", "UNIPWN"} \cap t.wifi = {} /\ "FLOCK_WIFI" \notin t.ble
    BY <1>0, <1>3 DEF Sound, Begun
  <1>8. Sound(t)
    BY <1>5, <1>6, <1>7 DEF Sound, Begun
  <1>9. ASSUME NEW e \in t.on PROVE Fits(t, e)
    <2>1. CASE e # x
      <3>1. Fits(s, e) /\ (e \in t.wifi <=> e \in s.wifi) /\ (e \in t.ble <=> e \in s.ble)
        BY <1>9, <2>1 DEF Begun, Good
      <3> QED  BY <1>1, <1>2, <3>1 DEF Fits
    <2>2. CASE e = x
      <3>1. (e \in t.wifi <=> "wifi" \in TakesOf(s, x)) /\ (e \in t.ble <=> "ble" \in TakesOf(s, x))
        BY <1>4, <2>2 DEF Begun
      <3>2. CASE x = "FOXHUNTER"
        BY <1>3, <2>2, <3>1, <3>2 DEF Fits
      <3>3. CASE x # "FOXHUNTER"
        BY <1>1, <1>2, <2>2, <3>1, <3>3 DEF Fits, TakesOf
      <3> QED  BY <3>2, <3>3
    <2> QED  BY <2>1, <2>2
  <1> QED  BY <1>2, <1>8, <1>9 DEF Good

\* FOXHUNTER first switches the engines off that would hop its radio away.
LEMMA FoxhunterStartKeeps ==
  ASSUME NEW s, AtRest(s), MeshOn, "FOXHUNTER" \in Engines \ s.on, ~Hosting(s)
  PROVE  LET t == Start(s, "FOXHUNTER")
         IN  Good(t) /\ t.on = t.state \cup {"FOXHUNTER"}
  <1> DEFINE x == "FOXHUNTER"
             a == engineDisable(s, "DETECTOR")
             b == engineDisable(a, "FLOCK_WIFI")
             c == engineDisable(b, "SKYSPY")
             t == TakeOwn(c, x)
             u == [t EXCEPT !.on = @ \cup {x}]
  <1>1. Start(s, x) = u
    BY DEF Start, foxhunterStart
  <1>2. AtRest(a) /\ a.on = s.on \ {"DETECTOR"}
    BY DisableKeeps
  <1> HIDE DEF a
  <1>3. AtRest(b) /\ b.on = a.on \ {"FLOCK_WIFI"}
    BY <1>2, DisableKeeps
  <1> HIDE DEF b
  <1>4. AtRest(c) /\ c.on = b.on \ {"SKYSPY"}
    BY <1>3, DisableKeeps
  <1> HIDE DEF c
  <1>5. c \in Radio /\ Listens(c) /\ Good(c) /\ x \in EngineIds \ c.on /\ ~Hosting(c)
    BY <1>2, <1>3, <1>4 DEF AtRest, Good, Sound, Hosting
  <1>6. Moved(c, t, c.wifi \cup {i \in {x} : "wifi" \in Wants(c, x)},
              c.ble \cup {i \in {x} : "ble" \in Wants(c, x)},
              c.own \cup {i \in {x} : "wifi" \in Wants(c, x)})
    BY <1>5, TakeOwnFacts
  <1>7. Wants(c, x) = TakesOf(c, x) /\ {x} \cap {"DETECTOR", "FOXHUNTER"} = {x}
    BY <1>5 DEF TakesOf
  <1> HIDE DEF t
  <1>8. Granted(c, t, x)
    BY <1>6, <1>7 DEF Granted
  <1>9. Begun(c, u, x)
    BY <1>8, OnFacts
  <1>10. u.state = c.state /\ u.on = c.on \cup {x}
    <2>1. t \in Radio /\ t.state = c.state /\ t.on = c.on
      BY <1>6 DEF Moved
    <2> QED  BY <2>1 DEF Radio
  <1> HIDE DEF u
  <1>11. Good(u)
    BY <1>5, <1>9, BegunIsGood
  <1> QED  BY <1>1, <1>4, <1>10, <1>11 DEF AtRest

\* WARDRIVE takes the engines it feeds off the radios.
LEMMA WardriveStartKeeps ==
  ASSUME NEW s, Good(s), "WARDRIVE" \in Engines \ s.on, s.state = s.on
  PROVE  LET t == Start(s, "WARDRIVE") IN Good(t) /\ t.on = t.state \cup {"WARDRIVE"}
  <1> DEFINE x == "WARDRIVE"
             a == Take(s, x, s.mask[x])
             w == a.wdScan \/ "ble" \in s.mask[x]
             d == [a EXCEPT !.wdScan = w, !.elapsed = 2]
             b == [d EXCEPT !.state = @ \cup {x}]
             c == Hosts(b, TRUE)
             t == [c EXCEPT !.on = @ \cup {x}]
  <1>0. s \in Radio /\ Listens(s) /\ Sound(s) /\ Masked(s) /\ x \in EngineIds
    BY DEF Good, Sound
  <1>1. Start(s, x) = t
    BY DEF Start, wardriveStart
  <1>2. Moved(s, a, s.wifi \cup {i \in {x} : "wifi" \in s.mask[x]},
              s.ble \cup {i \in {x} : "ble" \in s.mask[x]}, s.own)
    BY <1>0, TakeFacts
  <1> HIDE DEF a
  <1>3. a \in Radio
    BY <1>2 DEF Moved
  <1> HIDE DEF w
  <1>4. /\ b \in Radio /\ b.promisc = a.promisc /\ b.wifi = a.wifi /\ b.ble = a.ble
        /\ b.own = a.own /\ b.state = a.state \cup {x} /\ b.on = a.on
        /\ b.mask = a.mask /\ b.sig = a.sig /\ b.wdScan = w
    <2>1. 2 \in 0..2 /\ w \in BOOLEAN
      BY DEF w
    <2>2. /\ d \in Radio /\ d.promisc = a.promisc /\ d.wifi = a.wifi /\ d.ble = a.ble
          /\ d.own = a.own /\ d.state = a.state /\ d.on = a.on
          /\ d.mask = a.mask /\ d.sig = a.sig /\ d.wdScan = w
      BY <1>3, <2>1 DEF Radio
    <2> HIDE DEF d
    <2> QED  BY <2>2 DEF Radio
  <1>5. "ble" \in s.mask[x] => b.wdScan
    BY <1>4 DEF w
  <1> HIDE DEF b
  <1>6. Listens(b)
    BY <1>2, <1>4 DEF Moved, Listens
  <1>7. Moved(b, c, b.wifi \ {"FLOCK_WIFI", "DETECTOR"}, b.ble \ {"FLOCK_BLE", "DETECTOR"}, b.own)
    BY <1>4, <1>6, HostFacts
  <1> HIDE DEF c
  <1>8. c \in Radio /\ Listens(c)
    BY <1>7 DEF Moved
  <1>9. /\ t \in Radio /\ Listens(t) /\ t.wifi = c.wifi /\ t.ble = c.ble
        /\ t.own = c.own /\ t.state = c.state /\ t.on = c.on \cup {x}
        /\ t.mask = c.mask /\ t.sig = c.sig /\ t.wdScan = c.wdScan
    BY <1>8 DEF Radio, Listens
  <1> HIDE DEF t
  <1>10. /\ t.wifi = (s.wifi \cup {i \in {x} : "wifi" \in s.mask[x]}) \ {"FLOCK_WIFI", "DETECTOR"}
         /\ t.ble = (s.ble \cup {i \in {x} : "ble" \in s.mask[x]}) \ {"FLOCK_BLE", "DETECTOR"}
         /\ t.own = s.own /\ t.state = s.state \cup {x} /\ t.on = s.on \cup {x}
         /\ t.mask = s.mask /\ t.sig = s.sig
    BY <1>2, <1>4, <1>7, <1>9 DEF Moved
  <1>11. "ble" \in s.mask[x] => t.wdScan
    BY <1>5, <1>7, <1>9 DEF Moved
  <1>12. x \notin s.wifi /\ x \notin s.ble /\ Hosting(t) /\ ~Hosting(s)
    BY <1>0, <1>10 DEF Sound, Hosting
  <1>13. t.on = t.state \cup {x}
    BY <1>10
  <1>14. Sound(t)
    <2>1. t.wifi \subseteq t.on /\ t.ble \subseteq t.on /\ "WARDRIVE" \in t.on
      BY <1>0, <1>10 DEF Sound
    <2>2. Hosted \cap (t.wifi \cup t.ble) = {}
      <3>1. "FLOCK_BLE" \notin s.wifi /\ "FLOCK_WIFI" \notin s.ble
        BY <1>0 DEF Sound
      <3> QED  BY <1>10, <3>1 DEF Hosted
    <2>3. /\ "DETECTOR" \notin t.wifi
          /\ "FOXHUNTER" \in t.wifi <=> "FOXHUNTER" \in t.own
          /\ "WARDRIVE" \in t.ble => t.wdScan
          /\ {"FLOCK_BLE", "UNIPWN"} \cap t.wifi = {} /\ "FLOCK_WIFI" \notin t.ble
      BY <1>0, <1>10, <1>11, <1>12 DEF Sound
    <2> QED  BY <1>9, <1>12, <2>1, <2>2, <2>3 DEF Sound
  <1>15. Masked(t) /\ \A e : Wants(t, e) = Wants(s, e)
    BY <1>0, <1>10 DEF Masked, Wants
  <1>16. ASSUME NEW e \in t.on PROVE Fits(t, e)
    <2>1. CASE e \in Hosted
      BY <1>12, <2>1 DEF Fits, Hosted
    <2>2. CASE e = x
      BY <1>10, <1>12, <1>15, <2>2 DEF Fits, Wants
    <2>3. CASE e \notin Hosted /\ e # x
      <3>1. Fits(s, e) /\ (e \in t.wifi <=> e \in s.wifi) /\ (e \in t.ble <=> e \in s.ble)
        BY <1>10, <1>16, <2>3 DEF Good, Hosted
      <3> QED  BY <1>15, <2>3, <3>1 DEF Fits
    <2> QED  BY <2>1, <2>2, <2>3
  <1>17. Good(t)
    BY <1>14, <1>15, <1>16 DEF Good
  <1> QED  BY <1>1, <1>13, <1>17

\* An engine that starts, at a command or as the second half of a restart,
\* takes its radios and disturbs no other.
LEMMA StartKeeps ==
  ASSUME NEW s, Good(s), MeshOn, NEW x \in Engines \ s.on, s.on = s.state \ {x},
         x \in {"FOXHUNTER", "WARDRIVE"} => s.on = s.state
  PROVE  Good(Start(s, x)) /\ Start(s, x).on = Start(s, x).state \cup {x}
  <1>1. CASE x = "WARDRIVE"
    BY <1>1, WardriveStartKeeps
  <1>2. CASE x = "FOXHUNTER" /\ ~Hosting(s)
    BY <1>2, FoxhunterStartKeeps DEF AtRest
  <1>3. CASE x # "WARDRIVE" /\ (x = "FOXHUNTER" => Hosting(s))
    <2>1. Begun(s, Start(s, x), x)
      BY <1>3, StartFacts
    <2>2. Good(Start(s, x))
      BY <1>3, <2>1, BegunIsGood
    <2> QED  BY <2>1, <2>2 DEF Begun
  <1> QED  BY <1>1, <1>2, <1>3

LEMMA EnableKeeps ==
  ASSUME NEW s, AtRest(s), MeshOn, NEW x \in Engines
  PROVE  AtRest(engineEnable(s, x))
  <1>1. CASE x \in s.state \/ Refused(s, x)
    BY <1>1 DEF engineEnable
  <1>2. CASE x \notin s.state /\ ~Refused(s, x)
    <2> DEFINE t == Start(s, x)
               u == [t EXCEPT !.state = @ \cup {x}]
    <2>1. Good(t) /\ t.on = t.state \cup {x}
      BY <1>2, StartKeeps DEF AtRest
    <2>2. engineEnable(s, x) = u
      BY <1>2 DEF engineEnable
    <2> HIDE DEF t
    <2>3. t \in Radio /\ ("WARDRIVE" \in t.on <=> Hosting(t))
      BY <2>1 DEF Good, Sound
    <2>4. /\ u \in Radio /\ u.state = t.on /\ u.on = t.on /\ u.wifi = t.wifi /\ u.ble = t.ble
          /\ u.own = t.own /\ u.mask = t.mask /\ u.sig = t.sig /\ u.wdScan = t.wdScan
          /\ (Listens(u) <=> Listens(t))
      BY <2>1, <2>3 DEF Radio, Listens
    <2> HIDE DEF u
    <2>5. Hosting(u) <=> Hosting(t)
      BY <2>3, <2>4 DEF Hosting
    <2>6. Good(u)
      BY <2>1, <2>4, <2>5 DEF Good, Sound, Masked, Fits, Wants
    <2> QED  BY <2>2, <2>4, <2>6 DEF AtRest
  <1> QED  BY <1>1, <1>2

LEMMA BounceKeeps ==
  ASSUME NEW s, AtRest(s), MeshOn, NEW x
  PROVE  AtRest(Bounce(s, x))
  <1>1. CASE x \in s.state
    <2>1. x \in Engines
      BY <1>1 DEF AtRest, Good, Sound, Radio
    <2>2. AtRest(engineDisable(s, x))
      BY DisableKeeps
    <2> QED  BY <1>1, <2>1, <2>2, EnableKeeps DEF Bounce
  <1>2. CASE x \notin s.state
    BY <1>2 DEF Bounce
  <1> QED  BY <1>1, <1>2

-----------------------------------------------------------------------------
(* The steps.                                                              *)

\* A turn of the loop starts and stops the BLE scan and nothing else.
OnlyScan(s, t) ==
  /\ t \in Radio /\ t.state = s.state /\ t.on = s.on /\ t.wifi = s.wifi /\ t.ble = s.ble
  /\ t.promisc = s.promisc /\ t.own = s.own /\ t.mask = s.mask /\ t.sig = s.sig
  /\ t.wdScan = s.wdScan

LEMMA OnlyScanKeeps ==
  ASSUME NEW s, NEW t, OnlyScan(s, t), Good(s)
  PROVE  Good(t)
  <1>1. (Hosting(t) <=> Hosting(s)) /\ (Listens(t) <=> Listens(s))
    BY DEF OnlyScan, Hosting, Listens
  <1>2. Sound(t) /\ Masked(t)
    BY <1>1 DEF OnlyScan, Good, Sound, Masked
  <1>3. \A e \in t.on : Fits(t, e)
    BY <1>1 DEF OnlyScan, Good, Fits, Wants
  <1> QED  BY <1>2, <1>3 DEF Good

LEMMA ScanFacts ==
  ASSUME NEW s \in Radio, NEW b \in BOOLEAN, NEW i \in 0..2
  PROVE  /\ OnlyScan(s, s) /\ OnlyScan(s, [s EXCEPT !.scan = b])
         /\ OnlyScan(s, [s EXCEPT !.scan = b, !.elapsed = i])
         /\ OnlyScan(s, [s EXCEPT !.elapsed = i])
  BY DEF OnlyScan, Radio

LEMMA TurnFacts ==
  ASSUME NEW s \in Radio, NEW e
  PROVE  OnlyScan(s, Turn(s, e))
  <1>0. OnlyScan(s, s)
    BY DEF OnlyScan
  <1> DEFINE b == (s.scan \/ s.ble # {})
             ensured == bleCoexEnsureScanning(s)
  <1>1. OnlyScan(s, ensured)
    <2>1. b \in BOOLEAN /\ 0 \in 0..2
      OBVIOUS
    <2>2. ensured = [s EXCEPT !.scan = b]
      BY DEF bleCoexEnsureScanning
    <2> HIDE DEF b, ensured
    <2>3. OnlyScan(s, [s EXCEPT !.scan = b])
      BY <2>1, ScanFacts
    <2> QED  BY <2>2, <2>3
  <1>2. ASSUME NEW i PROVE OnlyScan(s, scanLoop(s, i))
    <2>1. scanLoop(s, i) = ensured \/ scanLoop(s, i) = s
      BY DEF scanLoop
    <2> HIDE DEF ensured
    <2> QED  BY <1>0, <1>1, <2>1
  <1>3. OnlyScan(s, wardriveLoop(s))
    <2> DEFINE on == [s EXCEPT !.scan = TRUE, !.elapsed = 0]
               off == [s EXCEPT !.scan = FALSE]
    <2>1. 0 \in 0..2 /\ TRUE \in BOOLEAN /\ FALSE \in BOOLEAN
      OBVIOUS
    <2>2. OnlyScan(s, on) /\ OnlyScan(s, off)
      BY <2>1, ScanFacts
    <2>3. wardriveLoop(s) = on \/ wardriveLoop(s) = off \/ wardriveLoop(s) = s
      BY DEF wardriveLoop
    <2> HIDE DEF on, off
    <2> QED  BY <1>0, <2>2, <2>3
  <1>4. OnlyScan(s, Loop(s, e))
    <2>1. \/ Loop(s, e) = ensured \/ Loop(s, e) = wardriveLoop(s) \/ Loop(s, e) = s
          \/ \E i : Loop(s, e) = scanLoop(s, i)
      BY Zenon DEF Loop, detectorLoop, flockBleLoop, skyspyLoop, unipwnLoop, foxhunterLoop
    <2> HIDE DEF ensured
    <2> QED  BY <1>0, <1>1, <1>2, <1>3, <2>1
  <1>5. Turn(s, e) = Loop(s, e) \/ Turn(s, e) = s
    BY DEF Turn
  <1> QED  BY <1>0, <1>4, <1>5

LEMMA LoopKeeps == ASSUME RadioInv, engineLoopAll PROVE RadioInv'
  <1> DEFINE a == Turn(radio, "DETECTOR")
             b == Turn(a, "FLOCK_BLE")
             c == Turn(b, "FLOCK_WIFI")
             d == Turn(c, "FOXHUNTER")
             e == Turn(d, "SKYSPY")
             f == Turn(e, "UNIPWN")
             g == Turn(f, "WARDRIVE")
             h == Turn(g, "PCAP")
  <1>1. radio' = h /\ restarting' = restarting /\ radio \in Radio
    BY DEF engineLoopAll, ForEach, RadioInv, Good, Sound
  <1>2. OnlyScan(radio, a)
    BY <1>1, TurnFacts
  <1> HIDE DEF a
  <1>3. OnlyScan(a, b)
    BY <1>2, TurnFacts DEF OnlyScan
  <1> HIDE DEF b
  <1>4. OnlyScan(b, c)
    BY <1>3, TurnFacts DEF OnlyScan
  <1> HIDE DEF c
  <1>5. OnlyScan(c, d)
    BY <1>4, TurnFacts DEF OnlyScan
  <1> HIDE DEF d
  <1>6. OnlyScan(d, e)
    BY <1>5, TurnFacts DEF OnlyScan
  <1> HIDE DEF e
  <1>7. OnlyScan(e, f)
    BY <1>6, TurnFacts DEF OnlyScan
  <1> HIDE DEF f
  <1>8. OnlyScan(f, g)
    BY <1>7, TurnFacts DEF OnlyScan
  <1> HIDE DEF g
  <1>9. OnlyScan(g, h)
    BY <1>8, TurnFacts DEF OnlyScan
  <1> HIDE DEF h
  <1>10. OnlyScan(radio, radio')
    BY <1>1, <1>2, <1>3, <1>4, <1>5, <1>6, <1>7, <1>8, <1>9 DEF OnlyScan
  <1> QED  BY <1>1, <1>10, OnlyScanKeeps DEF OnlyScan, RadioInv

LEMMA PauseKeeps == ASSUME RadioInv, Tick \/ onConnect PROVE RadioInv'
  <1>1. OnlyScan(radio, radio') /\ restarting' = restarting
    <2>1. radio \in Radio
      BY DEF RadioInv, Good, Sound
    <2>2. CASE onConnect
      <3>1. OnlyScan(radio, [radio EXCEPT !.scan = FALSE])
        BY <2>1 DEF OnlyScan, Radio
      <3> QED  BY <2>2, <3>1 DEF onConnect
    <2>3. CASE Tick
      <3>1. radio.elapsed + 1 \in 0..2
        BY <2>1, <2>3 DEF Tick, Radio
      <3>2. OnlyScan(radio, [radio EXCEPT !.elapsed = radio.elapsed + 1])
        BY <2>1, <3>1, ScanFacts
      <3> QED  BY <2>3, <3>2 DEF Tick
    <2> QED  BY <2>2, <2>3
  <1> QED  BY <1>1, OnlyScanKeeps DEF OnlyScan, RadioInv

LEMMA Resting ==
  ASSUME RadioInv, restarting = NoEngine
  PROVE  AtRest(radio)
  <1>1. NoEngine \notin radio.state
    BY DEF RadioInv, Good, Sound, Radio, NoEngine
  <1> QED  BY <1>1 DEF RadioInv, AtRest

LEMMA RestKeeps ==
  ASSUME AtRest(radio'), restarting' = NoEngine
  PROVE  RadioInv'
  <1>1. NoEngine \notin radio'.state
    BY DEF AtRest, Good, Sound, Radio, NoEngine
  <1> QED  BY <1>1 DEF RadioInv, AtRest

LEMMA RegistryKeeps ==
  ASSUME RadioInv, MeshOn, Serialised, NEW e \in Engines, Enable(e) \/ Disable(e)
  PROVE  RadioInv'
  <1>1. restarting = NoEngine /\ restarting' = NoEngine
    BY DEF Enable, Disable, Idle
  <1>2. AtRest(radio)
    BY <1>1, Resting
  <1>3. AtRest(radio')
    BY <1>2, EnableKeeps, DisableKeeps DEF Enable, Disable
  <1> QED  BY <1>1, <1>3, RestKeeps

LEMMA BandKeeps ==
  ASSUME RadioInv, MeshOn, Serialised, engineApplyWifiBand
  PROVE  RadioInv'
  <1> DEFINE a == Bounce(radio, "WARDRIVE")
             b == Bounce(a, "SKYSPY")
             c == Bounce(b, "PCAP")
             d == Bounce(c, "DETECTOR")
             e == Bounce(d, "FLOCK_WIFI")
             f == Bounce(e, "FOXHUNTER")
  <1>1. restarting = NoEngine /\ restarting' = NoEngine /\ radio' = f
    BY DEF engineApplyWifiBand, Idle
  <1>2. AtRest(a)
    BY <1>1, Resting, BounceKeeps
  <1> HIDE DEF a
  <1>3. AtRest(b)
    BY <1>2, BounceKeeps
  <1> HIDE DEF b
  <1>4. AtRest(c)
    BY <1>3, BounceKeeps
  <1> HIDE DEF c
  <1>5. AtRest(d)
    BY <1>4, BounceKeeps
  <1> HIDE DEF d
  <1>6. AtRest(e)
    BY <1>5, BounceKeeps
  <1> HIDE DEF e
  <1>7. AtRest(f)
    BY <1>6, BounceKeeps
  <1> HIDE DEF f
  <1> QED  BY <1>1, <1>7, RestKeeps

LEMMA DisableAllKeeps ==
  ASSUME RadioInv, MeshOn, Serialised, engineDisableAll
  PROVE  RadioInv'
  <1> DEFINE a == engineDisable(radio, "DETECTOR")
             b == engineDisable(a, "FLOCK_BLE")
             c == engineDisable(b, "FLOCK_WIFI")
             d == engineDisable(c, "FOXHUNTER")
             e == engineDisable(d, "SKYSPY")
             f == engineDisable(e, "UNIPWN")
             g == engineDisable(f, "WARDRIVE")
             h == engineDisable(g, "PCAP")
             t == [h EXCEPT !.state = {}, !.scan = FALSE]
  <1>1. restarting = NoEngine /\ restarting' = NoEngine /\ radio' = t
    BY DEF engineDisableAll, Idle, ForEach
  <1>2. AtRest(a) /\ a.on = radio.on \ {"DETECTOR"}
    BY <1>1, Resting, DisableKeeps
  <1> HIDE DEF a
  <1>3. AtRest(b) /\ b.on = a.on \ {"FLOCK_BLE"}
    BY <1>2, DisableKeeps
  <1> HIDE DEF b
  <1>4. AtRest(c) /\ c.on = b.on \ {"FLOCK_WIFI"}
    BY <1>3, DisableKeeps
  <1> HIDE DEF c
  <1>5. AtRest(d) /\ d.on = c.on \ {"FOXHUNTER"}
    BY <1>4, DisableKeeps
  <1> HIDE DEF d
  <1>6. AtRest(e) /\ e.on = d.on \ {"SKYSPY"}
    BY <1>5, DisableKeeps
  <1> HIDE DEF e
  <1>7. AtRest(f) /\ f.on = e.on \ {"UNIPWN"}
    BY <1>6, DisableKeeps
  <1> HIDE DEF f
  <1>8. AtRest(g) /\ g.on = f.on \ {"WARDRIVE"}
    BY <1>7, DisableKeeps
  <1> HIDE DEF g
  <1>9. AtRest(h) /\ h.on = g.on \ {"PCAP"}
    BY <1>8, DisableKeeps
  <1> HIDE DEF h
  <1>10. h.on = {} /\ h.state = {} /\ h \in Radio
    <2>1. radio.on \subseteq EngineIds
      BY DEF RadioInv, Good, Sound, Radio
    <2> QED  BY <1>2, <1>3, <1>4, <1>5, <1>6, <1>7, <1>8, <1>9, <2>1 DEF AtRest, Good, Sound
  <1>11. OnlyScan(h, t)
    BY <1>10 DEF OnlyScan, Radio
  <1> HIDE DEF t
  <1>12. AtRest(t)
    BY <1>9, <1>11, OnlyScanKeeps DEF AtRest, OnlyScan
  <1> QED  BY <1>1, <1>12, RestKeeps

\* A record that differs in what engine x is told to use stays sound, and all
\* others fit as before.
LEMMA ChangeFacts ==
  ASSUME NEW s, Good(s), NEW t, NEW x,
         /\ t \in Radio /\ t.state = s.state /\ t.on = s.on /\ t.wifi = s.wifi /\ t.ble = s.ble
         /\ t.promisc = s.promisc /\ t.own = s.own /\ t.wdScan = s.wdScan,
         \A e \in EngineIds \ {x} : Wants(t, e) = Wants(s, e)
  PROVE  Sound(t) /\ \A e \in t.on \ {x} : Fits(t, e)
  <1>1. (Hosting(t) <=> Hosting(s)) /\ (Listens(t) <=> Listens(s)) /\ t.on \subseteq EngineIds
    BY DEF Hosting, Listens, Radio
  <1>2. Sound(t)
    BY <1>1 DEF Good, Sound
  <1>3. ASSUME NEW e \in t.on \ {x} PROVE Fits(t, e)
    <2>1. Fits(s, e) /\ Wants(t, e) = Wants(s, e)
      BY <1>1 DEF Good
    <2> QED  BY <1>1, <2>1 DEF Fits
  <1> QED  BY <1>2, <1>3

LEMMA StopToRestart ==
  ASSUME RadioInv, MeshOn, restarting = NoEngine, NEW s, NEW x \in Restartable,
         Sound(s), Masked(s), \A e \in s.on \ {x} : Fits(s, e),
         s.on = radio.on, s.state = radio.state,
         \/ x \in radio.on /\ radio' = Stop(s, x) /\ restarting' = x
         \/ Fits(s, x) /\ radio' = s /\ restarting' = restarting
         \/ x \notin radio.on /\ radio' = s /\ restarting' = restarting
  PROVE  RadioInv'
  <1>1. AtRest(radio)
    BY Resting
  <1>2. CASE x \in radio.on /\ radio' = Stop(s, x) /\ restarting' = x
    <2>1. x # "PCAP"
      BY DEF Restartable
    <2>2. Good(radio') /\ radio'.on = s.on \ {x} /\ radio'.state \ {x} = s.state \ {x}
      BY <1>2, <2>1, StopKeeps
    <2>3. x \in Engines /\ x \in s.state /\ s.on = s.state
      BY <1>1, <1>2 DEF AtRest, Sound, Radio
    <2>4. x \in radio'.state \/ x = "WARDRIVE"
      <3>1. CASE x # "WARDRIVE"
        <4>1. Stopped(s, Stop(s, x), x)
          BY <1>2, <2>1, <3>1, StopFacts
        <4> QED  BY <1>2, <2>1, <2>3, <4>1 DEF Stopped
      <3> QED  BY <3>1
    <2> QED  BY <1>2, <2>2, <2>3, <2>4 DEF RadioInv
  <1>3. CASE radio' = s /\ restarting' = restarting /\ \A e \in s.on : Fits(s, e)
    <2>1. AtRest(radio')
      BY <1>1, <1>3 DEF AtRest, Good
    <2> QED  BY <1>3, <2>1, RestKeeps
  <1> QED  BY <1>2, <1>3

\* The choice of other radios for one engine.
LEMMA ChooseKeeps ==
  ASSUME RadioInv, MeshOn, Serialised, NEW x \in Restartable, NEW m \in SUBSET Radios,
         x = "FLOCK_BLE" => m \subseteq {"ble"}, x = "FLOCK_WIFI" => m \subseteq {"wifi"},
         Choose(x, m)
  PROVE  RadioInv'
  <1> DEFINE s == [radio EXCEPT !.mask[x] = m]
  <1>1. /\ restarting = NoEngine /\ radio \in Radio /\ Good(radio) /\ x \in EngineIds
        /\ IF x \in radio.on THEN radio' = Stop(s, x) /\ restarting' = x
           ELSE radio' = s /\ UNCHANGED restarting
    BY DEF RadioInv, Good, Sound, Choose, Restartable
  <1>2. /\ s \in Radio /\ s.state = radio.state /\ s.on = radio.on /\ s.wifi = radio.wifi
        /\ s.ble = radio.ble /\ s.promisc = radio.promisc /\ s.own = radio.own
        /\ s.wdScan = radio.wdScan /\ s.sig = radio.sig
        /\ s.mask = [radio.mask EXCEPT ![x] = m]
    BY <1>1 DEF Radio
  <1>3. radio.mask \in [EngineIds -> SUBSET Radios]
    BY <1>1 DEF Radio
  <1> HIDE DEF s
  <1>4. \A e \in EngineIds \ {x} : Wants(s, e) = Wants(radio, e)
    <2> TAKE e \in EngineIds \ {x}
    <2>1. s.mask[e] = radio.mask[e] /\ s.sig = radio.sig
      BY <1>2, <1>3
    <2> QED  BY <2>1 DEF Wants
  <1>5. Masked(s)
    <2>1. s.mask[x] = m /\ \A e \in EngineIds \ {x} : s.mask[e] = radio.mask[e]
      BY <1>1, <1>2, <1>3
    <2>2. Masked(radio)
      BY <1>1 DEF Good
    <2>3. /\ s.mask["FOXHUNTER"] = radio.mask["FOXHUNTER"]
          /\ s.mask["UNIPWN"] = radio.mask["UNIPWN"]
          /\ s.mask["PCAP"] = radio.mask["PCAP"]
      BY <2>1 DEF Restartable
    <2>4. s.mask["FLOCK_BLE"] \subseteq {"ble"}
      <3>1. CASE x = "FLOCK_BLE"
        BY <2>1, <3>1
      <3>2. CASE x # "FLOCK_BLE"
        <4>1. s.mask["FLOCK_BLE"] = radio.mask["FLOCK_BLE"]
          BY <2>1, <3>2
        <4> QED  BY <2>2, <4>1 DEF Masked
      <3> QED  BY <3>1, <3>2
    <2>5. s.mask["FLOCK_WIFI"] \subseteq {"wifi"}
      <3>1. CASE x = "FLOCK_WIFI"
        BY <2>1, <3>1
      <3>2. CASE x # "FLOCK_WIFI"
        <4>1. s.mask["FLOCK_WIFI"] = radio.mask["FLOCK_WIFI"]
          BY <2>1, <3>2
        <4> QED  BY <2>2, <4>1 DEF Masked
      <3> QED  BY <3>1, <3>2
    <2> QED  BY <2>2, <2>3, <2>4, <2>5 DEF Masked
  <1>6. Sound(s) /\ \A e \in s.on \ {x} : Fits(s, e)
    BY <1>1, <1>2, <1>4, ChangeFacts
  <1>7. \/ x \in radio.on /\ radio' = Stop(s, x) /\ restarting' = x
        \/ x \notin radio.on /\ radio' = s /\ restarting' = restarting
    BY <1>1
  <1> QED  BY <1>1, <1>2, <1>5, <1>6, <1>7, StopToRestart

LEMMA SigMaskKeeps ==
  ASSUME RadioInv, MeshOn, Serialised, detectorSetSigMask
  PROVE  RadioInv'
  <1> DEFINE s == [radio EXCEPT !.sig = ~@]
             x == "DETECTOR"
  <1>1. /\ restarting = NoEngine /\ radio \in Radio /\ Good(radio)
        /\ IF x \in radio.on /\ ~Hosting(radio)
           THEN radio' = Stop(s, x) /\ restarting' = x
           ELSE radio' = s /\ UNCHANGED restarting
    BY DEF RadioInv, Good, Sound, detectorSetSigMask
  <1>2. /\ s \in Radio /\ s.state = radio.state /\ s.on = radio.on /\ s.wifi = radio.wifi
        /\ s.ble = radio.ble /\ s.promisc = radio.promisc /\ s.own = radio.own
        /\ s.wdScan = radio.wdScan /\ s.mask = radio.mask
    BY <1>1 DEF Radio
  <1> HIDE DEF s
  <1>3. \A e \in EngineIds \ {x} : Wants(s, e) = Wants(radio, e)
    BY <1>2 DEF Wants
  <1>4. Masked(s) /\ x \in Restartable
    BY <1>1, <1>2 DEF Good, Masked, Restartable
  <1>5. Sound(s) /\ \A e \in s.on \ {x} : Fits(s, e)
    BY <1>1, <1>2, <1>3, ChangeFacts
  <1>6. Hosting(radio) => Fits(s, x)
    BY <1>2 DEF Fits, Hosting, Hosted
  <1>7. \/ x \in radio.on /\ radio' = Stop(s, x) /\ restarting' = x
        \/ Fits(s, x) /\ radio' = s /\ restarting' = restarting
        \/ x \notin radio.on /\ radio' = s /\ restarting' = restarting
    BY <1>1, <1>6
  <1> QED  BY <1>1, <1>2, <1>4, <1>5, <1>7, StopToRestart

\* A capture that does not run may be given the other radio.
LEMMA PcapConfigKeeps ==
  ASSUME RadioInv, MeshOn, Serialised, ~Remode, pcapConfig
  PROVE  RadioInv'
  <1> DEFINE s == [radio EXCEPT !.mask["PCAP"] = Radios \ @]
             x == "PCAP"
  <1>1. /\ restarting = NoEngine /\ radio \in Radio /\ Good(radio) /\ AtRest(radio)
        /\ x \notin radio.on /\ radio' = s /\ restarting' = NoEngine
    BY Resting DEF RadioInv, Good, Sound, pcapConfig, Idle
  <1>2. radio.mask \in [EngineIds -> SUBSET Radios]
    BY <1>1 DEF Radio
  <1>3. /\ s \in Radio /\ s.state = radio.state /\ s.on = radio.on /\ s.wifi = radio.wifi
        /\ s.ble = radio.ble /\ s.promisc = radio.promisc /\ s.own = radio.own
        /\ s.wdScan = radio.wdScan /\ s.sig = radio.sig
        /\ s.mask = [radio.mask EXCEPT ![x] = Radios \ radio.mask[x]]
    BY <1>1, <1>2 DEF Radio
  <1> HIDE DEF s
  <1>4. \A e \in EngineIds \ {x} : Wants(s, e) = Wants(radio, e)
    BY <1>2, <1>3 DEF Wants
  <1>5. Masked(s)
    <2>1. radio.mask[x] \in {{"wifi"}, {"ble"}}
      BY <1>1 DEF Good, Masked
    <2>2. s.mask[x] \in {{"wifi"}, {"ble"}}
      BY <1>2, <1>3, <2>1
    <2>3. \A e \in EngineIds \ {x} : s.mask[e] = radio.mask[e]
      BY <1>2, <1>3
    <2> QED  BY <1>1, <2>2, <2>3 DEF Good, Masked
  <1>6. Sound(s) /\ \A e \in s.on \ {x} : Fits(s, e)
    BY <1>1, <1>3, <1>4, ChangeFacts
  <1>7. AtRest(radio')
    BY <1>1, <1>3, <1>5, <1>6 DEF AtRest, Good
  <1> QED  BY <1>1, <1>7, RestKeeps

LEMMA RestartKeeps ==
  ASSUME RadioInv, MeshOn, Restart
  PROVE  RadioInv'
  <1> DEFINE x == restarting
             t == Start(radio, x)
  <1>1. /\ Good(radio) /\ x \in Engines \cap Restartable /\ radio.on = radio.state \ {x}
        /\ x \in radio.state \cup {"WARDRIVE"} /\ radio' = t /\ restarting' = NoEngine
    BY DEF RadioInv, Restart
  <1>2. x = "WARDRIVE" => radio.on = radio.state
    BY <1>1 DEF Good, Sound, Hosting
  <1>3. x # "FOXHUNTER"
    BY <1>1 DEF Restartable
  <1>4. Good(t) /\ t.on = t.state \cup {x}
    BY <1>1, <1>2, <1>3, StartKeeps
  <1>5. x \in t.state
    <2>1. CASE x = "WARDRIVE"
      BY <1>4, <2>1 DEF Good, Sound, Hosting
    <2>2. CASE x # "WARDRIVE"
      <3>1. Begun(radio, t, x)
        BY <1>1, <1>3, <2>2, StartFacts
      <3> QED  BY <1>1, <2>2, <3>1 DEF Begun
    <2> QED  BY <2>1, <2>2
  <1>6. AtRest(t)
    BY <1>4, <1>5 DEF AtRest
  <1> QED  BY <1>1, <1>6, RestKeeps

LEMMA StepKeeps ==
  ASSUME RadioInv, MeshOn, Serialised, ~Remode, [Next]_vars
  PROVE  RadioInv'
  <1>1. ASSUME NEW e \in Engines, Enable(e) \/ Disable(e) PROVE RadioInv'
    BY <1>1, RegistryKeeps
  <1>2. CASE detectorConfig \/ skyspyConfig
    <2>1. PICK x \in {"DETECTOR", "SKYSPY"}, m \in SUBSET Radios : Choose(x, m)
      BY <1>2 DEF detectorConfig, skyspyConfig
    <2> QED  BY <2>1, ChooseKeeps DEF Restartable
  <1>3. CASE flockBleConfig
    <2>1. PICK m \in {{}, {"ble"}} : Choose("FLOCK_BLE", m)
      BY <1>3 DEF flockBleConfig
    <2> QED  BY <2>1, ChooseKeeps DEF Restartable
  <1>4. CASE flockWifiConfig
    <2>1. PICK m \in {{}, {"wifi"}} : Choose("FLOCK_WIFI", m)
      BY <1>4 DEF flockWifiConfig
    <2> QED  BY <2>1, ChooseKeeps DEF Restartable
  <1>5. CASE wardriveConfig
    <2>1. PICK m \in WardriveMasks : Choose("WARDRIVE", m)
      BY <1>5 DEF wardriveConfig
    <2>2. m \in SUBSET Radios
      BY MasksAssumption
    <2> QED  BY <2>1, <2>2, ChooseKeeps DEF Restartable
  <1>6. CASE pcapConfig
    BY <1>6, PcapConfigKeeps
  <1>7. CASE detectorSetSigMask
    BY <1>7, SigMaskKeeps
  <1>8. CASE Restart
    BY <1>8, RestartKeeps
  <1>9. CASE engineDisableAll
    BY <1>9, DisableAllKeeps
  <1>10. CASE engineApplyWifiBand
    BY <1>10, BandKeeps
  <1>11. CASE engineLoopAll
    BY <1>11, LoopKeeps
  <1>12. CASE Tick \/ onConnect
    BY <1>12, PauseKeeps
  <1>13. CASE UNCHANGED vars
    BY <1>13 DEF vars, RadioInv
  <1> QED  BY <1>1, <1>2, <1>3, <1>4, <1>5, <1>6, <1>7, <1>8, <1>9, <1>10, <1>11, <1>12, <1>13
           DEF Next

LEMMA InitKeeps == Init => RadioInv
  <1> SUFFICES ASSUME Init PROVE RadioInv
    OBVIOUS
  <1>1. \A e \in EngineIds : Default(e) \in SUBSET Radios
    BY DEF Default
  <1>2. 2 \in 0..2 /\ FALSE \in BOOLEAN /\ TRUE \in BOOLEAN
    OBVIOUS
  <1>3. radio \in Radio
    BY <1>1, <1>2 DEF Init, Radio
  <1>4. /\ radio.state = {} /\ radio.on = {} /\ radio.wifi = {} /\ radio.ble = {}
        /\ radio.own = {} /\ restarting = NoEngine /\ radio.promisc = FALSE
        /\ \A e \in EngineIds : radio.mask[e] = Default(e)
    BY DEF Init
  <1>5. Sound(radio)
    BY <1>3, <1>4 DEF Sound, Listens, Hosting
  <1>6. Masked(radio)
    BY <1>4 DEF Masked, Default
  <1> QED  BY <1>4, <1>5, <1>6 DEF RadioInv, Good

\* From the invariant to what the run checks.
LEMMA InvFollows == RadioInv => RadiosFollowEngines
  <1> SUFFICES ASSUME RadioInv PROVE RadiosFollowEngines
    OBVIOUS
  <1>1. Sound(radio) /\ Masked(radio) /\ \A e \in radio.on : Fits(radio, e)
    BY DEF RadioInv, Good
  <1>2. TypeOK /\ SnifferListens /\ HostedEnginesStayOff
    BY <1>1 DEF RadioInv, Sound, Listens, TypeOK, SnifferListens, HostedEnginesStayOff
  <1>3. NoGhosts
    <2>1. restarting = NoEngine => AtRest(radio)
      BY Resting
    <2> QED  BY <1>1, <2>1 DEF NoGhosts, Settled, AtRest, Sound
  <1>4. EveryEngineHears
    <2> SUFFICES ASSUME NEW e \in radio.on, NEW r \in Wants(radio, e)
                 PROVE  Hears(e, r) \/ Gap(e, r)
      BY DEF EveryEngineHears
    <2>1. r \in Radios /\ e \in EngineIds
      BY <1>1 DEF Sound, Radio, Wants
    <2>2. CASE e = "FOXHUNTER"
      BY <1>1, <2>1, <2>2 DEF Sound, Fits, Hears, Gap
    <2>3. CASE Hosting(radio) /\ e \in Hosted
      BY <2>1, <2>3 DEF Hears, Gap
    <2>4. CASE e # "FOXHUNTER" /\ ~(Hosting(radio) /\ e \in Hosted)
      BY <1>1, <2>1, <2>4 DEF Fits, Hears
    <2> QED  BY <2>2, <2>3, <2>4
  <1>5. UsesChosenRadios
    <2>1. Wants(radio, "FOXHUNTER") = Radios
      BY <1>1 DEF Masked, Wants
    <2>2. ASSUME NEW e \in radio.wifi \cup radio.ble, e # "FOXHUNTER"
          PROVE  /\ e \in radio.wifi => "wifi" \in Wants(radio, e)
                 /\ e \in radio.ble /\ e # "FLOCK_BLE" => "ble" \in Wants(radio, e)
      <3>1. e \in radio.on /\ ~(Hosting(radio) /\ e \in Hosted)
        BY <1>1 DEF Sound
      <3> QED  BY <1>1, <2>2, <3>1 DEF Fits
    <2> QED  BY <2>1, <2>2 DEF UsesChosenRadios
  <1> QED  BY <1>2, <1>3, <1>4, <1>5 DEF RadiosFollowEngines

\* The radios follow the engines after any sequence of starts, stops, choices
\* of radios, band changes and turns of the loop, for every set of engines: the
\* callbacks in src/src/engines pass the sniffer and the scan to each other
\* (wifiCoexUnregister, detectorHostSuspend and the like) and lose none.  That
\* takes a mesh that keeps WiFi up (wifiOff), a capture that keeps its radio
\* while it runs, and nothing between the halves of a config handler's restart.
THEOREM RadiosFollow ==
  ASSUME MeshOn, Serialised, ~Remode PROVE Spec => []RadiosFollowEngines
  <1>1. Init => RadioInv
    BY InitKeeps
  <1>2. RadioInv /\ [Next]_vars => RadioInv'
    BY StepKeeps
  <1>3. RadioInv => RadiosFollowEngines
    BY InvFollows
  <1> QED  BY <1>1, <1>2, <1>3, PTL DEF Spec
=============================================================================
