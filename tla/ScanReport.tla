----------------------------- MODULE ScanReport -----------------------------
(* Which access points of a finished scan pumpScan_() reports, and in what    *)
(* order (improv_wifi.cpp:260-292): the hand-written exchange sort and the    *)
(* removal of hidden and of duplicate networks, against what they are for.    *)
EXTENDS Integers, Sequences, SequencesExt

CONSTANTS
  Ssids,        \* the names an access point may have, the hidden one included
  Hidden,       \* the empty name
  Rssis,        \* signal strengths
  MaxRecords    \* bound on the records of a scan

ASSUME HiddenAssumption == Hidden \in Ssids
ASSUME RssiAssumption == Rssis \subseteq Int
ASSUME RecordsAssumption == MaxRecords \in Nat

Records == [ssid : Ssids, rssi : Rssis]
Scans == UNION {[1..n -> Records] : n \in 0..MaxRecords}

Swap(order, i, j) == [order EXCEPT ![i] = order[j], ![j] = order[i]]

BadStep(aps, order, i, j) ==
  IF aps[j].rssi > aps[i].rssi THEN Swap(order, i, j) ELSE order

\* The inner step: the records are compared in the order they have by now.
Step(aps, order, i, j) ==
  IF aps[order[j]].rssi > aps[order[i]].rssi THEN Swap(order, i, j) ELSE order

\* Place i against every place after it.
Pass(aps, order, i) ==
  LET step(o, j) == IF j > i THEN Step(aps, o, i, j) ELSE o
  IN  FoldLeft(step, order, [j \in 1..Len(aps) |-> j])

Order(aps) ==
  LET pass(o, i) == Pass(aps, o, i)
      places == [i \in 1..Len(aps) |-> i]
  IN  FoldLeft(pass, places, places)

\* A record is left out when it is hidden, or when one before it has its name.
Reported(aps) ==
  LET order == Order(aps)
      keep(k) == /\ aps[order[k]].ssid # Hidden
                 /\ \A e \in 1..(k - 1) : aps[order[e]].ssid # aps[order[k]].ssid
      step(r, k) == IF keep(k) THEN Append(r, aps[order[k]]) ELSE r
  IN  FoldLeft(step, <<>>, [k \in 1..Len(aps) |-> k])

-----------------------------------------------------------------------------
\* What the list is for: the names in range, each once with its strongest
\* record, the strongest first.
IsReport(r, aps) ==
  /\ {r[k].ssid : k \in DOMAIN r} = {aps[i].ssid : i \in DOMAIN aps} \ {Hidden}
  /\ \A k \in DOMAIN r :
       /\ \E i \in DOMAIN aps : aps[i] = r[k]
       /\ \A i \in DOMAIN aps : aps[i].ssid = r[k].ssid => aps[i].rssi <= r[k].rssi
       /\ \A l \in (k + 1)..Len(r) : /\ r[l].ssid # r[k].ssid
                                     /\ r[l].rssi <= r[k].rssi
=============================================================================
