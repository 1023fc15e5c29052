---------------------------- MODULE MCLifecycle ----------------------------
(***************************************************************************)
(* Lifecycle with all settings that matter together: names and sources     *)
(* do not depend on ports, ports not on Python's version.                  *)
(***************************************************************************)
EXTENDS Lifecycle

Settings(hosts, https, ssdps, ports, names, kinds, addresses, waits) ==
  {[avr_host |-> h, enable_http |-> a, enable_ssdp |-> d, ssdp_http_port |-> p, named |-> n,
    sources |-> k, address |-> i, wait_closed |-> w] :
      h \in hosts, a \in https, d \in ssdps, p \in ports, n \in names, k \in kinds,
      i \in addresses, w \in waits}

Kinds == {"none", "known", "unknown"}

MCConfigs ==
  Settings({TRUE}, {TRUE}, {TRUE}, {80, 60006}, {FALSE}, {"none"}, {TRUE}, {TRUE})
  \cup Settings({TRUE}, {TRUE}, {TRUE}, {80}, BOOLEAN, Kinds, {TRUE}, {FALSE})
  \cup Settings({TRUE}, {FALSE}, {TRUE}, {0}, {FALSE}, {"known"}, {TRUE}, {TRUE})
  \cup Settings({FALSE}, BOOLEAN, BOOLEAN, {8080}, {FALSE}, {"known"}, BOOLEAN, {TRUE})
=============================================================================
