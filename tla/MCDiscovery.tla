---------------------------- MODULE MCDiscovery ----------------------------
(***************************************************************************)
(* Discovery with an AVR that names itself, a device whose USN alone tells *)
(* what it is, the description of the proxy under some name in mDNS, and   *)
(* its Web UI there under the proxy's own.                                 *)
(***************************************************************************)
EXTENDS Discovery

Device(place, targets, server, service) ==
  [place |-> place, targets |-> targets, server |-> server, service |-> service]

MCDevices ==
  {Device("avr", {"root", "act"}, "heos", "denon"),
   Device("old", {"aios"}, "none", "none"),
   Device("proxy", {}, "none", "plain"),
   Device("page", {}, "none", "proxy")}
=============================================================================
