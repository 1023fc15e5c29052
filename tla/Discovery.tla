----------------------------- MODULE Discovery -----------------------------
(***************************************************************************)
(* The search for AVRs (avr/discover.py, as cli.py runs it), and who       *)
(* answers: the SSDP responder of a proxy (avr/discovery.py: SSDPProtocol) *)
(* and devices.                                                            *)
(*                                                                         *)
(* Answers are datagrams: whoever has been asked may answer at any time,   *)
(* and the answer may arrive late, twice, after younger ones, or never.  A *)
(* device is reached under a place, host and port in one; of a text only   *)
(* what it shows matters: "proxy" (of this project), "denon" (a brand),    *)
(* "heos" (a marker, but no brand) or "plain".                             *)
(***************************************************************************)
EXTENDS Naturals, Sequences, Functions, FiniteSets

CONSTANTS
  Devices,   \* what is on the network beside the proxy
  Proxy,     \* the place of the proxy's device description
  Nowhere,   \* the place in a datagram that tells none
  Silent,    \* a text that is not there
  Deadline,  \* the timeout, in units of the clock
  MaxQueue   \* bound on the datagrams that wait to be read

Texts == {"proxy", "denon", "heos", "plain"}
SearchTargets == <<"aios", "all", "root", "renderer", "act">>

ASSUME DevicesAssumption ==
  Devices \subseteq [place : STRING \cup {Proxy}, targets : SUBSET {"aios", "root", "renderer", "act"},
                     server : Texts \cup {Silent},    \* its SERVER header
                     service : Texts \cup {Silent}]   \* its name in mDNS
ASSUME TextsAssumption == Silent \notin Texts /\ Proxy # Nowhere
ASSUME OneProxyAssumption ==   \* no other proxy answers, and nobody else for its place
  \A device \in Devices : /\ device.server # "proxy"
                          /\ device.place = Proxy => device.targets = {}
ASSUME PlacesAssumption ==     \* a place has one name in mDNS, that of a proxy or another
  \A first, second \in Devices : first.place = second.place => first.service = second.service
ASSUME BoundsAssumption == Deadline \in Nat /\ MaxQueue \in Nat

VARIABLES
  method,    \* --method
  phase,     \* of discover_via_ssdp: "open", "ask", "test", "wait", "over"; then "found" or "failed"
  asked,     \* M-SEARCHs that are sent
  clock,     \* time since the last of them
  queue,     \* received
  heard,     \* those that were read from it (for the properties)
  browsing,  \* whether the mDNS browser is running
  ssdp,      \* results of discover_via_ssdp, in order
  mdns,      \* and of _run_mdns_sync
  found      \* what is returned

netVars  == <<asked, clock, queue, heard>>
mdnsVars == <<browsing, mdns>>
vars     == <<method, phase, netVars, mdnsVars, ssdp, found>>

Init ==
  /\ method \in {"ssdp", "mdns", "both"}
  /\ phase = IF method = "mdns" THEN "over" ELSE "open"
  /\ asked = 0 /\ clock = 0 /\ queue = <<>> /\ heard = {}
  /\ browsing = (method # "ssdp") /\ mdns = <<>>
  /\ ssdp = <<>> /\ found = <<>>

-----------------------------------------------------------------------------
\* Who answers.

Datagram(place, server, usn) == [place |-> place, server |-> server, usn |-> usn]

\* MATCH_ST.
MatchSt == {"all", "root", "renderer", "aios"}

\* An M-SEARCH has been sent and reaches someone.
Heard(target) == \E i \in 1..asked : SearchTargets[i] = target

\* SSDPProtocol.datagram_received; _ssdp_response.
ProxyAnswers == {Datagram(Proxy, "proxy", "proxy") : target \in {t \in MatchSt : Heard(t)}}

\* A device answers for each of its targets, which the USN names.
DeviceAnswers(device) ==
  {Datagram(device.place, device.server, IF target \in {"aios", "act"} THEN "denon" ELSE "plain") :
     target \in {t \in device.targets : Heard(t) \/ Heard("all")}}

\* What may arrive; others may send something else to the port.
Answers == ProxyAnswers \cup (UNION {DeviceAnswers(device) : device \in Devices})
           \cup {Datagram(Nowhere, "plain", "plain")}

-----------------------------------------------------------------------------
\* What is made of a datagram or a service.

\* _parse_ssdp_server_or_usn_text.
NameOf(d) == IF d.server # Silent THEN d.server ELSE d.usn

\* _is_denon_ssdp_response; the name of the proxy has a marker in it.
IsDenon(text) == text \in {"proxy", "denon", "heos"}

\* A plausible slip: the vendor is looked for first, and is in the proxy's name.
BrandOfVendor(name, usn) == IF IsDenon(name) THEN "denon" ELSE Silent

\* _is_denon_proxy, then _parse_friendly_name.
BrandOf(name, usn) ==
  CASE "proxy" \in {name, usn} -> "proxy"
    [] "proxy" \notin {name, usn} /\ name = "denon" -> "denon"
    [] OTHER -> Silent

SsdpEntry(d) == [place |-> d.place, name |-> NameOf(d), method |-> "ssdp",
                 matched |-> IsDenon(NameOf(d)), brand |-> BrandOf(NameOf(d), d.usn)]

MdnsEntry(device) == [place |-> device.place, name |-> device.service, method |-> "mdns",
                      matched |-> IsDenon(device.service), brand |-> BrandOf(device.service, Silent)]

Places(entries) == {e.place : e \in Range(entries)}

\* The first entry of a place is kept.
Add(entries, e) == IF e.place \in Places(entries) THEN entries ELSE Append(entries, e)

\* The first entry of each place, in order.
Unique(entries) ==
  LET upTo[n \in 0..Len(entries)] == IF n = 0 THEN <<>> ELSE Add(upTo[n - 1], entries[n])
  IN  upTo[Len(entries)]

\* A plausible slip: what mDNS has found comes first.
MdnsFirst(first, second) == Unique(second \o first)

\* The merge of discover().
Merge(first, second) == Unique(first \o second)

-----------------------------------------------------------------------------
\* discover_via_ssdp.

\* The socket is opened.
Open ==
  /\ phase = "open"
  /\ phase' = "ask"
  /\ UNCHANGED <<method, netVars, mdnsVars, ssdp, found>>

\* _send_msearch for each target; then the deadline is set.
Ask ==
  /\ phase = "ask"
  /\ IF asked < Len(SearchTargets) THEN asked' = asked + 1 /\ phase' = phase
                                   ELSE asked' = asked /\ phase' = "test"
  /\ UNCHANGED <<method, clock, queue, heard, mdnsVars, ssdp, found>>

\* datagram_received: an answer arrives, and may do so again.
Arrive ==
  /\ phase \in {"ask", "test", "wait"} /\ Len(queue) < MaxQueue
  /\ \E d \in Answers : queue' = Append(queue, d)
  /\ UNCHANGED <<method, phase, asked, clock, heard, mdnsVars, ssdp, found>>

Tick ==
  /\ phase \in {"test", "wait"} /\ clock < Deadline
  /\ clock' = clock + 1
  /\ UNCHANGED <<method, phase, asked, queue, heard, mdnsVars, ssdp, found>>

\* A plausible slip: only a pause ends the search.
TestNothing ==
  /\ phase = "test"
  /\ phase' = "wait"
  /\ UNCHANGED <<method, netVars, mdnsVars, ssdp, found>>

\* The loop's condition.
Test ==
  /\ phase = "test"
  /\ phase' = IF clock < Deadline THEN "wait" ELSE "over"
  /\ UNCHANGED <<method, netVars, mdnsVars, ssdp, found>>

\* received.get() returns and the datagram is handled.
Take ==
  /\ phase = "wait" /\ queue # <<>>
  /\ queue' = Tail(queue) /\ heard' = heard \cup {Head(queue)}
  /\ ssdp' = IF Head(queue).place = Nowhere THEN ssdp ELSE Add(ssdp, SsdpEntry(Head(queue)))
  /\ phase' = "test"
  /\ UNCHANGED <<method, asked, clock, mdnsVars, found>>

\* It does not.
TimeOut ==
  /\ phase = "wait" /\ queue = <<>> /\ clock = Deadline
  /\ phase' = "over"
  /\ UNCHANGED <<method, netVars, mdnsVars, ssdp, found>>

-----------------------------------------------------------------------------
\* on_service_state_change, of a service that could be resolved.
ServiceAdded(device) ==
  /\ browsing /\ device.service # Silent
  /\ mdns' = Add(mdns, MdnsEntry(device))
  /\ UNCHANGED <<method, phase, netVars, browsing, ssdp, found>>

\* The time of the browser is over.
BrowseEnds ==
  /\ browsing
  /\ browsing' = FALSE
  /\ UNCHANGED <<method, phase, netVars, mdns, ssdp, found>>

\* No socket: nothing is returned, whatever the other method has found.
Fail ==
  /\ \/ phase = "open"
     \/ browsing /\ mdns = <<>>
  /\ phase' = "failed"
  /\ browsing' = FALSE
  /\ UNCHANGED <<method, netVars, mdns, ssdp, found>>

\* discover() returns, and so does the program.
Return ==
  /\ phase = "over" /\ ~browsing
  /\ phase' = "found"
  /\ found' = CASE method = "ssdp" -> ssdp [] method = "mdns" -> mdns [] method = "both" -> Merge(ssdp, mdns)
  /\ UNCHANGED <<method, netVars, mdnsVars, ssdp>>

Searcher == Open \/ Ask \/ Test \/ Take \/ TimeOut \/ Return

Next ==
  \/ \E device \in Devices : ServiceAdded(device)
  \/ Arrive \/ Tick
  \/ Searcher \/ BrowseEnds \/ Fail
  \/ phase \in {"found", "failed"} /\ UNCHANGED vars

Spec == Init /\ [][Next]_vars

\* The coroutine and the thread run, and time goes on.
FairSpec == Spec /\ WF_vars(Searcher) /\ WF_vars(BrowseEnds) /\ WF_vars(Tick)

-----------------------------------------------------------------------------
(***************************************************************************)
(* Properties                                                              *)
(***************************************************************************)

\* What has the name of a proxy in mDNS, where whoever sets it up may name it so.
NamedPlaces == {device.place : device \in {x \in Devices : x.service = "proxy"}}

\* "returns unique devices by (host, port)", "SSDP first so duplicates keep
\* SSDP": everyone who was heard is returned, once, and as SSDP showed him,
\* however often and in which order the answers came, and whatever mDNS says
\* of the same place.
HeardAreReturned ==
  phase = "found" =>
    /\ Len(found) = Cardinality(Places(found))
    /\ Places(mdns) \subseteq Places(found)
    /\ \A d \in heard :
         d.place # Nowhere => \E e \in Range(found) : e.place = d.place /\ e.method = "ssdp"

\* "Markers that identify this codebase's proxy, not a physical AVR": though a
\* proxy answers as an AVR and has the vendor in its name, the brand it is shown
\* with tells it from one, whichever method found it first and whatever the
\* other says of its place; nothing else is shown so.  The brand alone does: a
\* proxy is matched, so that the program counts and lists it among the AVRs.
ProxiesAreNamed ==
  phase = "found" =>
    \A e \in Range(found) :
      /\ e.brand = "proxy" <=> \/ e.method = "ssdp" /\ e.place = Proxy
                               \/ e.method = "mdns" /\ e.place \in NamedPlaces
      /\ e.brand = "proxy" => e.matched

\* The search ends when its time is over, even if answers never cease.
SearchEnds == <>(phase \in {"found", "failed"})
=============================================================================
