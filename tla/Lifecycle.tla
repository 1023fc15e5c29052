----------------------------- MODULE Lifecycle -----------------------------
(***************************************************************************)
(* From start to exit (main.py: main_async; proxy/core.py: start, stop;    *)
(* avr/discovery.py: run_discovery_servers; runtime/state.py).             *)
(*                                                                         *)
(* at is where the one coroutine that starts and stops everything waits;   *)
(* clients come, go and read while it does, and signals arrive at any      *)
(* time.  Of each server there is one connection at most.  The AVR         *)
(* connection is reduced to whether it is open (AVRConnection).            *)
(***************************************************************************)
EXTENDS Naturals, FiniteSets

Servers == {"telnet", "http", "desc", "port80", "aios"}
Extras == {"port80", "aios"}
DescServers == {"desc"} \cup Extras

\* The port of each extra server.
PortOf == [port80 |-> 80, aios |-> 60006]

CONSTANT Configs  \* settings to be checked

ASSUME ConfigsAssumption ==
  Configs \subseteq
    [avr_host : BOOLEAN, enable_http : BOOLEAN, enable_ssdp : BOOLEAN,
     ssdp_http_port : Nat, named : BOOLEAN,            \* ssdp_friendly_name is set
     sources : {"none", "known", "unknown"},           \* sources the AVR has, or has not
     address : BOOLEAN,                                \* get_advertise_ip finds one
     wait_closed : BOOLEAN]                            \* Python's wait_closed() waits for connections

VARIABLES
  config,
  at,         \* where main_async waits
  listener,   \* each server: "off", "listening" or "closed"
  conn,       \* its connection: "none", "attached" before connection_made, "made", "aborted"
  ssdp,       \* the SSDP socket: "off", "open" or "closed"; "orphaned" if nobody holds it
  avr,        \* the AVR connection: "none", "down", "up" or "closed"
  info,       \* avr_info: "none" so far, "virtual", "unknown" or "known"
  resolved,   \* resolved_sources, "none" so far
  name,       \* _cached_friendly_name, "none" so far
  stopping,   \* stop_event and _shutting_down
  timedOut,   \* whether the shutdown timed out
  straggler   \* whether a telnet client was being accepted in the moment of stop()

netVars  == <<listener, conn, ssdp, avr>>
nameVars == <<info, resolved, name>>
endVars  == <<stopping, timedOut, straggler>>
vars     == <<config, at, netVars, nameVars, endVars>>

\* Nothing is open; denonavr is about to be asked.
Init ==
  /\ config \in Configs
  /\ at = "sync"
  /\ listener = [s \in Servers |-> "off"] /\ conn = [s \in Servers |-> "none"]
  /\ ssdp = "off" /\ avr = "none"
  /\ info = "none" /\ resolved = "none" /\ name = "none"
  /\ stopping = FALSE /\ timedOut = FALSE /\ straggler = FALSE

-----------------------------------------------------------------------------
\* What _get_sources computes: the configured sources the AVR has, else the
\* defaults; without any, those of the AVR.
ComputedSources ==
  CASE config.sources = "none" -> IF info = "known" THEN "raw" ELSE "demo"
    [] config.sources = "unknown" /\ info = "known" -> "demo"
    [] OTHER -> "configured"

\* A plausible slip: the result is not kept.
ForgottenSources == UNCHANGED resolved

\* _get_sources.
ResolveSources == resolved' = IF resolved = "none" THEN ComputedSources ELSE resolved

\* _get_sources_cb of the HTTP API.
ApiSources == IF resolved # "none" THEN resolved
              ELSE IF info = "known" THEN "raw" ELSE "demo"

\* What get_friendly_name computes.
ComputedName == IF config.named THEN "configured" ELSE IF info = "known" THEN "avr" ELSE "default"

\* get_friendly_name.
ReadName == name' = IF name = "none" THEN ComputedName ELSE name

-----------------------------------------------------------------------------
\* start(): denonavr is asked, which may fail.
Sync ==
  /\ at = "sync" /\ at' = "connect"
  /\ info' \in IF config.avr_host THEN {"unknown", "known"} ELSE {"virtual"}
  /\ UNCHANGED <<config, netVars, resolved, name, endVars>>

\* The connection is created and opened, if the AVR accepts it.
Connect ==
  /\ at = "connect" /\ at' = "telnet"
  /\ avr' \in IF config.avr_host THEN {"up", "down"} ELSE {"up"}
  /\ UNCHANGED <<config, listener, conn, ssdp, nameVars, endVars>>

\* create_server: the port may be in use.
Listens(s) == listener' = [listener EXCEPT ![s] = "listening"]

\* The telnet server; without its port the program fails.
ListenTelnet ==
  /\ at = "telnet"
  /\ \/ Listens("telnet") /\ at' = "http"
     \/ UNCHANGED listener /\ at' = "failed"
  /\ UNCHANGED <<config, conn, ssdp, avr, nameVars, endVars>>

\* The HTTP server, which is optional.
ListenHttp ==
  /\ at = "http"
  /\ \/ config.enable_http /\ Listens("http")
     \/ UNCHANGED listener
  /\ at' = IF config.enable_ssdp /\ config.address THEN "ssdp" ELSE "running"
  /\ UNCHANGED <<config, conn, ssdp, avr, nameVars, endVars>>

\* run_discovery_servers: the SSDP socket, which may fail; the name is logged
\* before.
OpenSsdp ==
  /\ at = "ssdp" /\ at' = "describe"
  /\ ssdp' \in {"open", "off"}
  /\ ReadName
  /\ UNCHANGED <<config, listener, conn, avr, info, resolved, endVars>>

\* The description is fetched from the AVR or made up; the documents are
\* built with the name and the sources.  Where a free port is looked for before,
\* this may fail: main_async goes on, and nobody holds the SSDP socket.
Describe ==
  /\ at = "describe"
  /\ \/ /\ at' = "desc" /\ UNCHANGED ssdp
        /\ ReadName /\ ResolveSources
     \/ /\ config.ssdp_http_port = 0 /\ at' = "running"
        /\ ssdp' = IF ssdp = "open" THEN "orphaned" ELSE ssdp
        /\ UNCHANGED <<resolved, name>>
  /\ UNCHANGED <<config, listener, conn, avr, info, endVars>>

\* A plausible slip: the SSDP socket is left open.
ListenDescAnyway ==
  /\ at = "desc"
  /\ \/ Listens("desc") /\ at' = "port80"
     \/ UNCHANGED listener /\ at' = "running"
  /\ UNCHANGED <<config, conn, ssdp, avr, nameVars, endVars>>

\* The advertised server: without it, discovery is given up.
ListenDesc ==
  /\ at = "desc"
  /\ \/ Listens("desc") /\ at' = "port80" /\ UNCHANGED ssdp
     \/ /\ UNCHANGED listener /\ at' = "running"
        /\ ssdp' = IF ssdp = "open" THEN "closed" ELSE ssdp
  /\ UNCHANGED <<config, conn, avr, nameVars, endVars>>

\* The same on port 80, then on 60006, where it is optional and not twice.
ListenExtra(s) ==
  /\ at = s /\ at' = IF s = "port80" THEN "aios" ELSE "running"
  /\ \/ config.ssdp_http_port # PortOf[s] /\ Listens(s)
     \/ UNCHANGED listener
  /\ UNCHANGED <<config, conn, ssdp, avr, nameVars, endVars>>

-----------------------------------------------------------------------------
\* SIGINT or SIGTERM; the second one ends the process at once.
Signal ==
  /\ at \notin {"ended", "failed", "killed"}
  /\ stopping' = TRUE
  /\ at' = IF stopping THEN "killed" ELSE at
  /\ UNCHANGED <<config, netVars, nameVars, timedOut, straggler>>

\* Closing a server stops the listening.
ClosedAll(servers) ==
  [s \in Servers |-> IF s \in servers /\ listener[s] = "listening" THEN "closed" ELSE listener[s]]

\* A plausible slip: only the advertised server is closed.
BeginShutdownOfFirst ==
  /\ at = "running" /\ stopping
  /\ ssdp' = IF ssdp = "open" THEN "closed" ELSE ssdp
  /\ listener' = ClosedAll({"desc"})
  /\ at' = "closing"
  /\ UNCHANGED <<config, conn, avr, nameVars, endVars>>

\* The event is set: SSDP and the description servers are closed.
BeginShutdown ==
  /\ at = "running" /\ stopping
  /\ ssdp' = IF ssdp = "open" THEN "closed" ELSE ssdp
  /\ listener' = ClosedAll(DescServers)
  /\ at' = "closing"
  /\ UNCHANGED <<config, conn, avr, nameVars, endVars>>

\* Whether wait_closed() of these servers returns.
Quiet(servers) == ~config.wait_closed \/ \A s \in servers : conn[s] = "none"

\* A plausible slip: only the server is closed.
StopTelnetOnly ==
  /\ at = "closing" /\ Quiet(DescServers) /\ at' = "stopTelnet"
  /\ listener' = ClosedAll({"telnet"})
  /\ straggler' = (conn["telnet"] = "attached")
  /\ UNCHANGED <<config, conn, ssdp, avr, nameVars, stopping, timedOut>>

\* stop(): the telnet clients that are known are aborted and their server is
\* closed.
StopTelnet ==
  /\ at = "closing" /\ Quiet(DescServers) /\ at' = "stopTelnet"
  /\ conn' = [conn EXCEPT !["telnet"] = IF @ = "made" THEN "aborted" ELSE @]
  /\ listener' = ClosedAll({"telnet"})
  /\ straggler' = (conn["telnet"] = "attached")
  /\ UNCHANGED <<config, ssdp, avr, nameVars, stopping, timedOut>>

\* The HTTP server is closed.
StopHttp ==
  /\ at = "stopTelnet" /\ Quiet({"telnet"}) /\ at' = "stopHttp"
  /\ listener' = ClosedAll({"http"})
  /\ UNCHANGED <<config, conn, ssdp, avr, nameVars, endVars>>

\* The AVR connection is closed.
StopAvr ==
  /\ at = "stopHttp" /\ Quiet({"http"}) /\ at' = "ended"
  /\ avr' = "closed"
  /\ UNCHANGED <<config, listener, conn, ssdp, nameVars, endVars>>

\* A plausible slip: only the description servers are waited for with a limit.
TimeoutOfServers ==
  /\ at = "closing" /\ ~Quiet(DescServers)
  /\ at' = "ended" /\ timedOut' = TRUE
  /\ UNCHANGED <<config, netVars, nameVars, stopping, straggler>>

\* SHUTDOWN_SERVER_WAIT or SHUTDOWN_PROXY_WAIT is over: the rest is skipped.  A
\* client that was aborted is gone long before.
Timeout ==
  /\ at \in {"closing", "stopTelnet", "stopHttp"}
  /\ \/ at = "closing" /\ ~Quiet(DescServers)
     \/ at = "stopTelnet" /\ ~Quiet({"telnet"}) /\ conn["telnet"] # "aborted"
     \/ at = "stopHttp" /\ ~Quiet({"http"})
  /\ at' = "ended" /\ timedOut' = TRUE
  /\ UNCHANGED <<config, netVars, nameVars, stopping, straggler>>

-----------------------------------------------------------------------------
Alive == at \notin {"ended", "failed", "killed"}

\* A connection is accepted, then given to its handler; it ends by itself, or
\* by abort().
Accept(s) ==
  /\ Alive /\ listener[s] = "listening" /\ conn[s] = "none"
  /\ conn' = [conn EXCEPT ![s] = "attached"]
  /\ UNCHANGED <<config, at, listener, ssdp, avr, nameVars, endVars>>

ConnectionMade(s) ==
  /\ Alive /\ conn[s] = "attached"
  /\ conn' = [conn EXCEPT ![s] = "made"]
  /\ UNCHANGED <<config, at, listener, ssdp, avr, nameVars, endVars>>

ConnectionLost(s) ==
  /\ Alive /\ conn[s] \in {"made", "aborted"}
  /\ conn' = [conn EXCEPT ![s] = "none"]
  /\ UNCHANGED <<config, at, listener, ssdp, avr, nameVars, endVars>>

\* A client of the HTTP API reads the status, which tells the name.
ReadStatus ==
  /\ Alive /\ conn["http"] = "made"
  /\ ReadName
  /\ UNCHANGED <<config, at, netVars, info, resolved, endVars>>

\* The AVR connection is lost and found again.
AvrChanges ==
  /\ Alive /\ config.avr_host /\ avr \in {"up", "down"}
  /\ avr' \in {"up", "down"} \ {avr}
  /\ UNCHANGED <<config, at, listener, conn, ssdp, nameVars, endVars>>

\* The steps of main_async.
Main ==
  \/ Sync \/ Connect \/ ListenTelnet \/ ListenHttp
  \/ OpenSsdp \/ Describe \/ ListenDesc \/ \E s \in Extras : ListenExtra(s)
  \/ BeginShutdown \/ StopTelnet \/ StopHttp \/ StopAvr \/ Timeout

Next ==
  \/ Main
  \/ Signal
  \/ \E s \in Servers : Accept(s) \/ ConnectionMade(s) \/ ConnectionLost(s)
  \/ ReadStatus
  \/ AvrChanges
  \/ ~Alive /\ UNCHANGED vars

Spec == Init /\ [][Next]_vars

\* What start() awaits has time limits, as has the shutdown; the event loop
\* calls connection_made, and connection_lost after abort().
FairSpec == /\ Spec
            /\ WF_vars(Main)
            /\ \A s \in Servers : WF_vars(ConnectionMade(s))
            /\ WF_vars(conn["telnet"] = "aborted" /\ ConnectionLost("telnet"))

-----------------------------------------------------------------------------
(***************************************************************************)
(* Properties                                                              *)
(***************************************************************************)

\* The type invariant.
TypeOK ==
  /\ config \in Configs
  /\ at \in {"sync", "connect", "telnet", "http", "ssdp", "describe", "desc", "port80", "aios",
             "running", "closing", "stopTelnet", "stopHttp", "ended", "failed", "killed"}
  /\ listener \in [Servers -> {"off", "listening", "closed"}]
  /\ conn \in [Servers -> {"none", "attached", "made", "aborted"}]
  /\ ssdp \in {"off", "open", "orphaned", "closed"}
  /\ avr \in {"none", "down", "up", "closed"}
  /\ info \in {"none", "virtual", "unknown", "known"}
  /\ resolved \in {"none", "configured", "raw", "demo"}
  /\ name \in {"none", "configured", "avr", "default"}
  /\ {stopping, timedOut, straggler} \subseteq BOOLEAN

\* A shutdown that does not time out leaves nothing: no server listens, the
\* SSDP socket is closed if it is held, so is the AVR connection, and where
\* Python waits for them no client is connected, whenever it came.
NothingIsLeft ==
  at = "ended" /\ ~timedOut =>
    /\ \A s \in Servers : listener[s] # "listening"
    /\ ssdp # "open"
    /\ avr = "closed"
    /\ config.wait_closed => \A s \in {"telnet"} \cup DescServers : conn[s] = "none"

\* "Close all client connections first so server.wait_closed() doesn't hang"
\* (proxy/core.py): telnet clients do not make the shutdown time out, but for
\* one that is being accepted in the moment of stop(), which does not know it
\* yet.  HTTP clients do.
OnlyTheseHang ==
  timedOut => config.wait_closed /\ (straggler \/ \E s \in Servers \ {"telnet"} : conn[s] # "none")

\* While the proxy runs, what SSDP advertises is served ("binding must
\* succeed", avr/discovery.py), whichever of the sockets could be opened; but
\* for a socket that was left when no free port was found.
AdvertisedIsServed ==
  at \in {"running", "aios", "port80"} /\ ssdp \in {"open", "orphaned"} =>
    \/ listener["desc"] = "listening"
    \/ ssdp = "orphaned" /\ config.ssdp_http_port = 0

\* What the proxy tells of itself does not depend on who asks first: the name
\* is cached when it is first read, the sources when the description is built,
\* and the HTTP API has a rule of its own for them before.  The name is never
\* read before the AVR was asked for its own, and as soon as the description
\* is served the HTTP API names the same sources.
IdentityAgrees ==
  /\ name # "none" => name = ComputedName
  /\ listener["desc"] = "listening" => ApiSources = ComputedSources

\* A signal ends the program, whoever is connected.
SignalEnds == stopping ~> ~Alive

=============================================================================
