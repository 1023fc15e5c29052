--------------------------- MODULE AVRConnection ---------------------------
(***************************************************************************)
(* The physical AVR connection (avr/connection.py, class AVRConnection)    *)
(* together with the coroutines of DenonProxyServer that open it, use it   *)
(* and reopen it (proxy/core.py: start, _on_avr_disconnect, stop).         *)
(*                                                                         *)
(* Everything runs on one asyncio event loop: an action is what happens    *)
(* between two awaits.  A link is one TCP connection with its read loop;   *)
(* its identity is reused once nothing refers to it any more.              *)
(*                                                                         *)
(*   "unused"    no such connection                                        *)
(*   "open"      healthy, the read loop is waiting for data                *)
(*   "eof"       the peer has closed, the read loop has not noticed yet    *)
(*   "closing"   an I/O error closed the transport (is_closing() holds),   *)
(*               the read loop has not noticed yet                         *)
(*   "released"  the proxy closed the transport, the read loop has not     *)
(*               noticed yet                                               *)
(*                                                                         *)
(* The tracker, which _on_avr_disconnect also calls, is in                 *)
(* UnansweredTracker; the notification of the Web UI is left out.          *)
(***************************************************************************)
EXTENDS Naturals

CONSTANTS
  Links,      \* identities of TCP connections
  Tasks,      \* identities of reconnect tasks
  Main,       \* the coroutine DenonProxyServer.start()
  NoLink,     \* writer and reader are None
  NoTask,     \* _reconnect_task is None
  NQueries    \* how many queries request_state() sends

ASSUME LinkAssumption == NoLink \notin Links
ASSUME TaskAssumption == NoTask \notin Tasks /\ Main \notin Tasks /\ NoTask # Main
ASSUME QueriesAssumption == NQueries \in Nat

VARIABLES
  writer,     \* AVRConnection.writer and .reader: the link in use
  link,       \* the state of every link
  buffer,     \* AVRConnection._buffer: the links its bytes came from
  relayed,    \* the links the bytes of the last relayed line came from
  phase,      \* what each coroutine is waiting for
  left,       \* queries each request_state() has still to send
  handle,     \* DenonProxyServer._reconnect_task
  stopped     \* DenonProxyServer.stop() has run

vars == <<writer, link, buffer, relayed, phase, left, handle, stopped>>

Callers == Tasks \cup {Main}

LinkStates == {"unused", "open", "eof", "closing", "released"}

Phases == {"idle", "sleeping", "dialling", "settling", "querying"}

\* The proxy listens for clients once start() is past request_state().
Serving == phase[Main] = "idle"

IsConnected == writer # NoLink /\ link[writer] \in {"open", "eof"}

Init == /\ writer = NoLink
        /\ link = [l \in Links |-> "unused"]
        /\ buffer = {}
        /\ relayed = {}
        /\ phase = [c \in Callers |-> IF c = Main THEN "dialling" ELSE "idle"]
        /\ left = [c \in Callers |-> 0]
        /\ handle = NoTask
        /\ stopped = FALSE

-----------------------------------------------------------------------------
\* The last reconnect task is not done.
Pending == handle # NoTask /\ phase[handle] # "idle"

\* A plausible slip: no check that a reconnect task is still running.
ScheduleReconnectAlways ==
  \E t \in Tasks : /\ phase[t] = "idle"
                   /\ phase' = [phase EXCEPT ![t] = "sleeping"]
                   /\ handle' = t

\* _on_avr_disconnect: a new reconnect task unless the last one still runs.
ScheduleReconnect ==
  \/ /\ Pending
     /\ UNCHANGED <<phase, handle>>
  \/ /\ ~Pending
     /\ \E t \in Tasks : /\ phase[t] = "idle"
                         /\ phase' = [phase EXCEPT ![t] = "sleeping"]
                         /\ handle' = t

\* A coroutine c that waits for connect() or request_state() returns; a
\* reconnect task clears _reconnect_task in its finally clause.
Finish(c) == /\ phase' = [phase EXCEPT ![c] = "idle"]
             /\ handle' = IF c \in Tasks THEN NoTask ELSE handle

\* A plausible slip: a send with no connection only reports its failure.
TransmitQuietly ==
  /\ \/ ~IsConnected /\ UNCHANGED link
     \/ IsConnected /\ link' \in {link, [link EXCEPT ![writer] = "closing"]}
  /\ UNCHANGED <<phase, handle>>

\* send_command: the bytes are taken by the transport, or the write fails
\* and closes the transport, or there is no usable transport.
Transmit ==
  \/ /\ IsConnected
     /\ UNCHANGED <<link, phase, handle>>
  \/ /\ IsConnected
     /\ link' = [link EXCEPT ![writer] = "closing"]
     /\ UNCHANGED <<phase, handle>>
  \/ /\ ~IsConnected
     /\ ScheduleReconnect
     /\ UNCHANGED link

\* A link identity nothing refers to.
Unused(l) == link[l] = "unused" /\ l \notin buffer

-----------------------------------------------------------------------------
\* connect() succeeds: the reader and writer are replaced and a read loop is
\* started.  start() then sleeps POST_CONNECT_DELAY; a reconnect task goes
\* straight on to request_state().
DialSucceeds(c) ==
  /\ phase[c] = "dialling"
  /\ \E l \in Links : /\ Unused(l)
                      /\ writer' = l
                      /\ link' = [link EXCEPT ![l] = "open"]
  /\ phase' = [phase EXCEPT ![c] = IF c = Main THEN "settling" ELSE "querying"]
  /\ left' = [left EXCEPT ![c] = NQueries]
  /\ UNCHANGED <<buffer, relayed, handle, stopped>>

\* As above, but the peer resets the new connection before the coroutine that
\* waits for it resumes.  start() only looks at the result of connect(); a
\* reconnect task finds is_connected() false and returns.
DialIsReset(c) ==
  /\ phase[c] = "dialling"
  /\ \E l \in Links : /\ Unused(l)
                      /\ writer' = l
                      /\ link' = [link EXCEPT ![l] = "closing"]
  /\ \/ /\ c = Main
        /\ phase' = [phase EXCEPT ![c] = "settling"]
        /\ left' = [left EXCEPT ![c] = NQueries]
        /\ UNCHANGED handle
     \/ /\ c # Main
        /\ Finish(c)
        /\ UNCHANGED left
  /\ UNCHANGED <<buffer, relayed, stopped>>

\* connect() times out or is refused.  Nothing is scheduled.
DialFails(c) ==
  /\ phase[c] = "dialling"
  /\ Finish(c)
  /\ UNCHANGED <<writer, link, buffer, relayed, left, stopped>>

\* POST_CONNECT_DELAY is over.
Settle ==
  /\ phase[Main] = "settling"
  /\ phase' = [phase EXCEPT ![Main] = "querying"]
  /\ UNCHANGED <<writer, link, buffer, relayed, left, handle, stopped>>

\* A plausible slip: the same query until it is sent.
QueryUntilSent(c) ==
  /\ phase[c] = "querying" /\ left[c] > 0
  /\ Transmit
  /\ left' = [left EXCEPT ![c] = IF IsConnected THEN @ - 1 ELSE @]
  /\ UNCHANGED <<writer, buffer, relayed, stopped>>

\* request_state sends its next query whatever became of the one before.
Query(c) ==
  /\ phase[c] = "querying" /\ left[c] > 0
  /\ Transmit
  /\ left' = [left EXCEPT ![c] = @ - 1]
  /\ UNCHANGED <<writer, buffer, relayed, stopped>>

\* request_state returns.
QueriesSent(c) ==
  /\ phase[c] = "querying" /\ left[c] = 0
  /\ Finish(c)
  /\ UNCHANGED <<writer, link, buffer, relayed, left, stopped>>

\* A command of a telnet client or of the HTTP API, or a query of the HTTP
\* refresh endpoint or of the follow-up of MVUP and MVDOWN.
Send ==
  /\ Serving
  /\ Transmit
  /\ UNCHANGED <<writer, buffer, relayed, left, stopped>>

\* A plausible slip: no delay, so the previous link may not have ended yet.
ReconnectNow(t) ==
  /\ phase[t] = "sleeping"
  /\ Serving
  /\ phase' = [phase EXCEPT ![t] = IF IsConnected THEN "querying" ELSE "dialling"]
  /\ left' = [left EXCEPT ![t] = NQueries]
  /\ UNCHANGED <<writer, link, buffer, relayed, handle, stopped>>

\* A reconnect task wakes after RECONNECT_DELAY; connect() returns at once if
\* there is a connection.  The delay is long enough for what was under
\* way when it began to be over: it exceeds the delays of start() together,
\* and a link whose transport is closed ends in a few iterations of the loop.
Reconnect(t) ==
  /\ phase[t] = "sleeping"
  /\ Serving
  /\ \A l \in Links : link[l] \notin {"closing", "released"}
  /\ phase' = [phase EXCEPT ![t] = IF IsConnected THEN "querying" ELSE "dialling"]
  /\ left' = [left EXCEPT ![t] = NQueries]
  /\ UNCHANGED <<writer, link, buffer, relayed, handle, stopped>>

-----------------------------------------------------------------------------
\* The AVR closes the connection or it breaks.
PeerDrops(l) ==
  /\ link[l] = "open"
  /\ \E s \in {"eof", "closing"} : link' = [link EXCEPT ![l] = s]
  /\ UNCHANGED <<writer, buffer, relayed, phase, left, handle, stopped>>

\* The read loop takes a chunk of bytes.  If it completes a line, the line is
\* made of what was in the buffer and of the chunk; what follows the last
\* line end stays in the buffer.
Receive(l) ==
  /\ writer = l /\ link[l] \in {"open", "eof"}
  /\ \/ /\ relayed' = buffer \cup {l}
        /\ buffer' \in {{}, {l}}
     \/ /\ buffer' = buffer \cup {l}
        /\ UNCHANGED relayed
  /\ UNCHANGED <<writer, link, phase, left, handle, stopped>>

\* A plausible slip: the handler leaves writer and reader as they are.
ReadLoopEndsKeepingWriter(l) ==
  /\ link[l] \in {"eof", "closing", "released"}
  /\ link' = [link EXCEPT ![l] = "unused"]
  /\ ScheduleReconnect
  /\ UNCHANGED <<writer, buffer, relayed, left, stopped>>

\* The read loop sees the end of the stream or an error and runs
\* _handle_disconnect, which closes whatever link is current.
ReadLoopEnds(l) ==
  /\ link[l] \in {"eof", "closing", "released"}
  /\ link' = [k \in Links |-> IF k = l THEN "unused"
                              ELSE IF k = writer THEN "released"
                              ELSE link[k]]
  /\ writer' = NoLink
  /\ ScheduleReconnect
  /\ UNCHANGED <<buffer, relayed, left, stopped>>

\* stop() releases the connection with close().
Stop ==
  /\ Serving /\ ~stopped
  /\ stopped' = TRUE
  /\ link' = [l \in Links |-> IF l = writer THEN "released" ELSE link[l]]
  /\ writer' = NoLink
  /\ UNCHANGED <<buffer, relayed, phase, left, handle>>

Next ==
  \/ \E c \in Callers : \/ DialSucceeds(c)
                        \/ DialIsReset(c)
                        \/ DialFails(c)
                        \/ Query(c)
                        \/ QueriesSent(c)
  \/ Settle
  \/ Send
  \/ \E t \in Tasks : Reconnect(t)
  \/ \E l \in Links : \/ PeerDrops(l)
                      \/ Receive(l)
                      \/ ReadLoopEnds(l)
  \/ Stop

Spec == Init /\ [][Next]_vars

\* The event loop runs what is ready, and a dial ends within its timeout.
\* Nothing is assumed of the AVR or of the clients.
Fairness ==
  /\ \A c \in Callers : /\ WF_vars(DialSucceeds(c) \/ DialIsReset(c) \/ DialFails(c))
                        /\ WF_vars(Query(c))
                        /\ WF_vars(QueriesSent(c))
  /\ WF_vars(Settle)
  /\ \A t \in Tasks : WF_vars(Reconnect(t))
  /\ \A l \in Links : WF_vars(ReadLoopEnds(l))

FairSpec == Spec /\ Fairness

\* Additionally, a client keeps sending to a proxy that is down (the home
\* automation systems the proxy serves poll it).
SendWhileDown == Send /\ ~IsConnected

DemandSpec == FairSpec /\ WF_vars(SendWhileDown)
-----------------------------------------------------------------------------
(***************************************************************************)
(* Properties                                                              *)
(***************************************************************************)

\* The type invariant.
TypeOK ==
  /\ writer \in Links \cup {NoLink}
  /\ link \in [Links -> LinkStates]
  /\ buffer \subseteq Links
  /\ relayed \subseteq Links
  /\ phase \in [Callers -> Phases]
  /\ left \in [Callers -> 0..NQueries]
  /\ handle \in Tasks \cup {NoTask}
  /\ stopped \in BOOLEAN

\* Connections whose read loop is running, and coroutines inside connect().
InUse == {l \in Links : link[l] # "unused"}
Dialling == {c \in Callers : phase[c] = "dialling"}

\* There is never a second connection to the AVR, nor a second attempt to
\* open one, nor an attempt beside a connection, whatever start(), the
\* reconnect tasks, the read loops, the senders and stop() do in between.
SingleConnection ==
  /\ \A l, k \in InUse : l = k
  /\ \A c, d \in Dialling : c = d
  /\ InUse = {} \/ Dialling = {}

\* The writer commands go to is never one whose read loop has ended (its
\* answers would be lost and its loss would go unnoticed), and a connection
\* nobody closed is never forgotten by the connection object.
WriterHasReader == writer # NoLink => link[writer] \in {"open", "eof", "closing"}
NoForgottenLink == \A l \in Links : link[l] \in {"open", "eof", "closing"} => writer = l
WriterIsTheLink == WriterHasReader /\ NoForgottenLink

\* _reconnect_task names the reconnect task that is running and there is no
\* other: nothing that happens while it sleeps, dials or queries starts one.
OneReconnectTask ==
  \A t \in Tasks : phase[t] # "idle" <=> handle = t

\* A reconnect task that sleeps was created when no link was usable, and none
\* has become usable since; while start() dials, nothing asks for a reconnect.
SleeperSeesNoLink ==
  \A t \in Tasks : phase[t] = "sleeping" => \A l \in Links : link[l] \notin {"open", "eof"}
MainDialsAlone == phase[Main] = "dialling" => handle = NoTask

\* A working connection is only ever given up by stop(): the read loop of an
\* earlier connection never closes its successor.
WorkingLinkIsKept ==
  [][\A l \in Links : writer = l /\ writer' # l => link[l] # "open" \/ stopped']_vars

\* Every reconnect task ends, so none can keep later ones from starting.
ReconnectTaskEnds == \A t \in Tasks : phase[t] # "idle" ~> phase[t] = "idle"

\* The connection comes to no harm and no dial fails in this step.
NoFault ==
  /\ \A l \in Links : link'[l] \in {"eof", "closing"} => link[l] = link'[l]
  /\ \A c \in Callers : phase[c] = "dialling" => phase'[c] \in {"dialling", "settling", "querying"}

\* If the AVR is there for good and a client keeps sending, the proxy ends up
\* connected for good, whatever happened before (unless it is stopped).
RecoversUnderDemand ==
  [](~stopped) /\ <>[][NoFault]_vars => <>[]IsConnected

\* What the sockets and coroutines of this module look like from outside.
Outside == INSTANCE SingleLink WITH Sockets <- Links, Dialers <- Callers,
                                    live <- InUse, dialling <- Dialling

\* The detailed connection implements the single link.
ImplementsSingleLink == Outside!Spec

-----------------------------------------------------------------------------
(***************************************************************************)
(* What comments and documentation say, and the code does not do           *)
(***************************************************************************)

\* "Handle AVR disconnect and schedule reconnect" (_handle_disconnect): once
\* a lost connection has been handled an attempt to reopen it is to come.
LossIsFollowedByAttempt ==
  [][\A l \in Links : ReadLoopEnds(l) /\ link[l] # "released"
       => \E t \in Tasks : phase'[t] \in {"sleeping", "dialling"}]_vars

\* "faithful one-to-one relay" (avr_response_broadcast_lines): a line that is
\* relayed is one the AVR sent on one connection.
RelayIsFaithful == \A l, k \in relayed : l = k
=============================================================================
