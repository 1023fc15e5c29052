# denon-proxy: a verification project in TLA+

denon-proxy lets several clients share a Denon receiver (AVR) that accepts one
telnet connection only. The proxy holds that connection, relays the AVR's lines
to all its telnet clients, sends their commands, keeps a copy of the AVR's state,
and offers the same over HTTP. This directory models the parts in which order,
failure and arithmetic are hard to test, checks them with TLC and proves the
main properties with TLAPS.

Everything in the program runs on one asyncio event loop. Between two `await`s
nothing else runs, so **an action of a module is what happens between two
awaits**. Hazards come from state that is read before an await and used after it.

## 1. Inventory

| Component (source) | State | Operations | Interacts with |
|---|---|---|---|
| AVR connection (`avr/connection.py`, `AVRConnection`) | `reader`, `writer`, `_buffer` | `connect`, `_read_loop`, `_handle_disconnect`, `send_command`, `request_state`, `close` | calls `on_response`, `on_disconnect`, `on_send_while_disconnected` of the server, the tracker, `AVRState` |
| Reconnection (`proxy/core.py`, `DenonProxyServer`) | `_reconnect_task` | `start`, `_on_avr_disconnect`, `reconnect`, `stop` | awaits `connect`, `request_state` |
| Telnet clients (`proxy/core.py`, `ClientHandler`) | `clients`, per-client buffer, one task per command | `connection_made/lost`, `data_received`, `_handle_command_async`, `_broadcast_state` | reads and writes `AVRState`, sends through the connection |
| AVR state (`avr/state.py`) | seven fields | `update_from_message`, `apply_command`, `apply_payload`, `snapshot`, `restore`, `get_status_dump`, volume helpers | shared by all of the above |
| Tracker (`avr/unanswered_tracker.py`) | `_pending`, `_unanswered`, `_suppressed`, a waiter task per query | `note_sent`, `on_response`, `_complete_timeout`, `cancel_all_pending` | fed by `send_command`, the read loop and `_on_avr_disconnect` |
| Virtual AVR (`avr/connection.py`) | `_connected` and the shared `AVRState` | as the AVR connection | answers from the state itself |
| Telnet framing (`avr/telnet_utils.py`) | rest of a line | `parse_telnet_lines` | both directions |
| HTTP server (`http/server.py`, `http/avr_control.py`) | request buffers, event subscribers | status, command, control routes, refresh, events | `AVRState`, the connection, `notify_web_state` |
| Start and shutdown (`main.py`, `core.py`) | stop event | signals, `start`, `stop` with timeouts | closes everything |
| Activity log (`core.py`) | a deque per client | `record_command` | HTTP status |
| Discovery (`avr/discovery.py`, `avr/discover.py`, `avr/info.py`) | sources, names | SSDP answers, XML; search for AVRs | configuration, `AVRState` |
| Configuration and runtime state (`runtime/`) | cached name, sources, AVR info | `get_friendly_name`, validators | read by HTTP, SSDP, the log |
| Command line, logging, UC YAML | none that changes | parsing, text generation | |

Hard behaviours, by component (all are listed with their lines under "hazards"
in `PROJECT.json`):

* **connection**: the loss of a link is noticed by the read loop, by a write that
  fails, and by senders that find no writer, in any order and while a reconnect
  task sleeps, dials or queries; the end of an old read loop closes the *current*
  writer. Correct means: never two links, two dials or two reconnect tasks; a
  working link is not closed; recovery.
* **clients and state**: a command takes a snapshot, applies itself, waits, and may
  restore the snapshot; lines, other commands and clients come in between.
  Correct means: all clients are told what the proxy knows; the proxy ends up with
  what the AVR is; commands keep their order.
* **tracker**: an answer, a timeout and a loss race; names are prefixes of each other.
  Correct means: what the AVR answers in time is never counted.
* **volume**: levels are kept as text whose length carries the unit. Correct means:
  a step is a step.
* **virtual AVR**: it answers from the state and feeds the answer back into it. Correct
  means: a command is applied once, and the lines clients get add up to the state.
* **framing**: segments end anywhere. Correct means: the cuts make no difference.
* **HTTP server**: the status is read when a push task runs, not when it is created.
  Correct means: subscribers end up with the last status, lost ones are forgotten, the
  log keeps the newest entries.
* **start and shutdown**: sockets that cannot be opened, clients that come while servers
  close, `wait_closed()` that waits for them, a time limit. Correct means: nothing is
  left, nothing is advertised that is not served, and the program ends.
* **discovery**: answers come late, twice, in any order, by two methods. Correct means:
  everyone heard is returned once, what is a proxy is shown with its brand, the search
  ends.

## 2. Modules

### AVRConnection, SingleLink (connection and reconnection)

`AVRConnection` models the connection object and every coroutine that opens it.

| Model | Code |
|---|---|
| `writer` | `AVRConnection.writer` and `.reader`, which change together |
| `link[l]` | a TCP connection with its read loop: open, ended by the peer (`eof`), transport closed by an error (`closing`) or by the proxy (`released`); `unused` once the read loop is over |
| `buffer`, `relayed` | `_buffer` and the last line handed over, as the set of connections their bytes came from |
| `phase[c]`, `left[c]` | what start() (`Main`) or a reconnect task is waiting for; queries left in `request_state()` |
| `handle` | `_reconnect_task` |
| `DialSucceeds`, `DialIsReset`, `DialFails` | the three ways the await in `connect()` ends |
| `Query`, `QueriesSent` | one round of `request_state()`, its return |
| `Send` | any command or query of clients, once the server listens |
| `Transmit` | `send_command`: taken, write error, or no usable writer, which asks for a reconnect |
| `ScheduleReconnect` | `_on_avr_disconnect` |
| `PeerDrops`, `Receive`, `ReadLoopEnds` | the network; a read; the `finally` clause with `_handle_disconnect` |
| `Stop` | `stop()` down to `close()` |

One assumption about time is in the guard of `Reconnect`: RECONNECT_DELAY (2 s) is
longer than the few iterations of the event loop a closed transport needs to end
its read loop, and longer than start()'s own delay after its dial. The mutant
`ReconnectNow` drops it, and `SingleConnection`, `NoForgottenLink` and
`WorkingLinkIsKept` fail.

`SingleLink` is the promise of the class docstring, "maintains a single Telnet
connection": sockets in use and coroutines that dial, never two of either and
never both. `ImplementsSingleLink` maps the link states and phases to it.

### ProxyCore (clients and optimistic state)

The state is a value per field; commands set a field, step it (MVUP, MVDOWN) or ask
for it. Each command is a record in `job` with the stage its task has reached:

| Stage | Code |
|---|---|
| `new` → `Begin` | `_handle_command_async` up to `asyncio.sleep(delay)`: `had_connection`, snapshot, `apply_command`, creation of the send task |
| `sending` → `SendSucceeds`, `SendFails` | the send task |
| `sent` → `Conclude` | after the sleep: `restore`, `_broadcast_state`, query or end |
| `followup` → `FollowUp` | after `volume_query_delay`: `MV?` |

`ready` and `delayed` are the event loop's queues of tasks and of equal timers;
both are first in, first out. `view[c]` is what client `c` has last been told of
each field, by dumps, broadcasts and relayed lines. A command of the HTTP API starts
in stage `sending` (`_send_command_cb`). The connection is reduced to `up`, the
queries still to come and two FIFO channels; its loss empties them. `task` is the reconnect
task: it sleeps, dials (which may fail, `DialFails`) and asks for the state; a loss while it
asks starts no new one, so that the connection may be given up. `Untold` are the fields
a status dump leaves out: `volume_max`, which the AVR is asked for and a revert restores, but
which only a relayed line tells. The AVR (external)
executes, reports changes it was told to make, may keep silent about steps and about
values it already has, and can be changed by its own remote control.

The guard of `Reconnect` says that RECONNECT_DELAY exceeds
`optimistic_broadcast_delay` (2 s against 0.1 s by default); see "hazards" for what
happens when it is configured otherwise.

### UnansweredTracker

`pending`, `unanswered`, `suppressed` are the attributes of that name; `timer[u]` is the
waiter task of the u-th query (`sleeping`, `due` when its sleep is over but it has not
run, `over` when done or cancelled; a task that is cancelled while due does not count).
Queries and lines are sequences of parts, so that "starts with" is a prefix. The AVR
answers a set of queries chosen at the start, in order, and sends other lines unasked.

### Volume, AVRState

In `Volume`, `volume` is the text as its number of digits and its value, `limit` the MVMAX
level; levels are in tenths, levels given to the HTTP API in hundredths. `FormatVolume`,
`VolumeToLevel` and `DigitsToLevel` are the helpers of `avr/state.py`; `RoundToHalfStep` is
the banker's rounding of `round(level * 2) / 2`. `VolumeToDb` is what `.1f` makes of the binary
number of decibels: a tie goes to the even digit only where the tenths are exact, and other
digits as they are stored, so that the text 539 is shown as -13.1. `Volume` says what steps, lines and the
HTTP API may do to the volume.

`AVRState` extends it with the other fields (`others`), the lines that carry them and the
control routes, and implements it (`ImplementsVolume`): however many places apply a command
(client handler, virtual AVR, the echo that is parsed again), the volume moves once.

| Model | Code |
|---|---|
| `Updated`, `Applied` | `update_from_message`, `apply_command` |
| `Dump` | `get_status_dump`, as a sequence of lines; a line is what it is about and its parameter |
| `Synced` | `apply_payload` of what denonavr reports, decibels included |
| `Answer` | `VirtualAVRConnection.send_command`: apply, filter the dump, feed it back, relay |
| `PowerCommand`, `MuteCommand`, `RouteToCommand`, `HttpVolume` | `route_to_command` |
| `CommandPhysical`, `AvrLine` | a client's command in optimistic mode, sent or reverted; a line of the AVR |
| `mirror` | a telnet client that reads lines with the proxy's own `update_from_message` |

A whole handler is one step here; `ProxyCore` is about what comes between its parts.

### Framing

A connection of one of four kinds (AVR, telnet client, HTTP API, device description)
receives bytes in segments. `TelnetData` is `parse_telnet_lines` with
`_strip_telnet_sequences` and the filters of the caller; `ApiData` and `DescriptionData` are the two
hand-written HTTP parsers. Bytes are classes: what the code tells apart. The scanner is a
function of the position in the line: `KeptAt` is what one turn of the loop keeps, `NextAt` the
index after it. `LineEnds` is where the buffer is split, `Accepted` the loop in which a caller
leaves out empty lines and messages that are no commands.

### HttpServer

`conn`, `sse`, `answered`, `subscribers` are the handlers and their sets; `pushes` counts
push tasks; `fresh` is the set of connections that were sent the status since it last
changed, which stands for the status itself. Every place that calls
`notify_state_changed` (or does not) is an action. `log` is `_client_activity_log`,
`recorded` all that was to be recorded.

### Lifecycle

`at` is where the coroutine of `main_async` waits, from `sync` (asking denonavr) over each
server in the order of `start()` to `stop()` and `ended`; `listener`, `conn`, `ssdp` and
`avr` are the sockets. A client is `attached` between its acceptance and
`connection_made`. `config.wait_closed` tells whether this Python's `wait_closed()` waits
for connections (3.12 and later) or returns at once (the project allows 3.10).

### Discovery

One M-SEARCH per search target; whoever was asked may answer at any time, as often as it
likes. `ProxyAnswers` is the responder of this project (`SSDPProtocol`), so that both ends
of the search are the code's. The mDNS browser runs in a thread, its results are merged
by `Merge`.

### Composition

`AVRConnection` (how a connection comes and goes) appears in `ProxyCore`, `HttpServer`
and `Lifecycle` as one variable with the steps it allows; `AVRState` refines the volume of
`ProxyCore`'s abstract fields; `Framing` delivers the lines and requests the others start
from. `AVRState` EXTENDS `Volume`; `AVRConnection` and `AVRState` are shown to implement
`SingleLink` and `Volume`.

### MC modules

`MCAVRConnection`, `MCProxyCore`, `MCUnansweredTracker`, `MCAVRState`, `MCLifecycle` and
`MCDiscovery` give the constants values for TLC; `HttpServer` and `Framing` get theirs from
the configuration file.

## 3. What the runs check

| Run | Instance | States | Shows |
|---|---|---|---|
| `connection` | 3 links, 2 reconnect tasks, 2 queries | 28 337 | one connection, one dial, one reconnect task; a working link is kept; the refinement of `SingleLink`; reconnect tasks end; recovery under demand |
| `two_commands` | 2 fields × 2 values, 1 client, 2 commands (telnet or HTTP; set, step, ask), 1 loss | 4.36 million | `TypeOK`, `ViewsAgree`, `Converges`, `SentInOrder` |
| `a_change_at_the_avr` | a field and a limit that no dump tells, 1 command, 1 change at the AVR, 1 loss, dials that fail | 357 652 | `ViewsAgree`, `Converges`, `EventuallyConsistent` |
| `tracker` | MS, MSSMART, MV, MVMAX; 3 queries, threshold 2, 1 unasked line, 1 loss | 1.3 million | a query that waits has a waiter; counts and suppression agree; what is answered is not counted |
| `avr_state` | texts on both sides of ten and of the limits, nine tenths and texts of three digits among them, decibels whole, half and neither, one or two values of the other fields | 95 624 | `MirrorAgrees`, `VirtualPowerIsKnown`, `DbKeepsLevel`, the refinement of `Volume`, `StepsWhereClear`, `HttpSetsLevel` |
| `web` | 2 connections, 1 telnet peer, a command and a query, 2 push tasks, 2 records, logs of 1 entry | 448 000 | `SubscribersUpToDate`, `LostIsForgotten`, `LogKeepsNewest`, `EventuallyTold` |
| `framing` | all telnet input of up to 5 bytes of 9 classes, all requests, cut anywhere | 132 878 | `CutsDoNotMatter`, `CommandsSurviveNegotiation`, `WholeRequestIsAnswered`, `CommandWithHeadIsSent` |
| `lifecycle` | 17 settings, any port taken or none left, a client per server at any moment, a signal at any moment | 144 825 | `NothingIsLeft`, `OnlyTheseHang`, `AdvertisedIsServed`, `IdentityAgrees`, `SignalEnds` |
| `discovery` | a proxy, an AVR, a device known by its USN only, the place of the proxy under another name in mDNS and its Web UI under its own; 2 datagrams waiting, 2 units of time | 596 183 | `HeardAreReturned`, `ProxiesAreNamed`, `SearchEnds` |

Why the bounds are enough:

* `connection`: a link identity is reused when nothing refers to it, so three cover one
  in use, one that left bytes in the buffer and a free one, for unboundedly many losses; a
  second reconnect task is all that `OneReconnectTask` must exclude.
* `two_commands`, `a_change_at_the_avr`: two overlapping commands on two fields are the
  smallest case in which a revert hits a field it did not set; one loss makes a send fail. In
  the second run the AVR changes the limit or the field during the delay of the command, so
  that the revert makes the proxy forget a limit its clients were told.
* `tracker`: three queries allow two of one name and one of a neighbour between them.
* `avr_state` is finite but for the values of the fields, which the code only copies.
* `web`: two connections let one be pushed to while another comes; two push tasks let one
  read the status before and one after a change; one entry makes the deque overflow at
  once. `MaxPushes` and `MaxRecords` are guards of the actions that would exceed them.
* `framing`: five bytes hold a line, a negotiation and a letter after it.
* `discovery`: the queue is never read in any order but its own, so that two waiting
  datagrams can be swapped, doubled and late.

Deadlock is checked, except in `tracker` (all queries are sent and settled) and in the runs
of `Framing` (the peer has sent all it may).

Where the code departs from what it says of itself, TLC finds the property violated
("findings" in `PROJECT.json` quotes the lines):

| Run | What happens |
|---|---|
| `loss_without_attempt` | a link that is lost while the reconnect task that opened it still runs `request_state()` starts no new attempt; only the next send does |
| `line_of_two_connections` | the unfinished line of a lost link is joined with the first of the next |
| `posted_command` | the HTTP API takes a request for complete when its head is; a body that arrives later is lost and the command refused |

Smaller departures met on the way, which no run is spent on:

* `close()` makes the read loop end and call `on_disconnect` (`connection.py:37`, `:113`), so
  that `stop()` can leave a reconnect task that has to see that nothing is to be done.
* A revert restores all fields (`core.py:337`), also those others have changed since
  (`docs/CONFIG.md:21` speaks of the change); `Converges` shows that this heals.
* Commands of the HTTP API are not applied optimistically (`core.py:602`; `docs/API.md:39`).
* An unsolicited line clears a count only when the query is suppressed
  (`unanswered_tracker.py:72`, `:138`).
* A half step below ten is written with two digits, so that 8.5 is read as 85
  (`state.py:280`); `StepsWhereClear` and `HttpSetsLevel` exclude exactly these.
* A toggle is computed from the state, so that two toggles before the AVR answers send the
  same command twice (`avr_control.py:60`).
* A second request on an event stream is answered and leaves the subscription behind
  (`LostIsForgotten` excludes it); a reconnection changes `connected` without a push, and until
  the first answer subscribers do not know (`SubscribersUpToDate` excludes it).
* No dump tells `volume_max` (`state.py:137`): a telnet client that joins does not learn the
  limit, and a revert that forgets a limit tells nobody; clients and proxy disagree about it
  until the next connection has answered `MVMAX?` (second part of `ViewsAgree`).
* `discover` counts and lists a proxy among the AVRs, because its name has the vendor's in it
  (`cli.py:174`, `:226`); the brand in the column "Model" tells it from one, and this is
  what `ProxiesAreNamed` says.
* With `ssdp_http_port` 0, if no free port is found (`discovery.py:669`), `main_async` goes on
  without the SSDP socket that was already opened: it answers searches until the process
  ends, naming a description that nobody serves (`ssdp = "orphaned"`, which
  `AdvertisedIsServed` excludes and `NothingIsLeft` does not count).
* SSDP answers name the description before its server is bound (`AdvertisedIsServed`
  speaks of the running proxy); a discovery server that outlives the time limit keeps
  `stop()` from being called.
* A telnet client whose `connection_made` is pending in the moment of `stop()` is not
  aborted; `OnlyTheseHang` names it.
* If one search method cannot open its socket, the results of the other are lost with it
  (`gather`); of a device without a SERVER header the first answer decides.

Every property of a passing run has a mutant in `PROJECT.json`: a plausible slip in
a mapped definition under which TLC finds the property violated. The slips are the
definitions introduced by the comment "A plausible slip".

### Fairness

Weak fairness of an action stands for the event loop running a task that is ready, a
timer that is due, or `asyncio.wait_for` ending a dial.

* `AVRConnection.FairSpec` assumes nothing of the AVR or of clients.
  `RecoversUnderDemand` is conditional on the AVR being there from some moment on and, in
  `DemandSpec`, on a client that sends whenever the proxy is down: without such a client
  the code does *not* recover from a failed dial.
* `ProxyCore.FairSpec` also assumes that the AVR executes what it is sent, that queries and
  commands of a task are sent, and that a dial ends: one way or the other. It does *not*
  assume that a lost connection comes back. A dial that fails and a loss during
  `request_state()` leave no task behind, and no client need send, so that
  `EventuallyConsistent` has the alternative `Abandoned`; how the connection recovers when
  somebody does send is the subject of `AVRConnection` (`RecoversUnderDemand`).
* `HttpServer.FairSpec`: push tasks and delays end; an AVR that was asked answers.
* `Lifecycle.FairSpec`: what `start()` awaits has time limits, as has the shutdown; the
  loop calls `connection_made`, and `connection_lost` after `abort()`. Clients need never
  leave.
* `Discovery.FairSpec`: the coroutine and the browser's thread run and time passes; nobody
  need answer, and answers need not stop.

## 4. What is proved

TLAPS proves, for every value of the constants, every safety property of the
passing runs. `PROJECT.json` names the theorems; here is how each argument goes.

* `AVRConnection_proofs`: `TypeOK`, `SingleConnection`, `WriterHasReader` with
  `NoForgottenLink`, `OneReconnectTask`, `WorkingLinkIsKept` and the refinement
  `ImplementsSingleLink`. None of them is inductive alone. The inductive
  invariant adds two facts about time: while a reconnect task sleeps no link is open
  (`SleeperSeesNoLink`), and while start() dials nobody has asked for a reconnect
  (`MainDialsAlone`). With them, a task that wakes finds every link ended, so that its
  dial is the only one and its link the only link. Assumed: `None` values differ from
  links and tasks, and the number of queries is a natural number.
* `ProxyCore_proofs`: `TypeOK`, `ViewsAgree`, `SentInOrder`, `Converges`, for any clients,
  finitely many fields, any commands and bounds. Types need that the queues hold tasks that
  exist (`QueuesKnown`). `ViewsAgree` is inductive with them: whatever changes the state
  relays the same line, or leaves a task that will tell everybody. For fields that no dump
  tells, the second part: commands only ask for them (`UntoldAssumption`, `OnlyAsked`), so that
  while the connection is up only a line changes them, which is relayed; a command whose send
  failed is reverted before the next connection (`RevertsAreDown`), which asks for all of
  them, and what is asked stays awaited until its line comes. `SentInOrder` needs the
  order of the event loop's queue: handlers begin in order (`BegunInOrder`), and among the
  clients' tasks in the queue those of one stage are in order (`QueueInTurn`), although the
  queue as a whole is not.

  `Converges` speaks of the moments when nothing is under way, and its invariant of all
  others. Take the last line about a field that is on its way to the proxy, or the state if
  there is none: this is what the proxy will believe. If that is not what the AVR is, then
  something is still to come that makes the AVR tell the field: a query or a command on its
  way, or a task that will send one (`HeardOrCorrected`). A step on its way is followed by
  the query about it (`StepsAreAsked`). Two facts about losses close the argument: channels
  and queries are empty while there is no connection (`DownIsEmpty`), and a command whose
  send failed is reverted before the next connection (`RevertsAreDown`), which is where
  RECONNECT_DELAY must exceed the delay of commands.
* `UnansweredTracker_proofs`: `SuppressedIffCounted`, from the threshold being at
  least one, with one lemma per way the count can change; `PendingHasWaiter`, from no query
  waiting twice (`WaitInv`) and a lemma about what `RemoveAt` leaves. `TypeOK` bounds each
  count by the number of queries: `Counted` says that a count and the queries whose waiter
  is not over are no more than that together.

  `AnsweredIsNotCounted` is proved under `Unambiguous`: the line that answers a query
  matches no other query. TLC evaluates it for the queries the proxy itself sends
  (`MCUnansweredTracker`); without it the property does not hold, because a line would settle the
  wrong query. The invariant is about order: queries, their answers and those that wait are
  numbered in the order they were sent, on both channels and across them (`WayInv`,
  `PendingInv`), so that an answer finds its own query first; and a query the AVR answers that still waits
  is on its way, or its answer is (`AnswerComes`).
* `AVRState_proofs`, first part, about `Volume`: `TypeOK`, `StepsWhereClear`,
  `HttpSetsLevel`, from `volume_step` being a multiple of a half (the validator in
  `runtime/config.py` enforces it). The core is `RoundTrip`: what `FormatVolume` writes,
  `VolumeToLevel` reads back, if the level is whole or at least ten.
* `AVRState_proofs`, second part, about `AVRState`: types (`StateTypeOK`), `MirrorAgrees`,
  `VirtualPowerIsKnown`, `DbKeepsLevel` (by cases of the last digit, as the rounding goes), the refinement `ImplementsVolume`, and with it the
  two properties of `Volume` once more, for any sources, modes, slots, texts and levels.
  `UpdatedBy` reads the lines of a dump one by one; `UpdatedByStepwise` is the induction
  over their number, `DumpIsTold` what the reader of a dump then knows, field by field:
  of the fields the lines are about what the state says, of all others what he knew. So the mirror
  agrees after every answer, and the volume a virtual AVR feeds back into its state is the
  one it just told. `LineAgrees` does the same for a single line of the AVR.
* `HttpServer_proofs`: `TypeOK`, `SubscribersUpToDate`, `LostIsForgotten`, `LogKeepsNewest`.
  The first of them is inductive: whoever makes the status stale leaves a push task, a delay
  or a question to the AVR behind. The second needs that only streams subscribe and that a
  handler closes only what it has answered. The third compares the deque of a client with
  the newest of all its entries; both are recursive, and grow by one entry at a time.
* `Lifecycle_proofs`: `TypeOK`, `NothingIsLeft`, `OnlyTheseHang`, `AdvertisedIsServed`,
  `IdentityAgrees`, for any set of settings. The invariant says for each place of
  `main_async` what is open there; the name and the sources, once resolved, are what
  they would be resolved to again.
* `Discovery_proofs`: `HeardAreReturned`, `ProxiesAreNamed`, for any devices, any number of answers
  in any order and lists of any length. `UniqueProperties`, an induction over a list, says that
  `Unique` keeps the first entry of each place and nothing else; the entries of SSDP come
  first in the merge. The invariant ties the lists to what was heard (`SsdpInv`, `MdnsInv`)
  and says that a search of one kind has nothing of the other (`MethodInv`). Assumed
  (`OneProxyAssumption`, `PlacesAssumption`): one proxy answers SSDP, no device does so for its
  place or with its name, and a place has one name in mDNS, which may be that of a proxy.
* `Framing_proofs`: `CutsDoNotMatter`, `CommandsSurviveNegotiation`, `WholeRequestIsAnswered`,
  `CommandWithHeadIsSent`, for segments and lines of any length. `TelnetInv` is inductive: what
  was delivered and the buffer are what a scan of all bytes so far gives (`Scanned`, which reads
  byte by byte and knows no segments). `ParsedStepwise` and `ScannedNext` say what one more byte
  makes of a parse and of a scan; with the induction over the bytes of a segment they give
  `ScannedSegment`, and `AcceptedConcat` carries it through the callers' filter.
  `StrippedKeepsLetters` is the induction from the end of a line to its beginning: what a
  negotiation skips holds no letter of a command (`SkippedIsNoLetter`). For HTTP, `HttpInv` says that
  what arrived is the beginning of one request, and that it is answered from the moment on
  in which its head is whole. Assumed: `BoundAssumption`, that the length of the input is a number.

Induction over data: the library's theorems about it take a predicate as parameter, which the
provers cannot instantiate. Each module that needs it states it for sets of numbers instead (a
set that contains 0 and with each number the next one contains all: `Induction`, in
`Framing_proofs` up to a bound and down from it, `InductionUp` and `InductionDown`), from the
existence of a smallest number. The theorems about recursive functions (`UpdatedBy`, `EntriesIn`,
`Unique`, `ParseTelnetLines`, `Scanned`, `Accepted`, `Stripped`) rest on it.

The invariants were checked by TLC on the instances of section 3, or smaller ones, before they
were proved.

Only model-checked: liveness (`ReconnectTaskEnds`, `RecoversUnderDemand`,
`EventuallyConsistent`, `EventuallyTold`, `SignalEnds`, `SearchEnds`), which is out of the
prover's reach.

## 5. What is not modelled

* `drain()` blocking on an AVR that stops reading: sends always end;
* an AVR that silently refuses a command;
* `optimistic_broadcast_delay` above RECONNECT_DELAY (see "hazards");
* the documents of discovery: XML, its rewriting and escaping, answers to AppCommand, which are
  text without behaviour over time;
* HTTP contents: JSON, the dashboard, the YAML and the capabilities for Unfolded Circle
  remotes;
* reading configuration files and the environment, the validation of single settings, the
  command line, logging: formatting and I/O.

## 6. Plan

Done, in this order: connection and its refinement; clients and optimistic state;
tracker; volume; HTTP server and log; framing; the meaning of lines with the virtual AVR
and the control routes; start and shutdown; discovery; the proofs of section 4.

Left: no safety property of a run is without a theorem. Open are the liveness properties, which
stay with TLC, and the hazards that have no property (section 5 and `PROJECT.json` say why).
