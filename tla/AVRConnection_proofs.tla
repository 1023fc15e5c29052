------------------------ MODULE AVRConnection_proofs ------------------------
(***************************************************************************)
(* Proofs about AVRConnection, for any sets of links and tasks and any     *)
(* number of queries: type correctness, the single connection, the single  *)
(* reconnect task, and that a working connection is only given up by       *)
(* stop().  The inductive invariant adds what the code relies on without   *)
(* saying so: a reconnect task that sleeps was created when there was no   *)
(* usable link, and while start() dials nothing has asked for a reconnect. *)
(***************************************************************************)
EXTENDS AVRConnection, TLAPS

IInv == /\ TypeOK
        /\ SingleConnection
        /\ WriterHasReader
        /\ NoForgottenLink
        /\ OneReconnectTask
        /\ SleeperSeesNoLink
        /\ MainDialsAlone

\* _on_avr_disconnect, called when no link is usable and start() is not
\* dialling, leaves exactly one reconnect task and wakes no coroutine.
LEMMA ScheduleReconnectKeeps ==
  ASSUME IInv, ScheduleReconnect
  PROVE  /\ phase' \in [Callers -> Phases]
         /\ handle' \in Tasks
         /\ \A t \in Tasks : phase'[t] # "idle" <=> handle' = t
         /\ \A c \in Callers : phase'[c] = phase[c] \/ (phase[c] = "idle" /\ phase'[c] = "sleeping")
         /\ phase'[Main] = phase[Main]
BY TaskAssumption DEF IInv, TypeOK, OneReconnectTask, ScheduleReconnect, Pending, Callers, Phases

\* What a caller of connect() or request_state() leaves behind.
LEMMA FinishKeeps ==
  ASSUME IInv, NEW c \in Callers, phase[c] # "idle", Finish(c)
  PROVE  /\ phase' \in [Callers -> Phases]
         /\ handle' \in Tasks \cup {NoTask}
         /\ \A t \in Tasks : phase'[t] # "idle" <=> handle' = t
         /\ \A d \in Callers : d # c => phase'[d] = phase[d]
         /\ phase'[c] = "idle"
         /\ handle' # NoTask => handle # NoTask
BY TaskAssumption DEF IInv, TypeOK, OneReconnectTask, Finish, Callers, Phases

-----------------------------------------------------------------------------
THEOREM InvInit == Init => IInv
<1> SUFFICES ASSUME Init PROVE IInv
  OBVIOUS
<1> USE DEF Init, Callers
<1>1. TypeOK
  <2>1. phase \in [Callers -> Phases]
    BY DEF Phases
  <2>2. left \in [Callers -> 0..NQueries]
    BY QueriesAssumption
  <2>3. link \in [Links -> LinkStates]
    BY DEF LinkStates
  <2> QED
    BY <2>1, <2>2, <2>3 DEF TypeOK
<1>2. SingleConnection
  BY DEF SingleConnection, InUse, Dialling
<1>3. WriterHasReader /\ NoForgottenLink
  BY DEF WriterHasReader, NoForgottenLink
<1>4. OneReconnectTask
  BY TaskAssumption DEF OneReconnectTask
<1>5. SleeperSeesNoLink /\ MainDialsAlone
  BY TaskAssumption DEF SleeperSeesNoLink, MainDialsAlone
<1> QED
  BY <1>1, <1>2, <1>3, <1>4, <1>5 DEF IInv

\* While a coroutine dials, no link is in use, no reconnect task sleeps and
\* nobody else dials.
LEMMA DialsAlone ==
  ASSUME IInv, NEW c \in Callers, phase[c] = "dialling"
  PROVE  /\ \A l \in Links : link[l] = "unused"
         /\ \A t \in Tasks : t # c => phase[t] = "idle"
         /\ c # Main => phase[Main] # "dialling"
<1>1. \A l \in Links : link[l] = "unused"
  BY DEF IInv, SingleConnection, InUse, Dialling
<1>2. CASE c = Main
  <2>1. handle = NoTask
    BY <1>2 DEF IInv, MainDialsAlone
  <2> QED
    BY <1>1, <1>2, <2>1, TaskAssumption DEF IInv, TypeOK, OneReconnectTask, Callers, Phases
<1>3. CASE c # Main
  <2>1. c \in Tasks /\ handle = c
    BY <1>3 DEF IInv, OneReconnectTask, Callers
  <2>2. \A t \in Tasks : t # c => phase[t] = "idle"
    BY <2>1 DEF IInv, OneReconnectTask
  <2>3. phase[Main] # "dialling"
    BY <2>1, TaskAssumption DEF IInv, MainDialsAlone
  <2> QED
    BY <1>1, <2>2, <2>3
<1> QED
  BY <1>2, <1>3

\* A coroutine that dials gets a link in state s and goes on in phase q.
LEMMA DialOpens ==
  ASSUME IInv,
         NEW c \in Callers, phase[c] = "dialling",
         NEW l \in Links, writer' = l,
         NEW s \in {"open", "closing"}, link' = [link EXCEPT ![l] = s],
         NEW q \in {"settling", "querying", "idle"}, phase' = [phase EXCEPT ![c] = q],
         handle' = (IF q = "idle" /\ c \in Tasks THEN NoTask ELSE handle),
         left' \in [Callers -> 0..NQueries],
         UNCHANGED <<buffer, relayed, stopped>>
  PROVE  IInv'
<1> USE DEF Callers
<1>1. /\ \A k \in Links : link[k] = "unused"
      /\ \A t \in Tasks : t # c => phase[t] = "idle"
      /\ c # Main => phase[Main] # "dialling"
  BY DialsAlone
<1>2. TypeOK'
  BY DEF IInv, TypeOK, LinkStates, Phases
<1>3. Dialling' = {}
  BY <1>1 DEF IInv, TypeOK, Dialling
<1>4. SingleConnection'
  BY <1>1, <1>3 DEF IInv, TypeOK, SingleConnection, InUse
<1>5. WriterHasReader' /\ NoForgottenLink'
  BY <1>1 DEF IInv, TypeOK, WriterHasReader, NoForgottenLink
<1>6. OneReconnectTask'
  BY <1>1, TaskAssumption DEF IInv, TypeOK, OneReconnectTask
<1>7. SleeperSeesNoLink' /\ MainDialsAlone'
  BY <1>1, <1>3, TaskAssumption DEF IInv, TypeOK, SleeperSeesNoLink, MainDialsAlone, Dialling
<1> QED
  BY <1>2, <1>4, <1>5, <1>6, <1>7 DEF IInv

LEMMA DialSucceedsKeeps == ASSUME IInv, NEW c \in Callers, DialSucceeds(c) PROVE IInv'
<1>1. PICK l \in Links : writer' = l /\ link' = [link EXCEPT ![l] = "open"]
  BY DEF DialSucceeds
<1>2. left' \in [Callers -> 0..NQueries]
  BY QueriesAssumption DEF DialSucceeds, IInv, TypeOK
<1>3. PICK q \in {"settling", "querying"} : phase' = [phase EXCEPT ![c] = q]
  BY DEF DialSucceeds
<1> QED
  BY <1>1, <1>2, <1>3, DialOpens DEF DialSucceeds

LEMMA DialIsResetKeeps == ASSUME IInv, NEW c \in Callers, DialIsReset(c) PROVE IInv'
<1>1. PICK l \in Links : writer' = l /\ link' = [link EXCEPT ![l] = "closing"]
  BY DEF DialIsReset
<1>2. left' \in [Callers -> 0..NQueries]
  BY QueriesAssumption DEF DialIsReset, IInv, TypeOK
<1>3. PICK q \in {"settling", "idle"} :
        /\ phase' = [phase EXCEPT ![c] = q]
        /\ handle' = (IF q = "idle" /\ c \in Tasks THEN NoTask ELSE handle)
  BY DEF DialIsReset, Finish
<1> QED
  BY <1>1, <1>2, <1>3, DialOpens DEF DialIsReset

\* A coroutine returns from connect() or request_state().
LEMMA FinishingKeeps ==
  ASSUME IInv, NEW c \in Callers, phase[c] # "idle", Finish(c),
         UNCHANGED <<writer, link, buffer, relayed, left, stopped>>
  PROVE  IInv'
<1>1. /\ phase' \in [Callers -> Phases]
      /\ handle' \in Tasks \cup {NoTask}
      /\ OneReconnectTask'
      /\ \A d \in Callers : phase'[d] # "idle" => phase'[d] = phase[d]
      /\ handle' # NoTask => handle # NoTask
  BY FinishKeeps DEF OneReconnectTask
<1>2. TypeOK'
  BY <1>1 DEF IInv, TypeOK
<1>3. SingleConnection'
  BY <1>1 DEF IInv, SingleConnection, InUse, Dialling
<1>4. WriterHasReader' /\ NoForgottenLink'
  BY DEF IInv, WriterHasReader, NoForgottenLink
<1>5. SleeperSeesNoLink' /\ MainDialsAlone'
  BY <1>1 DEF IInv, SleeperSeesNoLink, MainDialsAlone, Callers
<1> QED
  BY <1>1, <1>2, <1>3, <1>4, <1>5 DEF IInv

\* A coroutine that is not dialling sends, successfully or not.
LEMMA TransmitKeeps ==
  ASSUME IInv, phase[Main] # "dialling", Transmit,
         left' \in [Callers -> 0..NQueries],
         UNCHANGED <<writer, buffer, relayed, stopped>>
  PROVE  IInv'
<1>1. CASE IsConnected /\ UNCHANGED <<link, phase, handle>>
  BY <1>1 DEF IInv, TypeOK, SingleConnection, InUse, Dialling, WriterHasReader, NoForgottenLink,
              OneReconnectTask, SleeperSeesNoLink, MainDialsAlone
<1>2. CASE IsConnected /\ link' = [link EXCEPT ![writer] = "closing"] /\ UNCHANGED <<phase, handle>>
  <2>1. writer \in Links /\ link[writer] # "unused"
    BY <1>2 DEF IsConnected, IInv, TypeOK
  <2>2. TypeOK'
    BY <1>2 DEF IInv, TypeOK, LinkStates
  <2>3. SingleConnection'
    BY <1>2, <2>1 DEF IInv, TypeOK, SingleConnection, InUse, Dialling
  <2>4. WriterHasReader' /\ NoForgottenLink'
    BY <1>2, <2>1 DEF IInv, TypeOK, WriterHasReader, NoForgottenLink
  <2>5. OneReconnectTask' /\ SleeperSeesNoLink' /\ MainDialsAlone'
    BY <1>2, <2>1 DEF IInv, TypeOK, OneReconnectTask, SleeperSeesNoLink, MainDialsAlone
  <2> QED
    BY <2>2, <2>3, <2>4, <2>5 DEF IInv
<1>3. CASE ~IsConnected /\ ScheduleReconnect /\ UNCHANGED link
  <2>1. /\ phase' \in [Callers -> Phases]
        /\ handle' \in Tasks
        /\ OneReconnectTask'
        /\ \A d \in Callers : phase'[d] = phase[d] \/ phase'[d] = "sleeping"
        /\ phase'[Main] = phase[Main]
    BY <1>3, ScheduleReconnectKeeps DEF OneReconnectTask
  <2>2. \A l \in Links : link[l] \notin {"open", "eof"}
    BY <1>3, LinkAssumption DEF IsConnected, IInv, NoForgottenLink
  <2>3. TypeOK'
    BY <1>3, <2>1 DEF IInv, TypeOK
  <2>4. SingleConnection'
    BY <1>3, <2>1 DEF IInv, SingleConnection, InUse, Dialling
  <2>5. WriterHasReader' /\ NoForgottenLink'
    BY <1>3 DEF IInv, WriterHasReader, NoForgottenLink
  <2>6. SleeperSeesNoLink' /\ MainDialsAlone'
    BY <1>3, <2>1, <2>2 DEF SleeperSeesNoLink, MainDialsAlone
  <2> QED
    BY <2>1, <2>3, <2>4, <2>5, <2>6 DEF IInv
<1> QED
  BY <1>1, <1>2, <1>3 DEF Transmit

LEMMA QueryKeeps == ASSUME IInv, NEW c \in Callers, Query(c) PROVE IInv'
<1>1. phase[Main] # "dialling"
  BY DialsAlone, TaskAssumption DEF Query, Callers
<1>2. left' \in [Callers -> 0..NQueries]
  <2>1. left[c] - 1 \in 0..NQueries
    BY QueriesAssumption DEF Query, IInv, TypeOK
  <2> QED
    BY <2>1 DEF Query, IInv, TypeOK
<1> QED
  BY <1>1, <1>2, TransmitKeeps DEF Query

LEMMA SendKeeps == ASSUME IInv, Send PROVE IInv'
BY TransmitKeeps DEF Send, Serving, IInv, TypeOK

LEMMA ReconnectKeeps == ASSUME IInv, NEW t \in Tasks, Reconnect(t) PROVE IInv'
<1>1. \A l \in Links : link[l] = "unused"
  BY DEF Reconnect, IInv, TypeOK, SleeperSeesNoLink, LinkStates
<1>2. handle = t /\ t \in Callers /\ t # Main
  BY TaskAssumption DEF Reconnect, IInv, OneReconnectTask, Callers
<1>3. phase' = [phase EXCEPT ![t] = "dialling"]
  BY <1>1 DEF Reconnect, IsConnected, IInv, TypeOK
<1>4. TypeOK'
  BY <1>2, <1>3, QueriesAssumption DEF Reconnect, IInv, TypeOK, Phases
<1>5. \A c \in Callers : phase'[c] = "dialling" => c = t
  BY <1>2, <1>3 DEF Reconnect, Serving, IInv, TypeOK, OneReconnectTask, Callers
<1>6. SingleConnection'
  BY <1>1, <1>5 DEF Reconnect, SingleConnection, InUse, Dialling
<1>7. WriterHasReader' /\ NoForgottenLink'
  BY DEF Reconnect, IInv, WriterHasReader, NoForgottenLink
<1>8. OneReconnectTask' /\ SleeperSeesNoLink' /\ MainDialsAlone'
  BY <1>1, <1>2, <1>3, <1>5 DEF Reconnect, IInv, TypeOK, OneReconnectTask, SleeperSeesNoLink, MainDialsAlone, Callers
<1> QED
  BY <1>4, <1>6, <1>7, <1>8 DEF IInv

LEMMA PeerDropsKeeps == ASSUME IInv, NEW l \in Links, PeerDrops(l) PROVE IInv'
<1>1. PICK s \in {"eof", "closing"} : link' = [link EXCEPT ![l] = s]
  BY DEF PeerDrops
<1>2. link[l] = "open" /\ UNCHANGED <<writer, buffer, relayed, phase, left, handle, stopped>>
  BY DEF PeerDrops
<1>3. TypeOK'
  BY <1>1, <1>2 DEF IInv, TypeOK, LinkStates
<1>4. SingleConnection'
  BY <1>1, <1>2 DEF IInv, TypeOK, SingleConnection, InUse, Dialling
<1>5. WriterHasReader' /\ NoForgottenLink'
  BY <1>1, <1>2 DEF IInv, TypeOK, WriterHasReader, NoForgottenLink
<1>6. OneReconnectTask' /\ SleeperSeesNoLink' /\ MainDialsAlone'
  BY <1>1, <1>2 DEF IInv, TypeOK, OneReconnectTask, SleeperSeesNoLink, MainDialsAlone
<1> QED
  BY <1>3, <1>4, <1>5, <1>6 DEF IInv

LEMMA ReceiveKeeps == ASSUME IInv, NEW l \in Links, Receive(l) PROVE IInv'
<1>1. TypeOK'
  BY DEF Receive, IInv, TypeOK
<1> QED
  BY <1>1 DEF Receive, IInv, SingleConnection, InUse, Dialling, WriterHasReader, NoForgottenLink,
              OneReconnectTask, SleeperSeesNoLink, MainDialsAlone

LEMMA ReadLoopEndsKeeps == ASSUME IInv, NEW l \in Links, ReadLoopEnds(l) PROVE IInv'
<1>1. /\ phase' \in [Callers -> Phases]
      /\ handle' \in Tasks
      /\ OneReconnectTask'
      /\ \A d \in Callers : phase'[d] = phase[d] \/ phase'[d] = "sleeping"
      /\ phase'[Main] = phase[Main]
  BY ScheduleReconnectKeeps DEF ReadLoopEnds, OneReconnectTask
<1>2. \A k \in Links : link'[k] = "unused"
  BY LinkAssumption DEF ReadLoopEnds, IInv, TypeOK, SingleConnection, WriterHasReader, InUse
<1>3. \A d \in Callers : phase[d] # "dialling"
  BY DEF ReadLoopEnds, IInv, SingleConnection, InUse, Dialling
<1>4. TypeOK'
  BY <1>1 DEF ReadLoopEnds, IInv, TypeOK, LinkStates
<1>5. SingleConnection'
  BY <1>1, <1>2, <1>3 DEF SingleConnection, InUse, Dialling
<1>6. WriterHasReader' /\ NoForgottenLink'
  BY <1>2 DEF ReadLoopEnds, WriterHasReader, NoForgottenLink
<1>7. SleeperSeesNoLink' /\ MainDialsAlone'
  BY <1>1, <1>2, <1>3 DEF SleeperSeesNoLink, MainDialsAlone, Callers
<1> QED
  BY <1>1, <1>4, <1>5, <1>6, <1>7 DEF IInv

\* stop() only runs once start() is done, so nothing of start() is under way.
LEMMA StopKeeps == ASSUME IInv, Stop PROVE IInv'
<1>1. TypeOK'
  BY DEF Stop, IInv, TypeOK, LinkStates
<1>2. SingleConnection'
  BY LinkAssumption DEF Stop, IInv, TypeOK, SingleConnection, WriterHasReader, InUse, Dialling
<1>3. WriterHasReader' /\ NoForgottenLink'
  BY DEF Stop, IInv, TypeOK, WriterHasReader, NoForgottenLink
<1>4. OneReconnectTask' /\ SleeperSeesNoLink' /\ MainDialsAlone'
  BY DEF Stop, IInv, TypeOK, OneReconnectTask, SleeperSeesNoLink, MainDialsAlone
<1> QED
  BY <1>1, <1>2, <1>3, <1>4 DEF IInv

-----------------------------------------------------------------------------
THEOREM InvStep == IInv /\ [Next]_vars => IInv'
<1> SUFFICES ASSUME IInv, [Next]_vars PROVE IInv'
  OBVIOUS
<1>1. CASE \E c \in Callers : DialSucceeds(c) \/ DialIsReset(c)
  BY <1>1, DialSucceedsKeeps, DialIsResetKeeps
<1>2. CASE \E c \in Callers : DialFails(c) \/ QueriesSent(c)
  BY <1>2, FinishingKeeps DEF DialFails, QueriesSent
<1>3. CASE \E c \in Callers : Query(c)
  BY <1>3, QueryKeeps
<1>4. CASE Settle
  <2>1. TypeOK'
    BY <1>4 DEF Settle, IInv, TypeOK, Phases
  <2>2. SingleConnection'
    BY <1>4 DEF Settle, IInv, TypeOK, SingleConnection, InUse, Dialling
  <2>3. WriterHasReader' /\ NoForgottenLink'
    BY <1>4 DEF Settle, IInv, WriterHasReader, NoForgottenLink
  <2>4. OneReconnectTask' /\ SleeperSeesNoLink' /\ MainDialsAlone'
    BY <1>4, TaskAssumption
    DEF Settle, IInv, TypeOK, OneReconnectTask, SleeperSeesNoLink, MainDialsAlone, Callers
  <2> QED
    BY <2>1, <2>2, <2>3, <2>4 DEF IInv
<1>5. CASE Send
  BY <1>5, SendKeeps
<1>6. CASE \E t \in Tasks : Reconnect(t)
  BY <1>6, ReconnectKeeps
<1>7. CASE \E l \in Links : PeerDrops(l) \/ Receive(l)
  BY <1>7, PeerDropsKeeps, ReceiveKeeps
<1>8. CASE \E l \in Links : ReadLoopEnds(l)
  BY <1>8, ReadLoopEndsKeeps
<1>9. CASE Stop
  BY <1>9, StopKeeps
<1>10. CASE UNCHANGED vars
  BY <1>10 DEF vars, IInv, TypeOK, SingleConnection, InUse, Dialling, WriterHasReader,
               NoForgottenLink, OneReconnectTask, SleeperSeesNoLink, MainDialsAlone
<1> QED
  BY <1>1, <1>2, <1>3, <1>4, <1>5, <1>6, <1>7, <1>8, <1>9, <1>10 DEF Next

THEOREM Invariance == Spec => []IInv
BY InvInit, InvStep, PTL DEF Spec

\* Every variable stays of its type (TypeOK).
THEOREM TypeCorrect == Spec => []TypeOK
<1>1. IInv => TypeOK
  BY DEF IInv
<1> QED
  BY <1>1, Invariance, PTL

\* At any time there is one connection to the AVR, or one attempt to open
\* one, or neither (the promise of class AVRConnection).
THEOREM OneConnection == Spec => []SingleConnection
<1>1. IInv => SingleConnection
  BY DEF IInv
<1> QED
  BY <1>1, Invariance, PTL

\* Commands are written to a connection that is being read, and a connection
\* nobody closed is the one they are written to.
THEOREM WriterAndReaderAgree == Spec => []WriterIsTheLink
<1>1. IInv => WriterIsTheLink
  BY DEF IInv, WriterIsTheLink
<1> QED
  BY <1>1, Invariance, PTL

\* _on_avr_disconnect is idempotent: _reconnect_task is the one reconnect task.
THEOREM ReconnectIsIdempotent == Spec => []OneReconnectTask
<1>1. IInv => OneReconnectTask
  BY DEF IInv
<1> QED
  BY <1>1, Invariance, PTL

\* No step but stop() takes a working connection away: the read loop that ends
\* is the one of the current link, so closing "the" writer closes its own.
THEOREM WorkingLinkKept == Spec => WorkingLinkIsKept
<1>1. ASSUME IInv, [Next]_vars, NEW l \in Links, writer = l, writer' # l, link[l] = "open"
      PROVE  stopped'
  <2>1. CASE \E c \in Callers : DialSucceeds(c) \/ DialIsReset(c)
    BY <2>1, <1>1, DialsAlone DEF DialSucceeds, DialIsReset
  <2>2. CASE \E k \in Links : ReadLoopEnds(k)
    BY <2>2, <1>1 DEF ReadLoopEnds, IInv, SingleConnection, InUse
  <2>3. CASE Stop
    BY <2>3 DEF Stop
  <2> QED
    BY <2>1, <2>2, <2>3, <1>1
    DEF Next, vars, DialFails, Query, QueriesSent, Settle, Send, Reconnect, PeerDrops, Receive
<1>2. IInv /\ [Next]_vars
        => [\A l \in Links : writer = l /\ writer' # l => link[l] # "open" \/ stopped']_vars
  BY <1>1
<1> QED
  BY <1>2, Invariance, PTL DEF Spec, WorkingLinkIsKept

-----------------------------------------------------------------------------
(***************************************************************************)
(* The connection implements SingleLink: each step dials, opens a socket,  *)
(* gives up, loses the socket, or is not seen from outside.                *)
(***************************************************************************)
LEMMA InitImplements == Init => Outside!Init
<1> SUFFICES ASSUME Init PROVE Outside!Init
  OBVIOUS
<1>1. InUse = {}
  BY DEF Init, InUse
<1>2. Dialling = {Main}
  BY DEF Init, Dialling, Callers
<1> QED
  BY <1>1, <1>2 DEF Outside!Init, Callers

\* A dialling coroutine leaves connect() with a link in use.
LEMMA OpeningImplements ==
  ASSUME IInv, IInv',
         NEW c \in Callers, phase[c] = "dialling",
         NEW l \in Links, NEW s \in {"open", "closing"}, link' = [link EXCEPT ![l] = s]
  PROVE  Outside!Open(l)
<1>1. \A k \in Links : link[k] = "unused"
  BY DialsAlone
<1>2. InUse = {} /\ Dialling # {}
  BY <1>1 DEF InUse, Dialling
<1>3. InUse' = {l}
  BY <1>1 DEF InUse, IInv, TypeOK
<1>4. Dialling' = {}
  BY <1>3 DEF IInv, SingleConnection
<1> QED
  BY <1>2, <1>3, <1>4 DEF Outside!Open

\* A dialling coroutine gives up.
LEMMA FailingImplements ==
  ASSUME IInv, NEW c \in Callers, DialFails(c)
  PROVE  Outside!GiveUp
<1>1. c \in Dialling /\ UNCHANGED InUse
  BY DEF DialFails, Dialling, InUse
<1>2. Dialling' = {}
  BY <1>1 DEF DialFails, Finish, Dialling, IInv, TypeOK, SingleConnection
<1> QED
  BY <1>1, <1>2 DEF Outside!GiveUp

\* A reconnect task wakes and dials.
LEMMA WakingImplements ==
  ASSUME IInv, IInv', NEW t \in Tasks, Reconnect(t)
  PROVE  Outside!Dial(t)
<1>1. \A l \in Links : link[l] = "unused"
  BY DEF Reconnect, IInv, TypeOK, SleeperSeesNoLink, LinkStates
<1>2. InUse = {} /\ InUse' = {}
  BY <1>1 DEF Reconnect, InUse
<1>3. t \in Callers /\ phase' = [phase EXCEPT ![t] = "dialling"]
  BY <1>1 DEF Reconnect, IsConnected, IInv, TypeOK, Callers
<1>4. Dialling' = {t}
  BY <1>3 DEF Dialling, IInv, TypeOK, SingleConnection
<1>5. Dialling = {}
  BY <1>3, <1>4 DEF Dialling, Reconnect, IInv, TypeOK
<1> QED
  BY <1>2, <1>4, <1>5 DEF Outside!Dial

\* A read loop ends; its link was the only one.
LEMMA EndingImplements ==
  ASSUME IInv, IInv', NEW l \in Links, ReadLoopEnds(l)
  PROVE  Outside!Lose
<1>1. l \in InUse /\ Dialling = {}
  BY DEF ReadLoopEnds, IInv, SingleConnection, InUse
<1>2. InUse' = {}
  BY LinkAssumption DEF ReadLoopEnds, IInv, TypeOK, SingleConnection, WriterHasReader, InUse
<1>3. \A d \in Callers : phase'[d] = phase[d] \/ phase'[d] = "sleeping"
  BY ScheduleReconnectKeeps DEF ReadLoopEnds
<1>4. Dialling' = {}
  BY <1>1, <1>3 DEF Dialling
<1> QED
  BY <1>1, <1>2, <1>4 DEF Outside!Lose

\* Sending changes neither what is in use nor who dials.
LEMMA SendingIsInside ==
  ASSUME IInv, Transmit
  PROVE  UNCHANGED <<InUse, Dialling>>
<1>1. CASE IsConnected /\ UNCHANGED <<link, phase, handle>>
  BY <1>1 DEF InUse, Dialling
<1>2. CASE IsConnected /\ link' = [link EXCEPT ![writer] = "closing"] /\ UNCHANGED phase
  BY <1>2 DEF IsConnected, InUse, Dialling, IInv, TypeOK
<1>3. CASE ScheduleReconnect /\ UNCHANGED link
  <2>1. \A d \in Callers : phase'[d] = phase[d] \/ (phase[d] = "idle" /\ phase'[d] = "sleeping")
    BY <1>3, ScheduleReconnectKeeps
  <2> QED
    BY <1>3, <2>1 DEF InUse, Dialling
<1> QED
  BY <1>1, <1>2, <1>3 DEF Transmit

LEMMA StepImplements == IInv /\ IInv' /\ [Next]_vars => [Outside!Next]_<<InUse, Dialling>>
<1> SUFFICES ASSUME IInv, IInv', [Next]_vars PROVE [Outside!Next]_<<InUse, Dialling>>
  OBVIOUS
<1>1. CASE \E c \in Callers : DialSucceeds(c) \/ DialIsReset(c)
  <2>1. PICK c \in Callers : DialSucceeds(c) \/ DialIsReset(c)
    BY <1>1
  <2>2. PICK l \in Links, s \in {"open", "closing"} : link' = [link EXCEPT ![l] = s]
    BY <2>1 DEF DialSucceeds, DialIsReset
  <2>3. phase[c] = "dialling"
    BY <2>1 DEF DialSucceeds, DialIsReset
  <2> QED
    BY <2>2, <2>3, OpeningImplements DEF Outside!Next
<1>2. CASE \E c \in Callers : DialFails(c)
  BY <1>2, FailingImplements DEF Outside!Next
<1>3. CASE \E t \in Tasks : Reconnect(t)
  BY <1>3, WakingImplements DEF Outside!Next, Callers
<1>4. CASE \E l \in Links : ReadLoopEnds(l)
  BY <1>4, EndingImplements DEF Outside!Next
<1>5. CASE Send \/ \E c \in Callers : Query(c)
  BY <1>5, SendingIsInside DEF Send, Query
<1>6. CASE Settle \/ \E c \in Callers : QueriesSent(c)
  BY <1>6 DEF Settle, QueriesSent, Finish, InUse, Dialling, IInv, TypeOK
<1>7. CASE Stop \/ \E l \in Links : PeerDrops(l) \/ Receive(l)
  <2>1. UNCHANGED Dialling
    BY <1>7 DEF Stop, PeerDrops, Receive, Dialling
  <2>2. UNCHANGED InUse
    BY <1>7, LinkAssumption DEF Stop, PeerDrops, Receive, InUse, IInv, TypeOK, WriterHasReader
  <2> QED
    BY <2>1, <2>2
<1>8. CASE UNCHANGED vars
  BY <1>8 DEF vars, InUse, Dialling
<1> QED
  BY <1>1, <1>2, <1>3, <1>4, <1>5, <1>6, <1>7, <1>8 DEF Next

\* Whatever start(), the reconnect tasks, the read loops, the senders and
\* stop() do, from outside the connection behaves as SingleLink.
THEOREM Implementation == Spec => ImplementsSingleLink
BY InitImplements, StepImplements, Invariance, PTL
DEF Spec, ImplementsSingleLink, Outside!Spec, Outside!linkVars
=============================================================================
