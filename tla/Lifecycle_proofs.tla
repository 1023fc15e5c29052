-------------------------- MODULE Lifecycle_proofs --------------------------
(***************************************************************************)
(* Proofs about start and shutdown, for any set of settings.               *)
(*                                                                         *)
(* The invariant says, for each place of main_async, what is open there:   *)
(* nothing before its time, and of what has been closed nothing any more,  *)
(* because only start() lets a server listen and only a listening server   *)
(* accepts connections.                                                    *)
(***************************************************************************)
EXTENDS Lifecycle, TLAPS

\* Before anything was started nothing can be read, SSDP is silent until its
\* turn comes, and its socket is left only where a port is looked for.
NothingEarly ==
  /\ at = "sync" => /\ conn["http"] = "none" /\ listener["http"] = "off"
                    /\ name = "none" /\ resolved = "none"
  /\ at \in {"sync", "connect", "telnet", "http", "ssdp"} => ssdp = "off"
  /\ ssdp = "orphaned" => config.ssdp_http_port = 0

\* What is described is resolved, to what it would be resolved to again.
SourcesKept ==
  /\ resolved # "none" => resolved = ComputedSources
  /\ at = "desc" \/ listener["desc"] = "listening" => resolved # "none"

\* The same of the name.
NameKept == name # "none" => name = ComputedName

\* Where stop() has passed a server, it does not listen, and where Python
\* waits for connections, there are none.
Passed(s) == listener[s] # "listening" /\ (config.wait_closed => conn[s] = "none")

EndedInTime == at = "ended" /\ ~timedOut

ClosedInTurn ==
  /\ at \in {"closing", "stopTelnet", "stopHttp", "ended"} =>
       ssdp # "open" /\ \A s \in DescServers : listener[s] # "listening"
  /\ at \in {"stopTelnet", "stopHttp"} \/ EndedInTime =>
       listener["telnet"] # "listening" /\ \A s \in DescServers : Passed(s)
  /\ at = "stopHttp" \/ EndedInTime => listener["http"] # "listening" /\ Passed("telnet")
  /\ EndedInTime => avr = "closed"

\* A telnet client that stop() has not aborted is the straggler.
OnlyStragglers == at = "stopTelnet" /\ conn["telnet"] \in {"attached", "made"} => straggler

TimedOutEnds == timedOut => at = "ended"

Inv ==
  /\ TypeOK
  /\ NothingEarly
  /\ SourcesKept
  /\ NameKept
  /\ ClosedInTurn
  /\ OnlyStragglers
  /\ TimedOutEnds
  /\ OnlyTheseHang
  /\ AdvertisedIsServed

-----------------------------------------------------------------------------
\* Every step keeps the types.
LEMMA TypeStep ==
  ASSUME TypeOK, [Next]_vars
  PROVE  TypeOK'
  <1> USE DEF TypeOK, Servers, DescServers, Extras, netVars, nameVars, endVars
  <1>1. CASE Sync
    BY <1>1 DEF Sync
  <1>2. CASE Connect
    BY <1>2 DEF Connect
  <1>3. CASE ListenTelnet
    BY <1>3 DEF ListenTelnet, Listens
  <1>4. CASE ListenHttp
    BY <1>4 DEF ListenHttp, Listens
  <1>5. CASE OpenSsdp
    BY <1>5 DEF OpenSsdp, ReadName, ComputedName
  <1>6. CASE Describe
    BY <1>6 DEF Describe, ReadName, ResolveSources, ComputedName, ComputedSources
  <1>7. CASE ListenDesc
    BY <1>7 DEF ListenDesc, Listens
  <1>8. CASE \E s \in Extras : ListenExtra(s)
    BY <1>8 DEF ListenExtra, Listens
  <1>9. CASE Signal
    BY <1>9 DEF Signal
  <1>10. CASE BeginShutdown
    BY <1>10 DEF BeginShutdown, ClosedAll
  <1>11. CASE StopTelnet
    BY <1>11 DEF StopTelnet, ClosedAll, Quiet
  <1>12. CASE StopHttp
    BY <1>12 DEF StopHttp, ClosedAll, Quiet
  <1>13. CASE StopAvr
    BY <1>13 DEF StopAvr, Quiet
  <1>14. CASE Timeout
    BY <1>14 DEF Timeout, Quiet
  <1>15. CASE \E s \in Servers : Accept(s)
    BY <1>15 DEF Accept, Alive
  <1>16. CASE \E s \in Servers : ConnectionMade(s)
    BY <1>16 DEF ConnectionMade, Alive
  <1>17. CASE \E s \in Servers : ConnectionLost(s)
    BY <1>17 DEF ConnectionLost, Alive
  <1>18. CASE ReadStatus
    BY <1>18 DEF ReadStatus, ReadName, Alive, ComputedName
  <1>19. CASE AvrChanges
    BY <1>19 DEF AvrChanges, Alive
  <1>20. CASE UNCHANGED vars
    BY <1>20 DEF vars
  <1> QED
    BY <1>1, <1>2, <1>3, <1>4, <1>5, <1>6, <1>7, <1>8, <1>9, <1>10, <1>11, <1>12, <1>13, <1>14,
       <1>15, <1>16, <1>17, <1>18, <1>19, <1>20 DEF Next, Main

\* What is not yet started stays so until its step.
LEMMA EarlyStep ==
  ASSUME TypeOK, NothingEarly, [Next]_vars
  PROVE  NothingEarly'
  <1> USE DEF TypeOK, NothingEarly, Servers, DescServers, Extras, netVars, nameVars, endVars
  <1>1. CASE Sync
    BY <1>1 DEF Sync
  <1>2. CASE OpenSsdp
    BY <1>2 DEF OpenSsdp, ReadName
  <1>3. CASE ReadStatus
    BY <1>3 DEF ReadStatus, ReadName, Alive
  <1>4. CASE Connect \/ ListenTelnet \/ ListenHttp \/ Describe \/ ListenDesc
    BY <1>4 DEF Connect, ListenTelnet, Listens, ListenHttp, Describe, ReadName, ResolveSources,
                ListenDesc
  <1>5. CASE (\E s \in Extras : ListenExtra(s)) \/ Signal \/ BeginShutdown \/ StopTelnet
             \/ StopHttp
    BY <1>5 DEF ListenExtra, Listens, Signal, BeginShutdown, ClosedAll, StopTelnet, Quiet,
                StopHttp
  <1>6. CASE StopAvr \/ Timeout \/ (\E s \in Servers : Accept(s))
             \/ (\E s \in Servers : ConnectionMade(s)) \/ (\E s \in Servers : ConnectionLost(s))
    BY <1>6 DEF StopAvr, Quiet, Timeout, Accept, Alive, ConnectionMade, ConnectionLost
  <1>7. CASE AvrChanges
    BY <1>7 DEF AvrChanges, Alive
  <1>8. CASE UNCHANGED vars
    BY <1>8 DEF vars
  <1> QED
    BY <1>1, <1>2, <1>3, <1>4, <1>5, <1>6, <1>7, <1>8 DEF Next, Main

\* The name and the sources are functions of the settings and of what the AVR
\* told, which only the first step changes.
LEMMA InfoIsFinal ==
  ASSUME [Next]_vars, ~Sync
  PROVE  /\ UNCHANGED <<config, info>>
         /\ ComputedSources' = ComputedSources
         /\ ComputedName' = ComputedName
  <1>1. UNCHANGED <<config, info>>
    BY DEF Next, Main, Connect, ListenTelnet, ListenHttp, OpenSsdp, Describe, ListenDesc, ListenExtra,
           Signal, BeginShutdown, StopTelnet, StopHttp, StopAvr, Timeout, Accept, ConnectionMade,
           ConnectionLost, ReadStatus, AvrChanges, vars, netVars, nameVars, endVars
  <1> QED
    BY <1>1 DEF ComputedSources, ComputedName

\* The sources are resolved once, before they are served.
LEMMA SourcesStep ==
  ASSUME TypeOK, NothingEarly, SourcesKept, [Next]_vars
  PROVE  SourcesKept'
  <1> USE DEF TypeOK, NothingEarly, SourcesKept, Servers, DescServers, Extras, netVars,
              nameVars, endVars
  <1>1. CASE Sync
    BY <1>1 DEF Sync
  <1>2. CASE ~Sync
    <2>0. ComputedSources' = ComputedSources /\ ComputedSources # "none"
      BY InfoIsFinal, <1>2 DEF ComputedSources
    <2>1. CASE Describe
      BY <2>0, <2>1 DEF Describe, ReadName, ResolveSources
    <2>2. CASE ListenDesc
      BY <2>0, <2>2 DEF ListenDesc, Listens
    <2>3. CASE Connect \/ ListenTelnet \/ ListenHttp \/ OpenSsdp
               \/ (\E s \in Extras : ListenExtra(s))
      BY <2>0, <2>3 DEF Connect, ListenTelnet, Listens, ListenHttp, OpenSsdp, ReadName, ListenExtra
    <2>4. CASE Signal \/ BeginShutdown \/ StopTelnet \/ StopHttp \/ StopAvr
      BY <2>0, <2>4 DEF Signal, BeginShutdown, ClosedAll, StopTelnet, Quiet, StopHttp, StopAvr
    <2>5. CASE Timeout \/ (\E s \in Servers : Accept(s)) \/ (\E s \in Servers : ConnectionMade(s))
               \/ (\E s \in Servers : ConnectionLost(s)) \/ ReadStatus
      BY <2>0, <2>5 DEF Timeout, Quiet, Accept, Alive, ConnectionMade, ConnectionLost, ReadStatus,
                  ReadName
    <2>6. CASE AvrChanges
      BY <2>0, <2>6 DEF AvrChanges, Alive
    <2>7. CASE UNCHANGED vars
      BY <2>0, <2>7 DEF vars
    <2> QED
      BY <1>2, <2>1, <2>2, <2>3, <2>4, <2>5, <2>6, <2>7 DEF Next, Main
  <1> QED
    BY <1>1, <1>2

\* Whoever reads the name first, it is the same.
LEMMA NameStep ==
  ASSUME TypeOK, NothingEarly, NameKept, [Next]_vars
  PROVE  NameKept'
  <1> USE DEF NothingEarly, NameKept, netVars, nameVars, endVars
  <1>1. CASE Sync
    BY <1>1 DEF Sync
  <1>2. CASE ~Sync
    <2>0. ComputedName' = ComputedName
      BY InfoIsFinal, <1>2
    <2>1. CASE OpenSsdp
      BY <2>0, <2>1 DEF OpenSsdp, ReadName
    <2>2. CASE Describe
      BY <2>0, <2>2 DEF Describe, ReadName, ResolveSources
    <2>3. CASE ReadStatus
      BY <2>0, <2>3 DEF ReadStatus, ReadName, Alive
    <2>4. CASE Connect \/ ListenTelnet \/ ListenHttp \/ ListenDesc
               \/ (\E s \in Extras : ListenExtra(s))
      BY <2>0, <2>4 DEF Connect, ListenTelnet, Listens, ListenHttp, ListenDesc, ListenExtra, Extras
    <2>5. CASE Signal \/ BeginShutdown \/ StopTelnet \/ StopHttp \/ StopAvr
      BY <2>0, <2>5 DEF Signal, BeginShutdown, ClosedAll, StopTelnet, Quiet, StopHttp, StopAvr
    <2>6. CASE Timeout \/ (\E s \in Servers : Accept(s)) \/ (\E s \in Servers : ConnectionMade(s))
               \/ (\E s \in Servers : ConnectionLost(s)) \/ AvrChanges
      BY <2>0, <2>6 DEF Timeout, Quiet, Accept, Alive, ConnectionMade, ConnectionLost, AvrChanges
    <2>7. CASE UNCHANGED vars
      BY <2>0, <2>7 DEF vars
    <2> QED
      BY <1>2, <2>1, <2>2, <2>3, <2>4, <2>5, <2>6, <2>7 DEF Next, Main
  <1> QED
    BY <1>1, <1>2

\* What stop() has passed stays closed.
LEMMA ClosedStep ==
  ASSUME TypeOK, TimedOutEnds, ClosedInTurn, [Next]_vars
  PROVE  ClosedInTurn'
  <1> USE DEF TypeOK, TimedOutEnds, ClosedInTurn, EndedInTime, Passed, Servers, DescServers,
              Extras, netVars, nameVars, endVars
  <1>1. CASE Sync
    BY <1>1 DEF Sync
  <1>2. CASE Connect
    BY <1>2 DEF Connect
  <1>3. CASE ListenTelnet
    BY <1>3 DEF ListenTelnet, Listens
  <1>4. CASE ListenHttp
    BY <1>4 DEF ListenHttp, Listens
  <1>5. CASE OpenSsdp
    BY <1>5 DEF OpenSsdp, ReadName
  <1>6. CASE Describe
    BY <1>6 DEF Describe, ReadName, ResolveSources
  <1>7. CASE ListenDesc
    BY <1>7 DEF ListenDesc, Listens
  <1>8. CASE \E s \in Extras : ListenExtra(s)
    BY <1>8 DEF ListenExtra, Listens
  <1>9. CASE Signal
    BY <1>9 DEF Signal
  <1>10. CASE BeginShutdown
    BY <1>10 DEF BeginShutdown, ClosedAll
  <1>11. CASE StopTelnet
    BY <1>11 DEF StopTelnet, ClosedAll, Quiet
  <1>12. CASE StopHttp
    BY <1>12 DEF StopHttp, ClosedAll, Quiet
  <1>13. CASE StopAvr
    BY <1>13 DEF StopAvr, Quiet
  <1>14. CASE Timeout
    BY <1>14 DEF Timeout, Quiet
  <1>15. CASE \E s \in Servers : Accept(s)
    BY <1>15 DEF Accept, Alive
  <1>16. CASE \E s \in Servers : ConnectionMade(s)
    BY <1>16 DEF ConnectionMade, Alive
  <1>17. CASE \E s \in Servers : ConnectionLost(s)
    BY <1>17 DEF ConnectionLost, Alive
  <1>18. CASE ReadStatus
    BY <1>18 DEF ReadStatus, ReadName, Alive
  <1>19. CASE AvrChanges
    BY <1>19 DEF AvrChanges, Alive
  <1>20. CASE UNCHANGED vars
    BY <1>20 DEF vars
  <1> QED
    BY <1>1, <1>2, <1>3, <1>4, <1>5, <1>6, <1>7, <1>8, <1>9, <1>10, <1>11, <1>12, <1>13, <1>14,
       <1>15, <1>16, <1>17, <1>18, <1>19, <1>20 DEF Next, Main

\* Only a client that was being accepted escapes the abort.
LEMMA StragglerStep ==
  ASSUME TypeOK, ClosedInTurn, OnlyStragglers, [Next]_vars
  PROVE  OnlyStragglers'
  <1> USE DEF TypeOK, ClosedInTurn, OnlyStragglers, Servers, DescServers, Extras, netVars,
              nameVars, endVars
  <1>1. CASE Signal
    BY <1>1 DEF Signal
  <1>2. CASE StopTelnet
    BY <1>2 DEF StopTelnet, ClosedAll, Quiet
  <1>3. CASE \E s \in Servers : Accept(s)
    BY <1>3 DEF Accept, Alive
  <1>4. CASE \E s \in Servers : ConnectionMade(s)
    BY <1>4 DEF ConnectionMade, Alive
  <1>5. CASE \E s \in Servers : ConnectionLost(s)
    BY <1>5 DEF ConnectionLost, Alive
  <1>6. CASE Sync \/ Connect \/ ListenTelnet \/ ListenHttp \/ OpenSsdp
    BY <1>6 DEF Sync, Connect, ListenTelnet, Listens, ListenHttp, OpenSsdp, ReadName
  <1>7. CASE Describe \/ ListenDesc \/ (\E s \in Extras : ListenExtra(s)) \/ BeginShutdown
             \/ StopHttp
    BY <1>7 DEF Describe, ReadName, ResolveSources, ListenDesc, Listens, ListenExtra,
                BeginShutdown, ClosedAll, StopHttp, Quiet
  <1>8. CASE StopAvr \/ Timeout \/ ReadStatus \/ AvrChanges
    BY <1>8 DEF StopAvr, Quiet, Timeout, ReadStatus, ReadName, Alive, AvrChanges
  <1>9. CASE UNCHANGED vars
    BY <1>9 DEF vars
  <1> QED
    BY <1>1, <1>2, <1>3, <1>4, <1>5, <1>6, <1>7, <1>8, <1>9 DEF Next, Main

\* After a timeout there is nothing but the end.
LEMMA EndsStep ==
  ASSUME TypeOK, TimedOutEnds, [Next]_vars
  PROVE  TimedOutEnds'
  <1> USE DEF TypeOK, TimedOutEnds, netVars, nameVars, endVars
  <1>1. CASE Signal
    BY <1>1 DEF Signal
  <1>2. CASE Timeout
    BY <1>2 DEF Timeout, Quiet
  <1>3. CASE Sync \/ Connect \/ ListenTelnet \/ ListenHttp \/ OpenSsdp
    BY <1>3 DEF Sync, Connect, ListenTelnet, Listens, ListenHttp, OpenSsdp, ReadName
  <1>4. CASE Describe \/ ListenDesc \/ (\E s \in Extras : ListenExtra(s)) \/ BeginShutdown
             \/ StopTelnet
    BY <1>4 DEF Describe, ReadName, ResolveSources, ListenDesc, Listens, ListenExtra, Extras,
                BeginShutdown, ClosedAll, StopTelnet, Quiet
  <1>5. CASE StopHttp \/ StopAvr \/ (\E s \in Servers : Accept(s))
             \/ (\E s \in Servers : ConnectionMade(s)) \/ (\E s \in Servers : ConnectionLost(s))
    BY <1>5 DEF StopHttp, ClosedAll, Quiet, StopAvr, Accept, Alive, ConnectionMade,
                ConnectionLost
  <1>6. CASE ReadStatus \/ AvrChanges
    BY <1>6 DEF ReadStatus, ReadName, Alive, AvrChanges
  <1>7. CASE UNCHANGED vars
    BY <1>7 DEF vars
  <1> QED
    BY <1>1, <1>2, <1>3, <1>4, <1>5, <1>6, <1>7 DEF Next, Main

\* A timeout names its culprit.
LEMMA HangStep ==
  ASSUME TypeOK, TimedOutEnds, OnlyStragglers, ClosedInTurn, OnlyTheseHang, [Next]_vars
  PROVE  OnlyTheseHang'
  <1> USE DEF TypeOK, TimedOutEnds, OnlyTheseHang, Servers, DescServers, Extras, netVars,
              nameVars, endVars
  <1>1. CASE Signal
    BY <1>1 DEF Signal
  <1>2. CASE StopTelnet
    BY <1>2 DEF StopTelnet, ClosedAll, Quiet
  <1>3. CASE Timeout
    BY <1>3 DEF Timeout, Quiet, OnlyStragglers
  <1>4. CASE \E s \in Servers : Accept(s)
    BY <1>4 DEF Accept, Alive
  <1>5. CASE \E s \in Servers : ConnectionMade(s)
    BY <1>5 DEF ConnectionMade, Alive
  <1>6. CASE \E s \in Servers : ConnectionLost(s)
    BY <1>6 DEF ConnectionLost, Alive
  <1>7. CASE Sync \/ Connect \/ ListenTelnet \/ ListenHttp \/ OpenSsdp
    BY <1>7 DEF Sync, Connect, ListenTelnet, Listens, ListenHttp, OpenSsdp, ReadName
  <1>8. CASE Describe \/ ListenDesc \/ (\E s \in Extras : ListenExtra(s)) \/ BeginShutdown
             \/ StopHttp
    BY <1>8 DEF Describe, ReadName, ResolveSources, ListenDesc, Listens, ListenExtra,
                BeginShutdown, ClosedAll, StopHttp, Quiet
  <1>9. CASE StopAvr \/ ReadStatus \/ AvrChanges
    BY <1>9 DEF StopAvr, Quiet, ReadStatus, ReadName, Alive, AvrChanges
  <1>10. CASE UNCHANGED vars
    BY <1>10 DEF vars
  <1> QED
    BY <1>1, <1>2, <1>3, <1>4, <1>5, <1>6, <1>7, <1>8, <1>9, <1>10 DEF Next, Main

\* SSDP is closed with the server it advertises.
LEMMA ServedStep ==
  ASSUME TypeOK, NothingEarly, AdvertisedIsServed, [Next]_vars
  PROVE  AdvertisedIsServed'
  <1> USE DEF TypeOK, NothingEarly, AdvertisedIsServed, Servers, DescServers, Extras, netVars,
              nameVars, endVars
  <1>1. CASE ListenHttp
    BY <1>1 DEF ListenHttp, Listens
  <1>2. CASE ListenDesc
    BY <1>2 DEF ListenDesc, Listens
  <1>3. CASE \E s \in Extras : ListenExtra(s)
    BY <1>3 DEF ListenExtra, Listens
  <1>4. CASE Signal
    BY <1>4 DEF Signal
  <1>5. CASE Sync \/ Connect \/ ListenTelnet \/ OpenSsdp \/ Describe
    BY <1>5 DEF Sync, Connect, ListenTelnet, Listens, OpenSsdp, ReadName, Describe,
                ResolveSources
  <1>6. CASE BeginShutdown \/ StopTelnet \/ StopHttp \/ StopAvr \/ Timeout
    BY <1>6 DEF BeginShutdown, ClosedAll, StopTelnet, Quiet, StopHttp, StopAvr, Timeout
  <1>7. CASE (\E s \in Servers : Accept(s)) \/ (\E s \in Servers : ConnectionMade(s))
             \/ (\E s \in Servers : ConnectionLost(s)) \/ ReadStatus \/ AvrChanges
    BY <1>7 DEF Accept, Alive, ConnectionMade, ConnectionLost, ReadStatus, ReadName, AvrChanges
  <1>8. CASE UNCHANGED vars
    BY <1>8 DEF vars
  <1> QED
    BY <1>1, <1>2, <1>3, <1>4, <1>5, <1>6, <1>7, <1>8 DEF Next, Main

-----------------------------------------------------------------------------
LEMMA InitInv == Init => Inv
  <1> SUFFICES ASSUME Init PROVE Inv
    OBVIOUS
  <1>1. TypeOK
    BY DEF Init, TypeOK
  <1>2. NothingEarly /\ SourcesKept /\ NameKept
    BY DEF Init, NothingEarly, SourcesKept, NameKept, Servers
  <1>3. ClosedInTurn /\ OnlyStragglers /\ TimedOutEnds
    BY DEF Init, ClosedInTurn, EndedInTime, OnlyStragglers, TimedOutEnds
  <1>4. OnlyTheseHang /\ AdvertisedIsServed
    BY DEF Init, OnlyTheseHang, AdvertisedIsServed
  <1> QED
    BY <1>1, <1>2, <1>3, <1>4 DEF Inv

LEMMA InvStep == Inv /\ [Next]_vars => Inv'
  <1> SUFFICES ASSUME Inv, [Next]_vars PROVE Inv'
    OBVIOUS
  <1> USE DEF Inv
  <1>1. TypeOK'
    BY TypeStep
  <1>2. NothingEarly'
    BY EarlyStep
  <1>3. SourcesKept' /\ NameKept'
    BY SourcesStep, NameStep
  <1>4. ClosedInTurn' /\ OnlyStragglers' /\ TimedOutEnds'
    BY ClosedStep, StragglerStep, EndsStep
  <1>5. OnlyTheseHang' /\ AdvertisedIsServed'
    BY HangStep, ServedStep
  <1> QED
    BY <1>1, <1>2, <1>3, <1>4, <1>5

LEMMA Invariance == Spec => []Inv
  BY InitInv, InvStep, PTL DEF Spec

\* The variables of main_async and of its servers keep their types.
THEOREM TypeCorrect == Spec => []TypeOK
  <1>1. Inv => TypeOK
    BY DEF Inv
  <1> QED
    BY <1>1, Invariance, PTL

\* A shutdown that main_async does not give up closes everything.
THEOREM ShutdownIsComplete == Spec => []NothingIsLeft
  <1>1. Inv => NothingIsLeft
    <2> SUFFICES ASSUME Inv, EndedInTime PROVE NothingIsLeft
      BY DEF NothingIsLeft, EndedInTime
    <2>1. ssdp # "open" /\ avr = "closed" /\ \A s \in Servers : listener[s] # "listening"
      BY DEF Inv, ClosedInTurn, EndedInTime, Servers, DescServers, Extras
    <2>2. \A s \in {"telnet"} \cup DescServers : Passed(s)
      BY DEF Inv, ClosedInTurn
    <2> QED
      BY <2>1, <2>2 DEF NothingIsLeft, Passed
  <1> QED
    BY <1>1, Invariance, PTL

\* Only clients of the HTTP servers, and a telnet client that is just being
\* accepted, make the shutdown time out.
THEOREM TelnetClientsDoNotHang == Spec => []OnlyTheseHang
  <1>1. Inv => OnlyTheseHang
    BY DEF Inv
  <1> QED
    BY <1>1, Invariance, PTL

\* What SSDP advertises is served, whichever ports could be opened.
THEOREM AdvertisedServed == Spec => []AdvertisedIsServed
  <1>1. Inv => AdvertisedIsServed
    BY DEF Inv
  <1> QED
    BY <1>1, Invariance, PTL

\* The proxy has one name and one list of sources, whoever asks first.
THEOREM OneIdentity == Spec => []IdentityAgrees
  <1>1. Inv => IdentityAgrees
    BY DEF Inv, SourcesKept, NameKept, IdentityAgrees, ApiSources
  <1> QED
    BY <1>1, Invariance, PTL
=============================================================================
