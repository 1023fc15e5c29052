------------------------- MODULE UnansweredTracker -------------------------
(***************************************************************************)
(* Which queries the AVR does not answer (avr/unanswered_tracker.py,       *)
(* class UnansweredCommandTracker), with what feeds it: send_command,      *)
(* which notes each query it has sent, the read loop, which hands over     *)
(* each line of the AVR, and the handler of a lost connection.             *)
(*                                                                         *)
(* Each query waits in a task of its own.  The AVR answers the queries it  *)
(* knows in the order it gets them; it ignores the others and also sends   *)
(* lines nobody asked for.  A query and a line are sequences of parts:     *)
(* MSSMART2 is <<"MS", "SMART", "2">>; "starts with" is IsPrefix.          *)
(***************************************************************************)
EXTENDS Naturals, Sequences, FiniteSets, SequencesExt

CONSTANTS
  Stems,          \* what the queries ask for: a query is its stem and "?"
  SuppressAfter,  \* timeouts until a query is suppressed
  MaxQueries,     \* bound on the queries sent
  MaxTurns,       \* bound on the lines the AVR sends unasked
  MaxLosses       \* bound on the losses of the connection

ASSUME SuppressAfterAssumption == SuppressAfter \in Nat /\ SuppressAfter >= 1
ASSUME CountsAssumption == MaxQueries \in Nat /\ MaxTurns \in Nat /\ MaxLosses \in Nat

VARIABLES
  pending,     \* _pending: the queries waiting for an answer
  timer,       \* what the waiter task of each query is doing
  unanswered,  \* _unanswered: how often each query has timed out
  suppressed,  \* _suppressed
  answers,     \* external: the queries the AVR answers
  toAvr,       \* queries under way to the AVR
  fromAvr,     \* lines under way from the AVR, each with the query it answers
  connected,   \* the connection is up
  late,        \* queries the AVR answers that have timed out nevertheless
  turns,       \* lines sent unasked so far
  losses       \* losses of the connection so far

trackerVars == <<pending, timer, unanswered, suppressed>>
avrVars     == <<answers, toAvr, fromAvr, connected, turns, losses>>
vars        == <<trackerVars, avrVars, late>>

Uids == 1..MaxQueries
Unasked == 0

\* The waiter sleeps, its sleep is over, or it is done with or cancelled.
Timers == {"unused", "sleeping", "due", "over"}

\* The line that tells the value of a stem.
LineOf(stem) == Append(stem, "value")

\* response_matches_command: MS does not stand for MSSMART, nor MV for MVMAX.
Matches(stem, line) ==
  /\ IsPrefix(IF IsPrefix(<<"MS", "SMART">>, stem) THEN <<"MS", "SMART">> ELSE stem, line)
  /\ stem = <<"MS">> => ~IsPrefix(<<"MS", "SMART">>, line)
  /\ stem = <<"MV">> => ~IsPrefix(<<"MV", "MAX">>, line)

\* The line that tells a value answers the query for it and no other one: so
\* with the queries the proxy itself sends, not with a client's M? beside MV?.
Unambiguous == \A k, l \in Stems : Matches(k, LineOf(l)) <=> k = l

Init ==
  /\ pending = <<>>
  /\ timer = [u \in Uids |-> "unused"]
  /\ unanswered = [k \in Stems |-> 0]
  /\ suppressed = {}
  /\ answers \in SUBSET Stems
  /\ toAvr = <<>> /\ fromAvr = <<>>
  /\ connected = TRUE
  /\ late = {}
  /\ turns = 0 /\ losses = 0

-----------------------------------------------------------------------------
\* note_sent, when send_command has written a query.  (Commands that are no
\* queries are not tracked.)
NoteSent(k) ==
  /\ connected
  /\ \E u \in Uids :
       /\ timer[u] = "unused" /\ \A w \in Uids : w < u => timer[w] # "unused"
       /\ timer' = [timer EXCEPT ![u] = "sleeping"]
       /\ pending' = Append(pending, [uid |-> u, key |-> k])
       /\ toAvr' = Append(toAvr, [uid |-> u, key |-> k])
  /\ UNCHANGED <<unanswered, suppressed, answers, fromAvr, connected, late, turns, losses>>

\* A plausible slip: the entry is removed, its count stays.
ClearSuppressionOnly(k) ==
  /\ suppressed' = suppressed \ {k}
  /\ UNCHANGED unanswered

\* A plausible slip: an answer takes back one timeout.
ClearOne(k) ==
  /\ suppressed' = suppressed \ {k}
  /\ unanswered' = [unanswered EXCEPT ![k] = @ - 1]

\* The count of a query starts anew.
Clear(k) ==
  /\ suppressed' = suppressed \ {k}
  /\ unanswered' = [unanswered EXCEPT ![k] = 0]

\* A plausible slip: the list is searched from its end.
AnswerNewest(line, i) ==
  \E n \in DOMAIN pending :
    /\ Matches(pending[n].key, line)
    /\ \A m \in DOMAIN pending : Matches(pending[m].key, line) => m <= n
    /\ timer' = [timer EXCEPT ![pending[n].uid] = "over"]
    /\ pending' = RemoveAt(pending, n)
    /\ Clear(pending[n].key)

\* The line answers the first of the waiting queries it matches.
Answer(line, i) ==
  /\ timer' = [timer EXCEPT ![pending[i].uid] = "over"]
  /\ pending' = RemoveAt(pending, i)
  /\ Clear(pending[i].key)

\* _unsuppress_if_suppressed_key_matches: of the suppressed queries the line
\* matches, one with the longest stem is cleared.
Unsuppress(line) ==
  LET candidates == {k \in suppressed : Matches(k, line)}
  IN  /\ IF candidates = {}
         THEN UNCHANGED <<unanswered, suppressed>>
         ELSE \E k \in candidates : /\ \A c \in candidates : Len(c) <= Len(k)
                                    /\ Clear(k)
      /\ UNCHANGED <<pending, timer>>

\* on_response.
OnResponse ==
  /\ fromAvr # <<>>
  /\ fromAvr' = Tail(fromAvr)
  /\ LET line == Head(fromAvr).line
         matching == {i \in DOMAIN pending : Matches(pending[i].key, line)}
     IN  \/ \E i \in matching : /\ \A n \in matching : i <= n
                                /\ Answer(line, i)
         \/ /\ matching = {}
            /\ Unsuppress(line)
  /\ UNCHANGED <<answers, toAvr, connected, late, turns, losses>>

\* The sleep of a waiter is over: all sleep equally long.
TimerExpires(u) ==
  /\ timer[u] = "sleeping"
  /\ \A w \in Uids : w < u => timer[w] # "sleeping"
  /\ timer' = [timer EXCEPT ![u] = "due"]
  /\ UNCHANGED <<pending, unanswered, suppressed, avrVars, late>>

\* A query, or its answer, is still under way.
UnderWay(u) == \/ \E i \in DOMAIN toAvr : toAvr[i].uid = u
               \/ \E i \in DOMAIN fromAvr : fromAvr[i].uid = u

\* _bump.
Bump(k) ==
  /\ unanswered' = [unanswered EXCEPT ![k] = @ + 1]
  /\ suppressed' = IF unanswered'[k] >= SuppressAfter THEN suppressed \cup {k} ELSE suppressed

\* _complete_timeout: the query is counted, if it is still waited for.
CompleteTimeout(u) ==
  /\ timer[u] = "due" /\ \A w \in Uids : w < u => timer[w] # "due"
  /\ timer' = [timer EXCEPT ![u] = "over"]
  /\ \/ \E i \in DOMAIN pending :
          /\ pending[i].uid = u
          /\ pending' = RemoveAt(pending, i)
          /\ Bump(pending[i].key)
          /\ late' = IF UnderWay(u) /\ pending[i].key \in answers
                     THEN late \cup {pending[i].key} ELSE late
     \/ /\ \A i \in DOMAIN pending : pending[i].uid # u
        /\ UNCHANGED <<pending, unanswered, suppressed, late>>
  /\ UNCHANGED avrVars

\* A plausible slip: the list is cleared, the waiters go on.
ForgetAllPending ==
  /\ pending' = <<>>
  /\ UNCHANGED timer

\* cancel_all_pending.
CancelAllPending ==
  /\ pending' = <<>>
  /\ timer' = [u \in Uids |-> IF \E i \in DOMAIN pending : pending[i].uid = u
                              THEN "over" ELSE timer[u]]

\* The connection is lost: nothing that was asked on it is counted.
Lose ==
  /\ connected /\ losses < MaxLosses
  /\ losses' = losses + 1
  /\ connected' = FALSE
  /\ toAvr' = <<>> /\ fromAvr' = <<>>
  /\ CancelAllPending
  /\ UNCHANGED <<unanswered, suppressed, answers, late, turns>>

Reconnect ==
  /\ ~connected
  /\ connected' = TRUE
  /\ UNCHANGED <<trackerVars, answers, toAvr, fromAvr, late, turns, losses>>

-----------------------------------------------------------------------------
\* External: the AVR takes the next query.
AvrExecutes ==
  /\ toAvr # <<>>
  /\ toAvr' = Tail(toAvr)
  /\ LET q == Head(toAvr)
     IN  fromAvr' = IF q.key \in answers
                    THEN Append(fromAvr, [uid |-> q.uid, line |-> LineOf(q.key)])
                    ELSE fromAvr
  /\ UNCHANGED <<trackerVars, answers, connected, late, turns, losses>>

\* External: the AVR reports a change nobody asked for.
AvrReports ==
  /\ connected /\ turns < MaxTurns
  /\ turns' = turns + 1
  /\ \E k \in Stems : fromAvr' = Append(fromAvr, [uid |-> Unasked, line |-> LineOf(k)])
  /\ UNCHANGED <<trackerVars, answers, toAvr, connected, late, losses>>

Next ==
  \/ \E k \in Stems : NoteSent(k)
  \/ OnResponse
  \/ \E u \in Uids : TimerExpires(u) \/ CompleteTimeout(u)
  \/ Lose
  \/ Reconnect
  \/ AvrExecutes
  \/ AvrReports

Spec == Init /\ [][Next]_vars

-----------------------------------------------------------------------------
(***************************************************************************)
(* Properties                                                              *)
(***************************************************************************)
Queries == [uid : Uids, key : Stems]

\* The type invariant.
TypeOK ==
  /\ pending \in Seq(Queries)
  /\ timer \in [Uids -> Timers]
  /\ unanswered \in [Stems -> 0..MaxQueries]
  /\ suppressed \subseteq Stems
  /\ answers \subseteq Stems
  /\ toAvr \in Seq(Queries)
  /\ \A i \in DOMAIN fromAvr : fromAvr[i].uid \in Uids \cup {Unasked}
  /\ connected \in BOOLEAN
  /\ late \subseteq answers
  /\ turns \in 0..MaxTurns /\ losses \in 0..MaxLosses

\* Every query that is waited for has a waiter that will end the wait, and no
\* waiter is left of one that has been answered or dropped with the
\* connection, even if its sleep was already over: it would count a query
\* that was never ignored.
PendingHasWaiter ==
  {u \in Uids : timer[u] \in {"sleeping", "due"}} = {pending[i].uid : i \in DOMAIN pending}

\* A query is suppressed exactly while it has timed out often enough since it
\* was last cleared, whichever way it was cleared.
SuppressedIffCounted ==
  \A k \in Stems : k \in suppressed <=> unanswered[k] >= SuppressAfter

\* A query the AVR answers in time is never counted as unanswered, whatever
\* other queries with similar names the AVR ignores, whatever it reports
\* unasked, and whenever the connection is lost.
AnsweredIsNotCounted ==
  \A k \in answers \ late : unanswered[k] = 0

=============================================================================
