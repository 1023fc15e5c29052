----------------------------- MODULE SingleLink -----------------------------
(***************************************************************************)
(* What the connection layer promises the rest of the proxy: "a single     *)
(* Telnet connection to a physical Denon AVR" (class AVRConnection).       *)
(* Seen from outside there is a set of sockets in use, never more than     *)
(* one, and a set of coroutines that are opening one, never more than one  *)
(* and never while a socket is in use.                                     *)
(***************************************************************************)
CONSTANTS Sockets,    \* identities of TCP connections
          Dialers     \* coroutines that may call AVRConnection.connect()

VARIABLES live,       \* sockets in use
          dialling    \* coroutines waiting for a connection to be opened

linkVars == <<live, dialling>>

\* The server starts by dialling.
Init == /\ live = {}
        /\ \E d \in Dialers : dialling = {d}

Dial(d) == /\ live = {} /\ dialling = {}
           /\ dialling' = {d}
           /\ UNCHANGED live

Open(s) == /\ live = {} /\ dialling # {}
           /\ live' = {s}
           /\ dialling' = {}

GiveUp == /\ dialling # {}
          /\ dialling' = {}
          /\ UNCHANGED live

Lose == /\ live # {}
        /\ live' = {}
        /\ UNCHANGED dialling

Next == \/ \E d \in Dialers : Dial(d)
        \/ \E s \in Sockets : Open(s)
        \/ GiveUp
        \/ Lose

Spec == Init /\ [][Next]_linkVars
=============================================================================
