------------------------------ MODULE Framing ------------------------------
(***************************************************************************)
(* From segments of a TCP connection to lines and requests                 *)
(* (avr/telnet_utils.py; the data_received handlers of proxy/core.py,      *)
(* http/server.py and avr/discovery.py; avr/connection.py: _read_loop).    *)
(*                                                                         *)
(* A connection is of one kind for life.  Its peer sends bytes, which      *)
(* arrive in segments cut anywhere; every handler appends the segment to   *)
(* its buffer and takes out what is complete.  Bytes are classes:          *)
(*   telnet  "x" a capital letter, "?", " ", "o" a control character such  *)
(*           as the number of an option, "CR", "LF", "IAC", "NEG" (WILL,   *)
(*           WONT, DO, DONT), "SB", "SE"                                   *)
(*   HTTP    "GET" or "POST" the head up to its last character, "nl" the   *)
(*           two characters of a line end, "left" and "right" the halves   *)
(*           of a JSON body                                                *)
(***************************************************************************)
EXTENDS Integers, SequencesExt, FiniteSetsExt

CONSTANTS
  TelnetBytes,  \* what telnet peers send
  MaxBytes      \* bound on what they send

ASSUME BoundAssumption == MaxBytes \in Nat

VARIABLES
  kind,    \* "avr", "client", "api" or "description"
  got,     \* all that has arrived
  buffer,  \* _buffer
  out      \* lines handed on, or requests answered

vars == <<kind, got, buffer, out>>

Init == /\ kind \in {"avr", "client", "api", "description"}
        /\ got = <<>> /\ buffer = <<>> /\ out = <<>>

LineEnds == {"CR", "LF"}

From(s, i) == SubSeq(s, i, Len(s))

-----------------------------------------------------------------------------
\* A plausible slip: three bytes are skipped whatever the third one is.
StrippedOfThree(line) ==
  LET n == Len(line)
      rest[i \in 1..n + 3] ==
        IF i > n THEN <<>>
        ELSE IF line[i] # "IAC" THEN <<line[i]>> \o rest[i + 1] ELSE rest[i + 3]
  IN  rest[1]

\* What is kept of the bytes at i: of a command that IAC introduces, only the
\* second IAC of two.
KeptAt(line, i) ==
  IF line[i] # "IAC" THEN <<line[i]>>
  ELSE IF i < Len(line) /\ line[i + 1] = "IAC" THEN <<"IAC">>
  ELSE <<>>

\* Where the next bytes begin.  After a negotiation, a capital letter is no
\* option.
NextAt(line, i) ==
  LET n == Len(line)
      ends == {j \in i + 2..n - 1 : line[j] = "IAC" /\ line[j + 1] = "SE"}
  IN  IF line[i] # "IAC" THEN i + 1
      ELSE IF i = n THEN n + 1
      ELSE CASE line[i + 1] = "NEG" -> IF i + 2 <= n /\ line[i + 2] # "x" THEN i + 3 ELSE i + 2
             [] line[i + 1] = "SB" -> IF ends = {} THEN n + 1 ELSE Min(ends) + 2
             [] OTHER -> i + 2

\* _strip_telnet_sequences: the bytes of a line without the commands that IAC
\* introduces.
Stripped(line) ==
  LET n == Len(line)
      rest[i \in 1..n + 1] == IF i > n THEN <<>> ELSE KeptAt(line, i) \o rest[NextAt(line, i)]
  IN  rest[1]

\* str.strip.
Trimmed(s) ==
  LET ink == {i \in DOMAIN s : s[i] # " "}
  IN  IF ink = {} THEN <<>> ELSE SubSeq(s, Min(ink), Max(ink))

\* A line as a command: none if it is no UTF-8 text, or empty.
Decoded(line) ==
  LET text == Trimmed(Stripped(line))
  IN  IF text = <<>> \/ \E i \in DOMAIN text : text[i] \in {"IAC", "NEG", "SB", "SE"}
      THEN <<>> ELSE <<text>>

\* parse_telnet_lines, of the buffer with the new segment: what begins at i is
\* a line and what follows it, or the rest.
ParseTelnetLines(bytes) ==
  LET n == Len(bytes)
      Ends(i) == {j \in i..n : bytes[j] \in LineEnds}
      parsed[i \in 1..n + 1] ==
        IF Ends(i) = {} THEN [lines |-> <<>>, rest |-> From(bytes, i)]
        ELSE LET after == parsed[Min(Ends(i)) + 1]
             IN  [lines |-> Decoded(SubSeq(bytes, i, Min(Ends(i)) - 1)) \o after.lines,
                  rest |-> after.rest]
  IN  parsed[1]

\* The read loop ignores lines with "?" after the second character; of what
\* clients send, _is_valid_client_command refuses single characters and
\* control characters.
HandedOn(line) ==
  IF kind = "avr" THEN \A i \in 3..Len(line) : line[i] # "?"
  ELSE Len(line) >= 2 /\ \A i \in DOMAIN line : line[i] # "o"

\* The loops over the lines.
Accepted(lines) ==
  LET upTo[n \in 0..Len(lines)] ==
        IF n = 0 THEN <<>>
        ELSE IF HandedOn(lines[n]) THEN Append(upTo[n - 1], lines[n]) ELSE upTo[n - 1]
  IN  upTo[Len(lines)]

\* A plausible slip: the rest of an unfinished line is dropped.
DataWithoutRest(segment) ==
  LET parsed == ParseTelnetLines(buffer \o segment)
  IN  /\ out' = out \o Accepted(parsed.lines)
      /\ buffer' = <<>>

\* A segment of the AVR or of a telnet client.
TelnetData(segment) ==
  LET parsed == ParseTelnetLines(buffer \o segment)
  IN  /\ out' = out \o Accepted(parsed.lines)
      /\ buffer' = parsed.rest

-----------------------------------------------------------------------------
\* Where the head ends.
HeadEnds(bytes) == {i \in 2..Len(bytes) : bytes[i] = "nl" /\ bytes[i - 1] = "nl"}

\* parse_http_request and parse_command_request: a POST is a command if its
\* body is JSON.
Answered(bytes) ==
  IF bytes[1] = "GET" THEN "page"
  ELSE IF From(bytes, Min(HeadEnds(bytes)) + 1) = <<"left", "right">> THEN "command"
  ELSE "refused"

\* A plausible slip: the beginning of a head is dropped.
ApiDataWithoutRest(segment) ==
  LET bytes == buffer \o segment
  IN  IF HeadEnds(bytes) = {} THEN buffer' = <<>> /\ out' = out
      ELSE buffer' = <<>> /\ out' = Append(out, Answered(bytes))

\* A segment for the HTTP server: once the head is complete, what has arrived
\* is the request; the connection is closed.
ApiData(segment) ==
  LET bytes == buffer \o segment
  IN  IF HeadEnds(bytes) = {} THEN buffer' = bytes /\ out' = out
      ELSE buffer' = <<>> /\ out' = Append(out, Answered(bytes))

\* A plausible slip: Content-Length is not looked at.
NoLength(bytes) == 0

\* Content-Length.
ContentLength(bytes) == IF bytes[1] = "POST" THEN 2 ELSE 0

\* A segment for the server of the device description: it waits for the body.
DescriptionData(segment) ==
  LET bytes == buffer \o segment
  IN  /\ buffer' = bytes
      /\ out' = IF HeadEnds(bytes) # {} /\ Len(bytes) >= Min(HeadEnds(bytes)) + ContentLength(bytes)
                THEN Append(out, Answered(bytes)) ELSE out

-----------------------------------------------------------------------------
Requests == {<<"GET", "nl", "nl">>, <<"POST", "nl", "nl", "left", "right">>}

Segments == UNION {[1..n -> TelnetBytes] : n \in 1..MaxBytes - Len(got)}

Arrives(segment) == got' = got \o segment /\ UNCHANGED kind

Telnet == /\ kind \in {"avr", "client"}
          /\ \E segment \in Segments : TelnetData(segment) /\ Arrives(segment)

\* An answered request has closed its connection.
Http == /\ kind \in {"api", "description"} /\ out = <<>>
        /\ \E request \in Requests :
             /\ IsPrefix(got, request)
             /\ \E n \in Len(got) + 1..Len(request) :
                  LET segment == SubSeq(request, Len(got) + 1, n)
                  IN  /\ IF kind = "api" THEN ApiData(segment) ELSE DescriptionData(segment)
                      /\ Arrives(segment)

Next == Telnet \/ Http

Spec == Init /\ [][Next]_vars

-----------------------------------------------------------------------------
(***************************************************************************)
(* Properties                                                              *)
(***************************************************************************)

\* The lines of the bytes that have arrived, and the line that has only begun,
\* byte by byte: a reference that knows nothing of segments.
Scanned(bytes) ==
  LET upTo[n \in 0..Len(bytes)] ==
        IF n = 0 THEN [lines |-> <<>>, begun |-> <<>>]
        ELSE LET before == upTo[n - 1]
             IN  IF bytes[n] \in LineEnds
                 THEN [lines |-> before.lines \o Decoded(before.begun), begun |-> <<>>]
                 ELSE [lines |-> before.lines, begun |-> Append(before.begun, bytes[n])]
  IN  upTo[Len(bytes)]

\* However the network cuts the bytes, the same lines are handed on, in
\* order, each as soon as its end has arrived; a negotiation or a line that
\* is cut in two loses nothing.
CutsDoNotMatter ==
  kind \in {"avr", "client"} =>
    /\ out = Accepted(Scanned(got).lines)
    /\ buffer = Scanned(got).begun

\* How many capital letters there are.
Letters(s) == Cardinality({i \in DOMAIN s : s[i] = "x"})

\* A negotiation is removed and the command after it is not: "if the third
\* byte is A-Z, it is almost certainly the start of a Denon command"
\* (avr/telnet_utils.py).  Whatever is sent before a command, its letters
\* arrive, unless they stand in a subnegotiation or right after IAC.
CommandsSurviveNegotiation ==
  kind \in {"avr", "client"} =>
    \A n \in DOMAIN got :
      LET line == SubSeq(got, 1, n)
      IN  (\A i \in DOMAIN line : /\ line[i] # "SB"
                                  /\ line[i] = "x" /\ i > 1 => line[i - 1] # "IAC")
             => Letters(Stripped(line)) = Letters(line)

\* A request for the device description or an AppCommand is answered when and
\* only when all of it has arrived, and as what it is.
WholeRequestIsAnswered ==
  kind = "description" =>
    /\ got \in Requests <=> out # <<>>
    /\ out # <<>> => out = <<IF got[1] = "GET" THEN "page" ELSE "command">>

\* The HTTP server takes what has arrived with the end of the head for the
\* whole request, and nothing is read after that.  If it is the whole request,
\* a command is carried out and a page delivered, wherever the head was cut.
CommandWithHeadIsSent ==
  kind = "api" /\ got \in Requests =>
    out = <<IF got[1] = "GET" THEN "page" ELSE "command">>

-----------------------------------------------------------------------------
(***************************************************************************)
(* What documentation says, and the code does not do                       *)
(***************************************************************************)

\* "POST /api/command - Send a Telnet command" (docs/API.md): it is sent,
\* wherever the network cuts the request.
PostedCommandIsSent ==
  kind = "api" /\ out # <<>> /\ got[1] = "POST" => out = <<"command">>
=============================================================================
