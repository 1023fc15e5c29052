------------------------------ MODULE AVRState ------------------------------
(***************************************************************************)
(* What telnet lines mean (avr/state.py: AVRState) and the virtual AVR     *)
(* that answers with them (avr/connection.py: VirtualAVRConnection).       *)
(*                                                                         *)
(* The volume is that of Volume; the other fields are in others.  A line   *)
(* or command is a record of what it is about and its parameter; a query   *)
(* has the key "?" and what it asks for.  mirror is what a telnet client   *)
(* makes of the lines it is sent.  A handler is one step here: how sends,  *)
(* delays and lines interleave is the subject of ProxyCore.                *)
(***************************************************************************)
EXTENDS Volume, Sequences

CONSTANTS
  Powers,   \* values of PW; "ON", "STANDBY" and denonavr's "OFF" among them
  Inputs,   \* input sources
  Modes,    \* sound modes; "SMART" is what MSSMART without a slot sets
  Slots,    \* Smart Select slots
  Levels,   \* volumes in tenths of a decibel that denonavr reports
  None,     \* a field that is not known
  Bad       \* a slot that is no number

ASSUME PowersAssumption == {"ON", "STANDBY", "OFF"} \subseteq Powers
ASSUME SlotsAssumption == Bad \notin Slots /\ None \notin Slots \cup Modes
ASSUME SourcesAssumption == Inputs # {} /\ Modes # {}
ASSUME LevelsAssumption == Levels \subseteq Int

VARIABLES
  config,  \* whether there is an avr_host, and optimistic_state
  others,  \* the fields of AVRState that are not about the volume
  client,  \* whether a telnet client is connected
  mirror   \* what it makes of what it was sent

stateVars == <<volume, limit, config, others, client, mirror>>

Fields == {"power", "input_source", "mute", "sound_mode", "smart_select"}

\* The AVRState as one record.
State == [others EXCEPT !.volume = volume, !.volume_max = limit]

Become(s) == volume' = s.volume /\ limit' = s.volume_max
             /\ others' = [s EXCEPT !.volume = None, !.volume_max = None]

-----------------------------------------------------------------------------
Line(key, arg) == [key |-> key, arg |-> arg]

Prefixes == {"PW", "ZM", "MV", "MU", "SI", "MS"}

Queries == {Line("?", prefix) : prefix \in Prefixes}

\* What only the AVR sends, what only clients send, and both.
Limiting == {Line("MVMAX", text) : text \in Limits}
Stepping == {Line("MVUP", None), Line("MVDOWN", None)}
Setting == {Line("PW", power) : power \in Powers}
           \cup {Line("ZM", on) : on \in {"ON", "OFF"}}
           \cup {Line("MV", text) : text \in Reported}
           \cup {Line("MU", on) : on \in {"ON", "OFF"}}
           \cup {Line("SI", input) : input \in Inputs}
           \cup {Line("MSSMART", slot) : slot \in Slots \cup {Bad}}
           \cup {Line("MS", mode) : mode \in Modes}

\* The first two letters.
Prefix(line) == CASE line.key = "?" -> line.arg
                  [] line.key \in {"MVUP", "MVDOWN", "MVMAX"} -> "MV"
                  [] line.key = "MSSMART" -> "MS"
                  [] OTHER -> line.key

\* _normalize_smart_select.
NormalizeSmartSelect(slot) == IF slot = Bad THEN None ELSE slot

\* What update_from_message and apply_command have in common.
Assigned(s, line) ==
  CASE line.key = "PW" -> [s EXCEPT !.power = line.arg]
    [] line.key = "ZM" -> [s EXCEPT !.power = IF line.arg = "ON" THEN "ON" ELSE "STANDBY"]
    [] line.key = "MV" -> [s EXCEPT !.volume = line.arg]
    [] line.key = "MU" -> [s EXCEPT !.mute = line.arg = "ON"]
    [] line.key = "SI" -> [s EXCEPT !.input_source = line.arg]
    [] line.key = "MSSMART" -> [s EXCEPT !.smart_select = NormalizeSmartSelect(line.arg)]
    [] line.key = "MS" -> [s EXCEPT !.sound_mode = line.arg]
    [] OTHER -> s

\* update_from_message.
Updated(s, line) ==
  IF line.key = "MVMAX" THEN [s EXCEPT !.volume_max = DigitsToLevel(line.arg)]
  ELSE Assigned(s, line)

\* apply_command.
Applied(s, line) ==
  LET level == VolumeToLevel(s.volume, s.volume_max)
      To(tenths) == [s EXCEPT !.volume = FormatVolume(tenths, s.volume_max)]
  IN  CASE line.key = "MVUP" -> To(Least(s.volume_max, level + Step))
        [] line.key = "MVDOWN" -> To(Greatest(0, level - Step))
        [] OTHER -> Assigned(s, line)

\* Whether it returns True.
Applies(line) == line \in Stepping \cup Setting

\* A plausible slip: the main zone is off only in standby.
DumpByStandby(s) ==
  <<Line("PW", s.power), Line("ZM", IF s.power = "STANDBY" THEN "OFF" ELSE "ON"),
    Line("MV", s.volume), Line("SI", s.input_source), Line("MU", IF s.mute THEN "ON" ELSE "OFF")>>
  \o (IF s.sound_mode = None THEN <<>> ELSE <<Line("MS", s.sound_mode)>>)
  \o (IF s.smart_select = None THEN <<>> ELSE <<Line("MSSMART", s.smart_select)>>)

\* get_status_dump: no line for what is not known, and none for the limit.
Dump(s) ==
  <<Line("PW", s.power), Line("ZM", IF s.power = "ON" THEN "ON" ELSE "OFF"),
    Line("MV", s.volume), Line("SI", s.input_source), Line("MU", IF s.mute THEN "ON" ELSE "OFF")>>
  \o (IF s.sound_mode = None THEN <<>> ELSE <<Line("MS", s.sound_mode)>>)
  \o (IF s.smart_select = None THEN <<>> ELSE <<Line("MSSMART", s.smart_select)>>)

\* What one makes, in order, of those of the lines that are about one of these.
UpdatedBy(s, lines, prefixes) ==
  LET upTo[i \in 0..Len(lines)] ==
        IF i = 0 THEN s
        ELSE IF Prefix(lines[i]) \in prefixes THEN Updated(upTo[i - 1], lines[i])
        ELSE upTo[i - 1]
  IN  upTo[Len(lines)]

-----------------------------------------------------------------------------
Default == [power |-> "ON", volume |-> Str(DefaultLevel \div 10), volume_max |-> DefaultLimit,
            input_source |-> CHOOSE input \in Inputs : TRUE, mute |-> FALSE,
            sound_mode |-> CHOOSE mode \in Modes : TRUE, smart_select |-> None]

Unknown == [power |-> None, volume |-> NoNumber, volume_max |-> DefaultLimit,
            input_source |-> None, mute |-> None, sound_mode |-> None, smart_select |-> None]

\* A plausible slip: ten steps above the reference are forgotten.
LevelAboveReference(tenths) == Greatest(0, Least(90, (800 + 2 * tenths) \div 10))

\* The level denonavr's decibels stand for: whole steps, 0 to 98.
LevelOfDb(tenths) == Greatest(0, Least(98, (800 + 2 * tenths) \div 10))

\* apply_payload of state_and_config_updates_from_denonavr, whose sound mode
\* may be a slot.
Synced(s, db, power, input, muted, sound) ==
  [s EXCEPT !.power = power, !.volume = Str(LevelOfDb(db)),
            !.input_source = input, !.mute = muted,
            !.sound_mode = IF sound \in Slots THEN None ELSE sound,
            !.smart_select = IF sound \in Slots THEN sound ELSE s.smart_select]

\* What the fetch at the start can make of the defaults.
Fetched == {Synced(Default, db, power, input, muted, sound) :
              db \in Levels, power \in {"ON", "OFF"}, input \in Inputs,
              muted \in BOOLEAN, sound \in Modes \cup Slots}

\* A plausible slip: the setting is left as it is.
NotValidated(c) == c

\* _no_avr_host_force_optimistic_off.
Validated(c) == IF c.avr_host THEN c ELSE [c EXCEPT !.optimistic_state = FALSE]

StateInit ==
  /\ config \in {Validated(c) : c \in [avr_host : BOOLEAN, optimistic_state : BOOLEAN]}
  /\ \E s \in {Default} \cup (IF config.avr_host THEN Fetched ELSE {}) :
       /\ volume = s.volume /\ limit = s.volume_max
       /\ others = [s EXCEPT !.volume = None, !.volume_max = None]
  /\ client = FALSE /\ mirror = Unknown

Send(lines, prefixes) ==
  mirror' = IF client THEN UpdatedBy(mirror, lines, prefixes) ELSE mirror

\* connection_made of the client.
Join == /\ client' = TRUE
        /\ mirror' = UpdatedBy(Unknown, Dump(State), Prefixes)
        /\ UNCHANGED <<volume, limit, config, others>>

\* What the answer to a line is about: power and main zone go together.
Related(line) == IF Prefix(line) \in {"PW", "ZM"} THEN {"PW", "ZM"} ELSE {Prefix(line)}

\* A plausible slip: power and main zone are answered apart.
AnswerByPrefix(s, line) ==
  LET done == Applied(s, line)
  IN  /\ Become(UpdatedBy(done, Dump(done), {Prefix(line)}))
      /\ Send(Dump(done), {Prefix(line)})

\* VirtualAVRConnection.send_command: the command is applied, and what the
\* dump then says of its subject is fed back and relayed.
Answer(s, line) ==
  LET done == Applied(s, line)
  IN  /\ Become(UpdatedBy(done, Dump(done), Related(line)))
      /\ Send(Dump(done), Related(line))

\* A command for the virtual AVR, of a telnet client (applied first if state
\* is optimistic) or of the HTTP API.
CommandVirtual(line, telnet) ==
  /\ ~config.avr_host /\ (telnet => client)
  /\ Answer(IF telnet /\ config.optimistic_state THEN Applied(State, line) ELSE State, line)
  /\ UNCHANGED <<config, client>>

\* _handle_power and _handle_mute: a toggle goes by the state at this moment.
PowerCommand(s, action) ==
  Line("PW", IF action = "on" \/ (action = "toggle" /\ s.power # "ON") THEN "ON" ELSE "STANDBY")
MuteCommand(s, action) ==
  Line("MU", IF action = "on" \/ (action = "toggle" /\ ~s.mute) THEN "ON" ELSE "OFF")

\* route_to_command: the commands its other routes can make of a state; a
\* source must be one that is offered.
RouteToCommand(s) ==
  {PowerCommand(s, action) : action \in {"on", "off", "toggle"}}
  \cup {MuteCommand(s, action) : action \in {"on", "off", "toggle"}}
  \cup Stepping
  \cup {Line("SI", code) : code \in Inputs}

\* A control route of the HTTP API, but for volume/set.
HttpControl ==
  /\ ~config.avr_host
  /\ \E line \in RouteToCommand(State) : Answer(State, line)
  /\ UNCHANGED <<config, client>>

\* volume/set of the HTTP API.
HttpVolume(hundredths) ==
  /\ ~config.avr_host /\ hundredths <= 10 * limit
  /\ Answer(State, Line("MV", FormatVolume(RoundToHalfStep(hundredths), limit)))
  /\ UNCHANGED <<config, client>>

\* VirtualAVRConnection.request_state.
RequestState ==
  /\ ~config.avr_host
  /\ Send(Dump(State), Prefixes)
  /\ UNCHANGED <<volume, limit, config, others, client>>

\* A command of a client for a physical AVR: applied, and restored if the send
\* fails; the state is broadcast.
CommandPhysical(line, sent) ==
  /\ config.avr_host /\ config.optimistic_state /\ client /\ Applies(line)
  /\ LET s == IF sent THEN Applied(State, line) ELSE State
     IN  Become(s) /\ Send(Dump(s), Prefixes)
  /\ UNCHANGED <<config, client>>

\* A line of a physical AVR is relayed.
AvrLine(line) ==
  /\ config.avr_host
  /\ Become(Updated(State, line)) /\ Send(<<line>>, Prefixes)
  /\ UNCHANGED <<config, client>>

StateNext ==
  \/ Join
  \/ RequestState
  \/ \E line \in Queries \cup Stepping \cup Setting :
       \/ \E telnet \in BOOLEAN : CommandVirtual(line, telnet)
       \/ \E sent \in BOOLEAN : CommandPhysical(line, sent)
  \/ HttpControl
  \/ \E h \in Asked : HttpVolume(h)
  \/ \E line \in Limiting \cup Setting : AvrLine(line)

StateSpec == StateInit /\ [][StateNext]_stateVars

-----------------------------------------------------------------------------
(***************************************************************************)
(* Properties                                                              *)
(***************************************************************************)

\* The type invariant.
StateTypeOK ==
  /\ TypeOK
  /\ config \in [avr_host : BOOLEAN, optimistic_state : BOOLEAN]
  /\ client \in BOOLEAN
  /\ \A s \in {others, mirror} :
       /\ s.power \in Powers \cup {None}
       /\ s.input_source \in Inputs \cup {None}
       /\ s.mute \in BOOLEAN \cup {None}
       /\ s.sound_mode \in Modes \cup {None}
       /\ s.smart_select \in Slots \cup {None}

\* A client that reads its lines as the proxy reads those of the AVR knows
\* what the proxy knows: after any mix of dumps, relayed lines, echoes and
\* broadcasts, of which some name a field only by its neighbour.  A field that
\* the proxy does not know is not told; any power but ON reads as STANDBY.
MirrorAgrees ==
  client => /\ mirror.volume = volume
            /\ (mirror.power = "ON") <=> (others.power = "ON")
            /\ \A f \in Fields \ {"power"} : others[f] # None => mirror[f] = others[f]

\* The virtual AVR is on or in standby, whatever it is sent: the line of the
\* main zone normalises what the line of the power said.
VirtualPowerIsKnown == ~config.avr_host => others.power \in {"ON", "STANDBY"}

\* The volume in this state is Volume: a command of a telnet client steps it
\* once, although two places may apply it, and the echo leaves it.
ImplementsVolume == [][Next \/ UNCHANGED vars]_vars

\* volume_to_db, in tenths of a decibel.  ".1f" rounds the number that is
\* stored: half of a level that ends in .5 is a tie, and goes to the even
\* digit; the other odd tenths are no binary fractions, and whether they are
\* stored above or below their value depends on the digit and, for .1 and .9,
\* on the exponent, which is one in 16.1 .. 63.9.
VolumeToDb(text) ==
  LET level == VolumeToLevel(text, 980)
      n == (level - 800) \div 2
      digit == level % 10
      up == \/ digit = 7
            \/ digit = 5 /\ n % 2 = 1
            \/ digit = IF level \in 161..639 THEN 1 ELSE 9
  IN  IF up THEN n + 1 ELSE n

\* The decibels the proxy shows are read back as the whole step they were made
\* of, without its tenths; only nine tenths may have become the next one.
DbKeepsLevel ==
  LET level == VolumeToLevel(volume, 980)
      lost == level - 10 * LevelOfDb(VolumeToDb(volume))
  IN  lost = level % 10 \/ (lost = -1 /\ level % 10 = 9)
=============================================================================
