----------------------------- MODULE MCProxyCore -----------------------------
(***************************************************************************)
(* ProxyCore on small instances: two fields are enough for a revert to hit *)
(* a field another command or the AVR has changed.  f has a default value  *)
(* and step commands, g has neither, h is left out of dumps.  The AVR's    *)
(* state differs from the proxy's defaults where these have a value.       *)
(***************************************************************************)
EXTENDS ProxyCore

CONSTANTS f, g, h, u, v

MCDefaults == [x \in Fields |-> IF x = g THEN None ELSE u]
MCAvrAtStart == {[x \in Fields |-> IF x = g THEN u ELSE v]}

Set(x, y) == [kind |-> "set", field |-> x, value |-> y]
Step(x) == [kind |-> "step", field |-> x, value |-> None]

MCInput == {cmd \in {Set(f, u), Set(g, v), Step(f), Ask(g), Ask(h)} : cmd.field \in Fields}
MCHttpInput == {Set(f, u), Step(f)}
=============================================================================
