----------------------------- MODULE InputLayer -----------------------------
(***************************************************************************)
(* The keyboard's logic layer: key-downs and key-ups in, characters and    *)
(* actions out, under the fingers of someone typing on a matrix without    *)
(* diodes.  The fingers press and release keys, the scanner reports each   *)
(* press and release and may report a held key again, and the user         *)
(* interface resets the layer.                                             *)
(*                                                                         *)
(* _down is searched linearly and never holds a code twice, so its order   *)
(* does not matter and it is a set; _down_count is its cardinality.        *)
(***************************************************************************)
EXTENDS Integers, FiniteSets

CONSTANTS
  Modifiers,        \* KEY_SHIFT, KEY_ALT, KEY_SYM
  Ordinary,         \* the codes from KEY_FIRST_ORDINARY up
  GHOST_THRESHOLD,  \* 3
  MAX_TRACKED,      \* 8
  MaxHeld,          \* bound: keys physically down at once
  Resets            \* whether the user interface calls reset()

Keys == Modifiers \cup Ordinary

ASSUME InputAssumption ==
  /\ Modifiers \cap Ordinary = {}
  /\ GHOST_THRESHOLD \in Nat
  /\ MAX_TRACKED \in Nat
  /\ GHOST_THRESHOLD <= MAX_TRACKED
  /\ MaxHeld \in Nat
  /\ Resets \in BOOLEAN

VARIABLES
  held,      \* the keys physically down
  down,      \* _down[0 .. _down_count - 1]
  pending,   \* _pending, as the set of armed modifiers
  event,     \* the Event the last call returned: its type, code and mods
  reported,  \* history: keys reported down since the last reset, still held
  emitted    \* history: per key, its events since it was pressed or the layer reset:
             \* none, one, or two and more

layerVars == <<held, down, pending, event, reported, emitted>>

Nothing == [type |-> "NONE", code |-> "none", mods |-> {}]
EventTypes == {"NONE", "EMIT", "REFUSED"}
Emits(ev) == ev.type = "EMIT"

LayerTypeOK ==
  /\ held \subseteq Keys
  /\ down \subseteq Keys
  /\ pending \subseteq Modifiers
  /\ event \in [type : EventTypes, code : Keys \cup {"none"}, mods : SUBSET Modifiers]
  /\ reported \subseteq Keys
  /\ emitted \in [Keys -> 0..2]

LayerInit ==
  /\ held = {}
  /\ down = {}
  /\ pending = {}
  /\ event = Nothing
  /\ reported = {}
  /\ emitted = [code \in Keys |-> 0]

-----------------------------------------------------------------------------
\* Mutant: the list is as long as the threshold needs, less the key itself.
track_down_short(code) ==
  IF Cardinality(down) < GHOST_THRESHOLD - 1 THEN down \cup {code} ELSE down

\* A full list drops the code: _down_count = MAX_TRACKED is what it already is.
track_down(code) ==
  IF Cardinality(down) < MAX_TRACKED THEN down \cup {code} ELSE down

Refuse(code) ==
  /\ Cardinality(track_down(code)) >= GHOST_THRESHOLD
  /\ event' = [type |-> "REFUSED", code |-> code, mods |-> {}]
  /\ UNCHANGED <<pending, emitted>>

\* Arming a modifier twice disarms it.
Arm(code) ==
  /\ code \in Modifiers
  /\ pending' = IF code \in pending THEN pending \ {code} ELSE pending \cup {code}
  /\ event' = [Nothing EXCEPT !.code = code]
  /\ UNCHANGED emitted

\* CHAR and ACTION differ only in what the caller's keymap says of the code.
Emit(code) ==
  /\ code \notin Modifiers
  /\ event' = [type |-> "EMIT", code |-> code, mods |-> pending]
  /\ pending' = {}
  /\ emitted' = [emitted EXCEPT ![code] = IF @ = 0 THEN 1 ELSE 2]

\* Mutant: track_down tells a held key from a new one for the count only.
RebroadcastIsNew(code) ==
  /\ code \in down
  /\ \/ Refuse(code)
     \/ /\ Cardinality(down) < GHOST_THRESHOLD
        /\ Arm(code) \/ Emit(code)
  /\ UNCHANGED down

\* A repeat down for a key already held: nothing new happened.
Rebroadcast(code) ==
  /\ code \in down
  /\ event' = [Nothing EXCEPT !.code = code]
  /\ UNCHANGED <<down, pending, emitted>>

Fresh(code) ==
  /\ code \notin down
  /\ down' = track_down(code)
  /\ \/ Refuse(code)
     \/ /\ Cardinality(track_down(code)) < GHOST_THRESHOLD
        /\ Arm(code) \/ Emit(code)

key_down(code) ==
  /\ Rebroadcast(code) \/ Fresh(code)
  /\ reported' = reported \cup {code}

\* Mutant: the release of a modifier is taken for part of its one shot.
key_up_ordinary(code) ==
  /\ down' = IF code \in Modifiers THEN down ELSE down \ {code}
  /\ UNCHANGED <<pending, event>>

\* The release of a key, armed modifiers included, disarms nothing.
key_up(code) ==
  /\ down' = down \ {code}
  /\ UNCHANGED <<pending, event>>

-----------------------------------------------------------------------------
Press(code) ==
  /\ code \notin held
  /\ Cardinality(held) < MaxHeld
  /\ held' = held \cup {code}
  /\ key_down(code)

Repeat(code) ==
  /\ code \in held
  /\ key_down(code)
  /\ UNCHANGED held

Release(code) ==
  /\ code \in held
  /\ held' = held \ {code}
  /\ key_up(code)
  /\ reported' = reported \ {code}
  /\ emitted' = [emitted EXCEPT ![code] = 0]

reset ==
  /\ Resets
  /\ pending' = {}
  /\ down' = {}
  /\ reported' = {}
  /\ emitted' = [code \in Keys |-> 0]
  /\ UNCHANGED <<held, event>>

LayerNext ==
  \/ \E code \in Keys : Press(code) \/ Repeat(code) \/ Release(code)
  \/ reset

LayerSpec == LayerInit /\ [][LayerNext]_layerVars

-----------------------------------------------------------------------------
(* InputLayer.h: "three or more simultaneous keys are refused as a         *)
(* combination": no character or action comes of a key-down while the      *)
(* fingers hold three keys.  It takes a layer that nothing resets and a    *)
(* list with room for every finger; InputLayerProofs proves it so.         *)
GhostGuard == Emits(event) => Cardinality(held) < GHOST_THRESHOLD

(* The same of the keys the layer has been told of since its last reset(): *)
(* with no more keys held than MAX_TRACKED, the count track_down and       *)
(* track_up keep never falls behind the keys really down.                  *)
GuardSinceReset == Emits(event) => Cardinality(reported) < GHOST_THRESHOLD

(* A key the layer counts as down is down: no order of presses, repeats,   *)
(* releases and resets, with the list full or not, leaves behind a key     *)
(* that track_up will not remove, which would refuse ordinary typing.      *)
NoStuckKey == down \subseteq held

(* InputLayer.cpp, track_down: a repeat down for a key already held is     *)
(* "not a new press": from a press to its release, a key emits once, unless *)
(* a reset() in between makes the layer forget it.                         *)
EmitsOncePerPress == \A code \in Keys : emitted[code] <= 1
=============================================================================
