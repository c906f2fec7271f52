----------------------------- MODULE VoxScript -----------------------------
(***************************************************************************)
(* vox.lua with the command handlers of Engine_VoxExMachina.sc: the norns  *)
(* script keeps the values it shows and sends the engine a command for     *)
(* each change; keys, encoders and OSC messages are handled one at a time, *)
(* while the commands, in order, are handled by sclang later.              *)
(*                                                                         *)
(* A continuous value is a level from 1 to MaxLevel.  The menu is the one  *)
(* of the code without the controls a model leaves out.  controlspec:map,  *)
(* of the norns library, is any value of the control's range.              *)
(***************************************************************************)
EXTENDS Integers, SequencesExt

CONSTANTS Controls,     \* a subset of AllControls
          MaxVoice,     \* the last voice number
          MaxLevel,     \* bound: levels of a continuous control
          MaxPending    \* bound: commands on their way to the engine

AllControls == {"voice", "mode", "freq", "scale", "alpha", "gap"}

ASSUME ScriptAssumption == /\ Controls \subseteq AllControls
                           /\ MaxVoice \in Nat
                           /\ MaxLevel \in Nat \ {0} /\ MaxPending \in Nat

VARIABLES edit, mute, phrase,
          shown,      \* the script's voice, mode, freq, scale, alpha, gap
          dac,        \* the level audio.level_dac was given last
          pending,    \* commands the engine has not handled yet
          vox         \* the engine's voxVoice, voxMode, voxFreq, ...

scriptVars == <<edit, mute, phrase, shown, dac, pending, vox>>

Present(list) ==
  FlattenSeq([k \in DOMAIN list |-> IF list[k] \in Controls \cup {"mute", "phrase"}
                                    THEN <<list[k]>> ELSE <<>>])
Menu == Present(<<"mute", "voice", "phrase", "mode", "freq", "scale", "alpha",
                  "gap">>)
Selected == Menu[edit + 1]

Low(c) == CASE c = "voice" -> 0 [] c = "mode" -> -1 [] OTHER -> 1
High(c) == CASE c = "voice" -> MaxVoice [] c = "mode" -> 2 [] OTHER -> MaxLevel
Values(c) == Low(c)..High(c)
Nil == -2                      \* the undefined name voxmin

(* The script starts with the last voice, the engine with the first; all   *)
(* other initial values agree.                                             *)
ScriptInit == /\ edit = 0 /\ mute = 1 /\ dac = 1 /\ phrase = 0
              /\ shown = [c \in Controls |-> IF c = "voice" THEN MaxVoice ELSE 1]
              /\ pending = <<>>
              /\ vox = [c \in Controls |-> IF c = "voice" THEN 0 ELSE 1]

-----------------------------------------------------------------------------
(* Handlers of the script; a call of engine.<command> sends it *)
Send(commands) == /\ pending' = pending \o commands
                  /\ Len(pending') <= MaxPending

(* set_voice, set_mode, set_freq, set_scale, set_alpha, set_gap *)
Set(c, v) == /\ shown' = [shown EXCEPT ![c] = v]
             /\ Send(<<<<c, v>>>>)
             /\ UNCHANGED <<edit, mute, phrase, dac, vox>>

(* set_mute: whatever its arguments *)
Toggle == /\ mute' = 1 - mute
          /\ dac' = mute'
          /\ UNCHANGED <<edit, phrase, shown, pending, vox>>

(* set_phrase *)
SetPhrase(p) == /\ phrase' = p
                /\ Send(<<<<"phrase", p>>>>)
                /\ UNCHANGED <<edit, mute, shown, dac, vox>>

(* K3 on a control: the next value, the first one after the last           *)
KeyStep(c) == /\ Selected = c /\ shown[c] # Nil
              /\ c # "scale" \/ shown[c] < High(c)
              /\ Set(c, IF shown[c] = High(c) THEN Low(c) ELSE shown[c] + 1)

(* ... but scale becomes nil there, which is no argument for a command and *)
(* cannot be added to: the handler ends with an error then and later.      *)
KeyNil == /\ Selected = "scale" /\ shown["scale"] = High("scale")
          /\ shown' = [shown EXCEPT !["scale"] = Nil]
          /\ UNCHANGED <<edit, mute, phrase, dac, pending, vox>>

Key == \/ Selected = "mute" /\ Toggle
       \/ \E c \in Controls : KeyStep(c)
       \/ KeyNil

(* E3 changes the selected parameter of the norns parameter set, whose     *)
(* action sets the control; the one of voice calls set_mute.               *)
Encoder(phrases) ==
  \/ Selected \in {"mute", "voice"} /\ Toggle
  \/ Selected = "phrase" /\ \E p \in phrases : SetPhrase(p)
  \/ \E c \in Controls \ {"voice"} :
        Selected = c /\ \E v \in Values(c) : Set(c, v)

(* E2: set_edit *)
MenuNext == /\ edit' = (edit + 1) % Len(Menu)
            /\ UNCHANGED <<mute, phrase, shown, dac, pending, vox>>

(* Several set_ in one handler: list of controls, new value of each        *)
Assign(list, val) == [c \in Controls |-> IF Contains(list, c) THEN val[c]
                                         ELSE shown[c]]
Commands(list, val) == [k \in DOMAIN list |-> <<list[k], val[list[k]]>>]
Settings(list) == {val \in [Range(list) -> UNION {Values(c) : c \in Range(list)}] :
                     \A c \in Range(list) : val[c] \in Values(c)}
NetControls == Present(<<"voice", "freq", "scale", "gap">>)
HexControls == Present(<<"alpha", "voice">>)

(* mutant of NetVoltage: the values are shown and not sent *)
NetVoltageQuiet(val) ==
  /\ shown' = Assign(Present(<<"freq", "scale", "gap">>), val)
  /\ Send(Commands(Present(<<"voice">>), val))
  /\ UNCHANGED <<edit, mute, phrase, dac, vox>>

(* /netvoltage: the voice goes to the engine only *)
NetVoltage(val) ==
  /\ shown' = Assign(Present(<<"freq", "scale", "gap">>), val)
  /\ Send(Commands(NetControls, val))
  /\ UNCHANGED <<edit, mute, phrase, dac, vox>>

(* /hexvoltage: the phrase is sent before the alpha and the voice *)
HexVoltage(p, val) ==
  /\ phrase' = p
  /\ shown' = Assign(HexControls, val)
  /\ Send(<<<<"phrase", p>>>> \o Commands(HexControls, val))
  /\ UNCHANGED <<edit, mute, dac, vox>>

(* /voxvoltage: "on" and "off" alike *)
VoxVoltage == Toggle

-----------------------------------------------------------------------------
(* The engine's command handlers but those of the phrases *)
Received(c, v) == IF c = "mode" THEN v - 1 ELSE v

Receive == /\ pending # <<>> /\ Head(pending)[1] \in Controls
           /\ LET c == Head(pending)[1]
              IN  vox' = [vox EXCEPT ![c] = Received(c, Head(pending)[2])]
           /\ pending' = Tail(pending)
           /\ UNCHANGED <<edit, mute, phrase, shown, dac>>

(* a phrase command is handed to the engine's synths *)
TakePhrase(p) == /\ pending # <<>> /\ Head(pending) = <<"phrase", p>>
                 /\ pending' = Tail(pending)
                 /\ UNCHANGED <<edit, mute, phrase, shown, dac, vox>>

-----------------------------------------------------------------------------
(* The last command for c still on its way, else what the engine has       *)
SentTo(c) == {k \in DOMAIN pending : pending[k][1] = c}
Latest(c) == IF SentTo(c) = {} THEN vox[c] ELSE pending[Max(SentTo(c))][2]

(* Whatever keys, encoders and OSC messages come while earlier commands    *)
(* are still on their way, the engine ends up with the frequency, time     *)
(* scale, alpha and gap on the screen, each within its range, unless the   *)
(* screen shows no time scale any more; the output level is the one the    *)
(* mute sign stands for.                                                   *)
EngineFollowsScreen ==
  /\ \A c \in Controls \ {"voice", "mode"} :
        shown[c] = Nil \/ (shown[c] \in Values(c) /\ Latest(c) = shown[c])
  /\ dac = mute
=============================================================================
