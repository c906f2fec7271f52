--------------------------- MODULE EngineBuffers ---------------------------
(***************************************************************************)
(* Engine_VoxExMachina.sc and SCMage.sc: how the phrases of the engine get *)
(* their label buffers, and which phrase a command speaks.                 *)
(* create_buffers starts the labelling of one phrase after the other, five *)
(* seconds apart; labelling is a chain of shell commands, each started by  *)
(* the callback of the one before, and its last callback allocates a       *)
(* buffer.  The variants of the synth name fixed buffer numbers instead.   *)
(* Callbacks and routines share the one thread of sclang.                  *)
(***************************************************************************)
EXTENDS Integers, FiniteSets, Sequences

CONSTANTS NPhrases,      \* voxPhrases.size
          NCommands,     \* shell commands of a labelling: text2utt, dumpfeats,
                         \* convertFeaturesToLabels, removeDurationsFromLabels
          MaxPlays       \* bound: synths played

ASSUME PhrasesAssumption == NPhrases \in Nat \ {0} /\ NCommands \in Nat \ {0}
ASSUME PlaysAssumption == MaxPlays \in Nat

VARIABLES index,     \* create_buffers: phrases started so far
          step,      \* per phrase, the shell command under way
          failed,    \* phrases one of whose commands failed
          buffers,   \* the buffers allocated, in the order of their numbers
          late,      \* a wait(5) ended before the labelling it was for
          ready,     \* alloc is over: synth and commands exist
          synths     \* the synths created: phrase asked for, phrase spoken

vars == <<index, step, failed, buffers, late, ready, synths>>

Phrases == 0..(NPhrases - 1)
Silence == -1              \* what a buffer without labels says

EngineInit == /\ index = 0
              /\ step = [p \in Phrases |-> 0]
              /\ failed = {} /\ buffers = <<>>
              /\ late = FALSE /\ ready = FALSE
              /\ synths = <<>>

(* mutant of Labelize: the phrase is labelled over and over *)
LabelizeAgain == /\ index < NPhrases
                 /\ step' = [step EXCEPT ![index] = 1]
                 /\ UNCHANGED <<index, failed, buffers, late, ready, synths>>

(* create_buffers: labelBuf(phrase) writes the text and starts text2utt    *)
Labelize == /\ index < NPhrases
            /\ step[index] = 0
            /\ step' = [step EXCEPT ![index] = 1]
            /\ UNCHANGED <<index, failed, buffers, late, ready, synths>>

Labelled(p) == step[p] = NCommands + 1

(* wait(5) is over, whatever the labelling does *)
WaitOver == /\ index < NPhrases
            /\ step[index] > 0
            /\ index' = index + 1
            /\ late' = (late \/ ~Labelled(index))
            /\ UNCHANGED <<step, failed, buffers, ready, synths>>

(* A command of the chain ends, well or not: unixCmd's action does not     *)
(* look at the exit code, and starts the next one.                         *)
CommandDone(p, ok) ==
  /\ step[p] \in 1..(NCommands - 1)
  /\ step' = [step EXCEPT ![p] = @ + 1]
  /\ failed' = IF ok THEN failed ELSE failed \cup {p}
  /\ UNCHANGED <<index, buffers, late, ready, synths>>

(* mutant of LastCommandDone: a failed phrase gets no buffer *)
LastCommandDoneStrict(p, ok) ==
  /\ step[p] = NCommands
  /\ step' = [step EXCEPT ![p] = @ + 1]
  /\ failed' = IF ok THEN failed ELSE failed \cup {p}
  /\ buffers' = IF p \in failed' THEN buffers ELSE Append(buffers, p)
  /\ UNCHANGED <<index, late, ready, synths>>

(* mutant of LastCommandDone: a callback after its wait(5) is ignored *)
LastCommandDoneInTime(p, ok) ==
  /\ step[p] = NCommands
  /\ step' = [step EXCEPT ![p] = @ + 1]
  /\ failed' = IF ok THEN failed ELSE failed \cup {p}
  /\ buffers' = IF index > p THEN buffers
                ELSE Append(buffers, IF p \in failed' THEN Silence ELSE p)
  /\ UNCHANGED <<index, late, ready, synths>>

(* The last one: the label file is read and a buffer allocated, the next   *)
(* free number; what a failed command left behind has no labels.  There is *)
(* a file even then, for the shell opens it before it starts the command.  *)
LastCommandDone(p, ok) ==
  /\ step[p] = NCommands
  /\ step' = [step EXCEPT ![p] = @ + 1]
  /\ failed' = IF ok THEN failed ELSE failed \cup {p}
  /\ buffers' = Append(buffers, IF p \in failed' THEN Silence ELSE p)
  /\ UNCHANGED <<index, late, ready, synths>>

(* The rest of alloc: SynthDef, addCommand *)
Alloc == /\ index = NPhrases /\ ~ready
         /\ ready' = TRUE
         /\ UNCHANGED <<index, step, failed, buffers, late, synths>>

(* A phrase command: the variant's buffer number is the phrase's position. *)
(* The argument called bufnum is no argument of the synth, and ignored.    *)
Spoken(p) == IF p < Len(buffers) THEN buffers[p + 1] ELSE Silence
Play(p) == /\ ready /\ Len(synths) < MaxPlays
           /\ synths' = Append(synths, [asked |-> p, spoken |-> Spoken(p)])
           /\ UNCHANGED <<index, step, failed, buffers, late, ready>>

(* Shell commands end, and sclang runs its routine and callbacks           *)
Progress == \/ Labelize \/ WaitOver \/ Alloc
            \/ \E p \in Phrases, ok \in BOOLEAN :
                  CommandDone(p, ok) \/ LastCommandDone(p, ok)

-----------------------------------------------------------------------------
(* Types of the engine's labelling. *)
EngineTypeOK == /\ index \in 0..NPhrases
                /\ step \in [Phrases -> 0..(NCommands + 1)]
                /\ failed \subseteq Phrases
                /\ \A b \in DOMAIN buffers : buffers[b] \in Phrases \cup {Silence}
                /\ Len(buffers) <= NPhrases
                /\ late \in BOOLEAN /\ ready \in BOOLEAN
                /\ Len(synths) <= MaxPlays

(* While every labelling is done within its five seconds, the synths of a  *)
(* phrase command speak that phrase, or nothing when its labelling failed, *)
(* a failure of one phrase never shifting the ones after it.               *)
OnTimeSpeaksAsked ==
  ~late => \A i \in DOMAIN synths :
              synths[i].spoken = IF synths[i].asked \in failed THEN Silence
                                 ELSE synths[i].asked

(* Whatever the delays, the engine becomes usable and every phrase ends up *)
(* in a buffer of its own, or in one without labels.                       *)
AllBuffersCreated ==
  <>(/\ ready /\ Len(buffers) = NPhrases
     /\ \A p \in Phrases \ failed : \E b \in DOMAIN buffers : buffers[b] = p)
=============================================================================
