---------------------------- MODULE LabelSource ----------------------------
(***************************************************************************)
(* SCMage.cpp, SCMage_pushLabelsFromSndBuf, with mage/src/Label.cpp,       *)
(* Label::parseQuery: which labels the constructor of a unit finds in a    *)
(* sound buffer, and what each of them asks for.                           *)
(*                                                                         *)
(* A character is its class.  A string is the sequence of the samples it   *)
(* was read from, so that two strings are told apart by where they come    *)
(* from and not by what they say.                                          *)
(***************************************************************************)
EXTENDS Integers, Sequences, FiniteSetsExt

CONSTANTS maxStrLen,          \* characters of a label
          maxLabelQueueLen,   \* slots of the label queue
          MaxSamples,         \* bound: samples of a buffer
          MaxChannels         \* bound: channels of a buffer

ASSUME SourceAssumption == /\ maxStrLen \in Nat \ {0}
                           /\ maxLabelQueueLen \in Nat \ {0}
                           /\ MaxSamples \in Nat /\ MaxChannels \in Nat \ {0}

VARIABLES source,       \* where the function is
          bufData, bufChannels,
          bufIndex,     \* the next sample, from 0
          stringBuf,    \* the first charIndex characters of the string
          first, middle, last,  \* parseQuery's static strings
          queue         \* the label queue, empty in a new Mage

bufVars == <<bufData, bufChannels>>
statics == <<first, middle, last>>
sourceVars == <<source, bufVars, bufIndex, stringBuf, statics, queue>>

Chars == {"digit", "text", "space", "newline", "null"}

(* Strings a label of an earlier unit left in the static variables *)
OldNumber == <<-1>>
OldText == <<-2>>
Empty == <<>>

-----------------------------------------------------------------------------
(* Label::parseQuery *)

(* isdigit_string: sscanf finds a number at the start of the string *)
IsDigitString(s) == /\ s # Empty
                    /\ s = OldNumber \/ (s[1] > 0 /\ bufData[s[1]] = "digit")

(* getline( liness, ..., ' ' ), field by field: what is left of the line   *)
(* after a field, if the field ended at a space and not with the line.     *)
SpaceIn(s) == {k \in DOMAIN s : bufData[s[k]] = "space"}
FirstSpace(s) == CHOOSE k \in SpaceIn(s) : \A j \in SpaceIn(s) : k <= j
Field(s) == IF SpaceIn(s) = {} THEN s ELSE SubSeq(s, 1, FirstSpace(s) - 1)
Rest(s) == SubSeq(s, FirstSpace(s) + 1, Len(s))

(* A stream at its end fails before getline clears the string: the static  *)
(* string keeps what an earlier label left there.                          *)
NextMiddle(s) == IF SpaceIn(s) = {} THEN middle ELSE Field(Rest(s))
NextLast(s) == IF SpaceIn(s) = {} \/ SpaceIn(Rest(s)) = {} THEN last
               ELSE Field(Rest(Rest(s)))

NoTime == <<0>>              \* begin = end = -1

(* mutant of Label: only the end time is looked at *)
LabelEndTime(line, f, m, l) ==
  IF IsDigitString(m)
  THEN [line |-> line, begin |-> f, end |-> m, query |-> l, forced |-> TRUE]
  ELSE [line |-> line, begin |-> NoTime, end |-> NoTime, query |-> f,
        forced |-> FALSE]

(* The label made of the three strings; the line itself is a ghost.        *)
Label(line, f, m, l) ==
  IF IsDigitString(f) /\ IsDigitString(m)
  THEN [line |-> line, begin |-> f, end |-> m, query |-> l, forced |-> TRUE]
  ELSE [line |-> line, begin |-> NoTime, end |-> NoTime, query |-> f,
        forced |-> FALSE]

ParseQuery(line) == /\ first' = Field(line)
                    /\ middle' = NextMiddle(line)
                    /\ last' = NextLast(line)

-----------------------------------------------------------------------------
(* SCMage_pushLabelsFromSndBuf *)
SourceInit == /\ source = "none"
              /\ bufData = <<>> /\ bufChannels = 1
              /\ bufIndex = 0 /\ stringBuf = Empty
              /\ first = Empty
              /\ middle \in {Empty, OldNumber, OldText}
              /\ last \in {Empty, OldText}
              /\ queue = <<>>

(* A buffer holds whole frames; one that was never allocated holds none.   *)
OpenBuf(data, channels) == /\ source = "none"
                           /\ Len(data) % channels = 0
                           /\ source' = "reading"
                           /\ bufData' = data /\ bufChannels' = channels
                           /\ bufIndex' = 0 /\ stringBuf' = Empty
                           /\ queue' = <<>>
                           /\ UNCHANGED statics

Reading == source = "reading" /\ bufIndex < Len(bufData)
Character == bufData[bufIndex + 1]

(* an early null ends the string *)
ReadNull == /\ Reading /\ Character = "null"
            /\ source' = "done"
            /\ UNCHANGED <<bufVars, bufIndex, stringBuf, statics, queue>>

(* mutant of ReadNewline: charIndex is not set back *)
ReadNewlineKeep == /\ Reading /\ Character = "newline"
                   /\ bufIndex' = bufIndex + bufChannels
                   /\ ParseQuery(stringBuf)
                   /\ LET label == Label(stringBuf, first', middle', last')
                      IN queue' = IF Len(queue) < maxLabelQueueLen
                                  THEN Append(queue, label) ELSE queue
                   /\ UNCHANGED <<source, bufVars, stringBuf>>

(* A newline makes a label of the string and empties it; a label the queue *)
(* has no room for is dropped (Mage::pushLabel).                           *)
ReadNewline == /\ Reading /\ Character = "newline"
               /\ bufIndex' = bufIndex + bufChannels
               /\ stringBuf' = Empty
               /\ ParseQuery(stringBuf)
               /\ LET label == Label(stringBuf, first', middle', last')
                  IN queue' = IF Len(queue) < maxLabelQueueLen
                              THEN Append(queue, label) ELSE queue
               /\ UNCHANGED <<source, bufVars>>

(* mutant of ReadOther: the string is not cut *)
ReadOtherUnbounded ==
  /\ Reading /\ Character \notin {"null", "newline"}
  /\ bufIndex' = bufIndex + bufChannels
  /\ stringBuf' = Append(stringBuf, bufIndex + 1)
  /\ UNCHANGED <<source, bufVars, statics, queue>>

(* Any other character is added to the string as long as that has room.    *)
ReadOther == /\ Reading /\ Character \notin {"null", "newline"}
             /\ bufIndex' = bufIndex + bufChannels
             /\ stringBuf' = IF Len(stringBuf) < maxStrLen
                             THEN Append(stringBuf, bufIndex + 1) ELSE stringBuf
             /\ UNCHANGED <<source, bufVars, statics, queue>>

ReadEnd == /\ source = "reading" /\ bufIndex >= Len(bufData)
           /\ source' = "done"
           /\ UNCHANGED <<bufVars, bufIndex, stringBuf, statics, queue>>

Read == ReadNull \/ ReadNewline \/ ReadOther \/ ReadEnd

-----------------------------------------------------------------------------
Strings == Seq(-2..MaxSamples)
Labels == [line : Strings, begin : Strings, end : Strings, query : Strings,
           forced : BOOLEAN]

(* Types of the reading of a label buffer: the intermediate string never   *)
(* outgrows its allocation, the queue its slots.                           *)
SourceTypeOK == /\ source \in {"none", "reading", "done"}
                /\ bufData \in Seq(Chars) /\ Len(bufData) <= MaxSamples
                /\ bufChannels \in 1..MaxChannels
                /\ bufIndex \in 0..(MaxSamples + MaxChannels)
                /\ stringBuf \in Strings /\ Len(stringBuf) <= maxStrLen
                /\ first \in Strings /\ middle \in Strings /\ last \in Strings
                /\ queue \in Seq(Labels) /\ Len(queue) <= maxLabelQueueLen

(* What the help file says of the buffer: its first channel, up to the     *)
(* first null character, is a list of labels, each ended by a newline.     *)
Sample(k) == (k - 1) * bufChannels + 1           \* of frame k, channel 0
Frames == 1..(Len(bufData) \div bufChannels)
Nulls == {k \in Frames : bufData[Sample(k)] = "null"}
Newlines == {k \in Frames : /\ bufData[Sample(k)] = "newline"
                            /\ \A n \in Nulls : k < n}
Newline(i) == CHOOSE k \in Newlines :
                 Cardinality({j \in Newlines : j <= k}) = i
LineStart(i) == IF i = 1 THEN 0 ELSE Newline(i - 1)
LineLength(i) == Min({maxStrLen, Newline(i) - LineStart(i) - 1})
Line(i) == [k \in 1..LineLength(i) |-> Sample(LineStart(i) + k)]

(* The labels in the queue when the constructor has read the buffer are    *)
(* the documented lines, cut at maxStrLen characters, in order, all of     *)
(* them as far as the queue has room: whatever the channels, early nulls,  *)
(* empty lines and missing last newline of the buffer.                     *)
LabelsAsDocumented ==
  source = "done" =>
     /\ Len(queue) = Min({maxLabelQueueLen, Cardinality(Newlines)})
     /\ \A i \in DOMAIN queue : queue[i].line = Line(i)

(* Field i of a line, between its spaces *)
Cut(line, i) == IF i = 0 THEN 0
                ELSE IF Cardinality(SpaceIn(line)) < i THEN Len(line) + 1
                ELSE CHOOSE k \in SpaceIn(line) :
                        Cardinality({j \in SpaceIn(line) : j <= k}) = i
FieldOf(line, i) == SubSeq(line, Cut(line, i - 1) + 1, Cut(line, i) - 1)
StartsWithDigit(s) == s # Empty /\ bufData[s[1]] = "digit"

(* A label that is no timed one at sight, or has all three fields of a     *)
(* timed one, is understood by itself: parseQuery's strings are static and *)
(* keep fields of earlier labels, of this buffer and of other units', but  *)
(* none of them gets into such a label's times or query.                   *)
WellFormedParsedAlone ==
  \A i \in DOMAIN queue :
     LET label == queue[i]
         line == label.line
         timed == StartsWithDigit(FieldOf(line, 1))
                  /\ StartsWithDigit(FieldOf(line, 2))
     IN  ~StartsWithDigit(line) \/ Cardinality(SpaceIn(line)) >= 2
            => IF timed
               THEN /\ label.begin = FieldOf(line, 1)
                    /\ label.end = FieldOf(line, 2)
                    /\ label.query = FieldOf(line, 3) /\ label.forced
               ELSE /\ label.begin = NoTime /\ label.end = NoTime
                    /\ label.query = FieldOf(line, 1) /\ ~label.forced
=============================================================================
