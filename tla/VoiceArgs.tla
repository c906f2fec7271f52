----------------------------- MODULE VoiceArgs -----------------------------
(***************************************************************************)
(* mage/src/hts.cpp, Engine::load and GetNumInterp: how the arguments of a *)
(* voice, given by SCMage_addVoice or read from a configuration file       *)
(* (Mage::addEngine, parseConfigFile), become the models of an engine.     *)
(*                                                                         *)
(* An argument is an option <<"-", kind>> or a word <<"word", n>>, n being *)
(* its number or, for a file name, its identity.  Duration, mgc and lf0    *)
(* are treated alike, and so are all options with one value that is not a  *)
(* model ("set"), and the switches without a value ("flag").               *)
(***************************************************************************)
EXTENDS Integers, SequencesExt

CONSTANTS Params,              \* "dur", "mgc" and "lf0"
          maxNumOfArguments,   \* slots of argv for a configuration file
          MaxSpeakers          \* bound: speakers of the voices asked for

ASSUME ArgsAssumption == /\ {"dur", "mgc"} \subseteq Params
                         /\ "lpf" \notin Params /\ IsFiniteSet(Params)
                         /\ maxNumOfArguments \in Nat \ {0}
                         /\ MaxSpeakers \in Nat \ {0}

VARIABLES items,      \* what the voice's author wrote, option by option
          args,       \* argv
          pc,
          argc,       \* the loops' counter
          argv,       \* the loops' pointer, as an index from 0
          num_interp,
          fn          \* the arrays fn_ms_*, fn_ts_* and their counters

loadVars == <<items, args, pc, argc, argv, num_interp, fn>>

Required == {<<t, p>> : t \in {"t", "m"}, p \in Params}
Lpf == {<<"t", "lpf">>, <<"m", "lpf">>}
Streams == (Params \ {"dur"}) \cup {"lpf"}
Gv == {<<t, s>> : t \in {"e", "c"}, s \in Streams}
Kinds == Required \cup Lpf \cup Gv
Window == <<"d", "win">>
Setting == <<"set", "">>

Option(kind) == <<"-", kind>>
Word(n) == <<"word", n>>
IsOption(arg) == arg[1] = "-"
Atoi(arg) == IF IsOption(arg) THEN 0 ELSE arg[2]

-----------------------------------------------------------------------------
(* The argument lists: a voice of m speakers, all its options in order,    *)
(* with one of them missing, doubled, cut short or joined by another one,  *)
(* an interpolation asked for anywhere or not at all, and the label file   *)
(* name that the usage text asks for at the end or not.                    *)
Item(kind, n) == <<Option(kind), Word(n)>>
Interp(n) == <<Option(<<"i", "">>), Word(n)>> \o [k \in 1..n |-> Word(k)]
Flag == <<Option(<<"flag", "">>)>>
Bad == <<Option(<<"bad", "">>)>>
Help == <<Option(<<"h", "">>)>>
CutInterp == <<Option(<<"i", "">>)>>
CutSet == <<Option(Setting)>>

Pairs(S, a, b) == FlattenSeq([k \in 1..Cardinality(S) |->
                     <<<<a, SetToSeq(S)[k]>>, <<b, SetToSeq(S)[k]>>>>])
RequiredList == Pairs(Params, "t", "m")
NoFilterList == RequiredList \o Pairs(Streams, "e", "c")
FullList == NoFilterList \o <<<<"t", "lpf">>, <<"m", "lpf">>>>
VoiceKinds == {RequiredList, NoFilterList, FullList}

Voice(kinds, m) ==
  FlattenSeq([k \in DOMAIN kinds |-> [j \in 1..m |-> Item(kinds[k], 10 * k + j)]])
  \o <<Item(Window, 1), Item(Setting, 1)>>

Edited(s) == {s} \cup {RemoveAt(s, k) : k \in DOMAIN s}
                 \cup {InsertAt(s, k, s[k]) : k \in DOMAIN s}
                 \cup {InsertAt(s, k, x) : k \in 1..Len(s)+1,
                                           x \in {Flag, Bad}}
                 \cup {Append(s, x) : x \in {CutInterp, CutSet, Help}}
WithInterp(s) == {s, InsertAt(s, Len(s) + 1, Interp(0))}
                 \cup {InsertAt(s, k, Interp(MaxSpeakers)) : k \in 1..Len(s)+1}
LabelFile == <<Word(0)>>
ItemLists ==
  {<<>>, <<LabelFile>>} \cup
  UNION {UNION {UNION {{t, Append(t, LabelFile)} : t \in WithInterp(s)} :
                s \in Edited(Voice(kinds, m))} :
         kinds \in VoiceKinds, m \in 1..MaxSpeakers}

-----------------------------------------------------------------------------
NoModels == [k \in Kinds |-> <<>>]

Init == /\ items \in ItemLists
        /\ args = <<>> /\ argc = 0 /\ argv = 0
        /\ pc = "start" /\ num_interp = 0 /\ fn = NoModels

Stop(where) == pc' = where /\ UNCHANGED <<items, args, argc, argv, num_interp, fn>>

(* addEngine( name, argc, argv ): the caller made the array *)
Given == /\ pc = "start" /\ items # <<>>
         /\ args' = FlattenSeq(items)
         /\ argc' = Len(args')
         /\ pc' = "load"
         /\ UNCHANGED <<items, argv, num_interp, fn>>

(* parseConfigFile: the file's words go into an array of fixed size; a     *)
(* file without any loads no engine                                        *)
ParseConfigFile == /\ pc = "start"
                   /\ args' = FlattenSeq(items)
                   /\ argc' = Len(args')
                   /\ pc' = IF Len(args') > maxNumOfArguments THEN "outside"
                            ELSE IF argc' = 0 THEN "none" ELSE "load"
                   /\ UNCHANGED <<items, argv, num_interp, fn>>

(* ... or the file cannot be opened: argc stays 0 and nothing is loaded *)
ParseConfigFails == pc = "start" /\ Stop("none")

Usage == pc = "load" /\ argc = 1 /\ Stop("exit")

StartScan == /\ pc = "load" /\ argc # 1
             /\ pc' = "scan"
             /\ num_interp' = 1
             /\ UNCHANGED <<items, args, argc, argv, fn>>

(* GetNumInterp: looks at every argument but the first *)
Inside(i) == i < Len(args)
Arg(i) == args[i + 1]
IsInterp(i) == IsOption(Arg(i)) /\ Arg(i)[2][1] = "i"

Scan == /\ pc = "scan" /\ argc # 1
        /\ IF IsInterp(argv + 1)
           THEN IF Inside(argv + 2)
                THEN /\ num_interp' = Max({1, Atoi(Arg(argv + 2))})
                     /\ argv' = argv + 2 /\ argc' = argc - 2
                     /\ UNCHANGED <<items, args, pc, fn>>
                ELSE Stop("outside")
           ELSE /\ argv' = argv + 1 /\ argc' = argc - 1
                /\ UNCHANGED <<items, args, pc, num_interp, fn>>

ScanEnd == /\ pc = "scan" /\ argc = 1
           /\ pc' = "read"
           /\ argc' = Len(args) /\ argv' = 0
           /\ UNCHANGED <<items, args, num_interp, fn>>

-----------------------------------------------------------------------------
(* The loop over the options: while( --argc ) ... argv++ *)
Looking(kinds) == /\ pc = "read" /\ argc # 1 /\ Inside(argv)
                  /\ IsOption(Arg(argv)) /\ Arg(argv)[2] \in kinds

Advance(n) == argc' = argc - n /\ argv' = argv + n

(* An array has num_interp entries.  A surplus name is written behind it,  *)
(* which the program survives or not.                                      *)
ReadModel == /\ Looking(Kinds) /\ Inside(argv + 1)
             /\ LET kind == Arg(argv)[2]
                IN  /\ fn' = [fn EXCEPT ![kind] = Append(@, Arg(argv + 1)[2])]
                    /\ \/ pc' = pc
                       \/ Len(fn[kind]) >= num_interp /\ pc' = "outside"
             /\ Advance(2)
             /\ UNCHANGED <<items, args, num_interp>>

(* windows (arrays of argc entries) and settings *)
ReadValue == /\ Looking({Window, Setting}) /\ Inside(argv + 1)
             /\ Advance(2)
             /\ UNCHANGED <<items, args, pc, num_interp, fn>>

(* -i: its number again, and as many rates as GetNumInterp found *)
ReadInterp == /\ Looking({<<"i", "">>}) /\ Inside(argv + 1 + num_interp)
              /\ Advance(2 + num_interp)
              /\ UNCHANGED <<items, args, pc, num_interp, fn>>

(* mutant of ReadFlag: a switch is counted like an option with a value *)
ReadFlagCounted == /\ Looking({<<"flag", "">>})
                   /\ argc' = argc - 2 /\ argv' = argv + 1
                   /\ UNCHANGED <<items, args, pc, num_interp, fn>>

ReadFlag == /\ Looking({<<"flag", "">>})
            /\ Advance(1)
            /\ UNCHANGED <<items, args, pc, num_interp, fn>>

(* Usage() or Error( 1, ... ): exit() *)
ReadExit == Looking({<<"h", "">>, <<"bad", "">>}) /\ Stop("exit")

(* labfn *)
ReadWord == /\ pc = "read" /\ argc # 1 /\ Inside(argv) /\ ~IsOption(Arg(argv))
            /\ Advance(1)
            /\ UNCHANGED <<items, args, pc, num_interp, fn>>

Wants(arg) == IF ~IsOption(arg) THEN 0
              ELSE IF arg[2] = <<"i", "">> THEN 1 + num_interp
              ELSE IF arg[2] \in Kinds \cup {Window, Setting} THEN 1
              ELSE 0

(* an option, or a value, behind the last argument *)
ReadOutside == /\ pc = "read" /\ argc # 1
               /\ ~(Inside(argv) /\ Inside(argv + Wants(Arg(argv))))
               /\ Stop("outside")

ReadEnd == pc = "read" /\ argc = 1 /\ Stop("check")

-----------------------------------------------------------------------------
(* number of models,trees check *)
Num(kind) == Len(fn[kind])

(* mutant of NumbersMatch: the low-pass filter is not looked at *)
NumbersMatchNoLpf == \A k \in Required : Num(k) = num_interp

(* mutant of NumbersMatch: every voice needs a low-pass filter *)
NumbersMatchLpf == \A k \in Required \cup Lpf : Num(k) = num_interp

HasLpf == \E k \in Lpf : Num(k) > 0

NumbersMatch == /\ \A k \in Required : Num(k) = num_interp
                /\ HasLpf => \A k \in Lpf : Num(k) = num_interp

CheckFails == pc = "check" /\ ~NumbersMatch /\ Stop("exit")

(* the models are loaded and the engine is added *)
Loaded == pc = "check" /\ NumbersMatch /\ Stop("loaded")

(* The global variance of a stream is loaded if there are enough models,   *)
(* the low-pass filter's only with a filter, and with the trees if there   *)
(* are as many.  What is loaded for the filter with trees goes into the    *)
(* stream of the spectrum, where it takes the place of the spectrum's.     *)
GvGiven(s) == Num(<<"c", s>>) = num_interp /\ (s = "lpf" => HasLpf)
GvTrees(s) == Num(<<"c", s>>) = Num(<<"e", s>>)
GvFiles(s) == [models |-> fn[<<"c", s>>],
               trees |-> IF GvTrees(s) THEN fn[<<"e", s>>] ELSE <<>>]
NoGv == [models |-> <<>>, trees |-> <<>>]
GvIndex(s) == IF s = "lpf" /\ GvTrees(s) THEN "mgc" ELSE s

GvLoaded == [t \in Streams |->
               LET into == {s \in Streams : GvGiven(s) /\ GvIndex(s) = t}
               IN  IF "lpf" \in into THEN GvFiles("lpf")
                   ELSE IF t \in into THEN GvFiles(t) ELSE NoGv]

Next == \/ Given \/ ParseConfigFile \/ ParseConfigFails
        \/ Usage \/ StartScan \/ Scan \/ ScanEnd
        \/ ReadModel \/ ReadValue \/ ReadInterp \/ ReadFlag \/ ReadExit
        \/ ReadWord \/ ReadOutside \/ ReadEnd
        \/ CheckFails \/ Loaded

Spec == Init /\ [][Next]_loadVars

(* A thread that loads a voice runs until it is done. *)
FairSpec == Spec /\ WF_loadVars(Next)

-----------------------------------------------------------------------------
(* What the author asked for *)
Is(kind) == {k \in DOMAIN items : items[k][1] = Option(kind)}
InterpItem == CHOOSE k \in Is(<<"i", "">>) : TRUE
Asked == IF Is(<<"i", "">>) = {} THEN 1 ELSE items[InterpItem][2][2]
Named(kind) == FlattenSeq([k \in DOMAIN items |->
                             IF items[k][1] = Option(kind)
                             THEN <<items[k][2][2]>> ELSE <<>>])
NamedGv(s) == LET models == Named(<<"c", s>>)
                  trees == Named(<<"e", s>>)
              IN  IF /\ Len(models) = Asked
                     /\ s = "lpf" => \E k \in Lpf : Len(Named(k)) > 0
                  THEN [models |-> models,
                        trees |-> IF Len(trees) = Asked THEN trees ELSE <<>>]
                  ELSE NoGv
HasExtra == items # <<>> /\ Last(items) = LabelFile

(* The usage text's options, each with its values; GetNumInterp does not   *)
(* see an -i at the very start, and makes one speaker of none.             *)
Proper == /\ items # <<>> /\ Head(items) # LabelFile
          /\ \A x \in {CutInterp, CutSet} : ~Contains(items, x)
          /\ 1 \notin Is(<<"i", "">>) /\ Asked >= 1
          /\ Len(args) <= maxNumOfArguments

(* load() returns only with what the list names: for duration, mgc and lf0 *)
(* as many models and trees as speakers were asked for, for the low-pass   *)
(* filter as many or none, and of every kind exactly the named files in    *)
(* their order.  A stream has the global variance named for it, if that is *)
(* complete; only the spectrum and the low-pass filter do not, when trees  *)
(* are named for the filter's (GvIndex).                                   *)
LoadsWhatWasNamed ==
  pc = "loaded" /\ Proper =>
     /\ \A k \in Kinds : fn[k] = Named(k)
     /\ \A k \in Required : Num(k) = Asked
     /\ \A k, l \in Lpf : Num(k) = Num(l) /\ Num(k) \in {0, Asked}
     /\ \A s \in Streams :
           \/ s \in {"mgc", "lpf"} /\ NamedGv("lpf").trees # <<>>
           \/ GvLoaded[s] = NamedGv(s)

(* The loop never looks at the last argument.  That is why SCMage_addVoice *)
(* needs the empty one at the end: behind it no option can straddle the    *)
(* end of the list, and without it a list that ends with an option's value *)
(* is never loaded, for the loop runs past the arguments.                  *)
Straddles == Len(Last(items)) >= 2
Surplus == \E k \in Kinds : Len(Named(k)) > Asked
LastArgumentNeeded ==
  /\ pc = "outside" /\ Proper => ~HasExtra \/ Surplus
  /\ pc = "loaded" /\ Proper => HasExtra \/ ~Straddles

(* Every complete list of a voice, switches and interpolation anywhere but *)
(* in front, and with the extra argument, is loaded in the end.            *)
CompleteList ==
  /\ Proper /\ HasExtra /\ ~Surplus
  /\ \A x \in {Bad, Help} : ~Contains(items, x)
  /\ \A k \in Required : Len(Named(k)) = Asked
  /\ \A k, l \in Lpf : Len(Named(k)) = Len(Named(l)) /\ Len(Named(k)) \in {0, Asked}
CompleteVoiceLoads == (pc = "load" /\ CompleteList) ~> (pc = "loaded")
=============================================================================
