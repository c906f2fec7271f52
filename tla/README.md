# TLA+ specifications of vox

vox is a speech instrument for norns: a Lua script drives a SuperCollider
engine, the engine turns phrases into phonetic labels and plays them through
`SCMage`, a unit generator around the MAGE library, which synthesises speech
from statistical models (HMMs) while it is being controlled. The modules here
model the program's own logic: queues, threads, life cycles, the pipeline from
label to frame, the parsing of label buffers and voice arguments, the
asynchronous set-up of the engine, and the script that controls it. TLC checks them on
small instances and TLAPS proves the central invariants for all sizes.

    tlc -config Mage.cfg Mage          # check a run (module and cfg: PROJECT.json)
    tlapm FrameQueueProofs.tla         # check the proofs of a module

`PROJECT.json` lists components, runs, the map from definitions to source
lines, mutants (for every property a plausible bug that breaks it), findings,
hazards and theorems.

## The system

| Component | Source | State | Operations |
|---|---|---|---|
| Ring buffer | `MemQueue.h` | `rawData`, `read`, `write`, `nOfItems` | `push`, `pop`, `get` (arrays or in place), `next`, `isEmpty`, `isFull` |
| Frame queue | `MemQueue.h` as `FrameQueue`, used in `ModelQueue.cpp`, `mage.cpp` | the same, shared by two threads; `sampleCount`, `hopLen` | `generate()` pushes, `updateSamples()` pops, `setSpeed()` |
| Label buffer | `SCMage.cpp`, `Label.cpp` | intermediate string, `parseQuery`'s static strings | `SCMage_pushLabelsFromSndBuf`, `parseQuery` |
| Label queue | `LabelQueue.cpp` | ring of labels | `push`, `pop`, `get`, `clear` |
| Pipeline | `mage.cpp`, `ModelQueue.cpp` | label queue, model queue, `flag`, window | `run()` = `popLabel`, `prepareModel`, `computeDuration`, `computeParameters`, `optimizeParameters`; `pushLabel`, `clearLabels`, `reset` |
| State durations | `Model.cpp`, `hts.cpp` | `state[i].duration`, `duration_array`, `duration` | `initDuration`, `computeDuration`, `mHTS_set_duration`, `updateDuration` |
| Parameter rows | `ModelQueue.cpp` | `ModelQueueMemory`, per stream a row per frame | `optimizeParameters()` fills, `generate()` reads back |
| Voice arguments | `hts.cpp`, `mage.cpp` | `argc`, `argv`, `num_interp`, arrays of file names | `parseConfigFile`, `GetNumInterp`, `Engine::load` |
| Engine map | `mage.cpp` | map of voices, default, ready flag, weights | `addEngine`, `removeEngine`, `setDefaultEngine`, `checkReady`, weights, `reset`, `~Mage` |
| Vocoder | `Vocoder.cpp` | `f0`, `t0`, `action`, `actionValue`, filter | `setPitch`, `push`/`prepare`, `pop`/`excite` |
| Unit generator | `SCMage.cpp` | the unit's fields, its generator thread | constructor, calculation function, destructor, `genThread` |
| Language class | `SCMage.sc` | files of a labelling | `labelize`, `labelBuf` |
| norns engine | `Engine_VoxExMachina.sc` | buffers, control values | `create_buffers`, `alloc`, commands |
| norns script | `vox.lua` | the values shown, menu position, mute | menu, keys, encoders, OSC |

**Interaction.** `vox.lua` sends engine commands; a phrase command creates a
synth; its `SCMage` unit reads a label buffer in its constructor, pushes the
labels and starts a generator thread. That thread loads a voice (`addEngine`)
and then calls `run()` and `setPitch()` for ever. The audio server's real-time
thread calls `SCMage_next` per block: it stores the controls, takes frames from
the frame queue and lets the vocoder make samples. The two threads share, with
no lock, the frame queue, the vocoder's pitch and the unit's control fields.
The destructor cancels and joins the generator thread.

**What is hard.** Unsynchronised read-modify-writes of the queue's counter and
of the pitch; checks that are acted on later; a join on the thread that others
wait for; constructors that fail half way; window arithmetic that has to agree
in several places (model queue, rows of the parameter memory, durations);
voices removed while in use; static strings that outlive a label; an option
loop whose counter and pointer disagree by one; labelling that outlasts its
timeout; two copies of every control, one of them behind a queue of commands. `PROJECT.json`
lists each of these at its line, under `hazards`.

**What makes each part correct**, in short: the ring buffer is a FIFO; every
frame reaches the vocoder once and in order; every label is spoken once, in
order, and `run()` comes back; frames carry the parameters computed for them; a
model's duration is the sum of its states and fits the memory; `ready()` means
there is a loaded voice; the pitch follows the controls; a unit's objects outlive
their users and its destructor returns; a buffer holds the labels its help file
says; a voice is loaded as named; a command speaks its phrase; the engine follows
the screen.

## Modules

* **`BoundedFifo`** is the abstract queue: a sequence, and a next item to fill.
* **`MemQueue`** is the ring buffer with every method of the template, copies
  split at the end of the array included. The refinement mapping reads the
  queue off `read` and `nOfItems`. Callers push only what fits, as the comment in
  `push()` demands.
* **`FrameQueue`** extends `MemQueue` by the two threads. `push()` and `pop()`
  are cut at every access of shared state: the check, the fill or read in place,
  the index, the load of `nOfItems` and its store. The ghost `raced` records that
  a store overwrote the other thread's update. Memory is sequentially consistent.
* **`LabelQueue`** holds the label queue's operations, used by `Mage`.
* **`Mage`** is the pipeline: `run()` method by method, with the audio callback
  between any two of them. `pushLabel`, `clearLabels` and `reset` are called
  between two runs only, as by a client that calls them from the thread of
  `run()`, or before it starts it, as SCMage does. The model queue is an instance of
  `MemQueue`. Labels are numbers, and a model is its label and its duration.
* **`StateDurations`** (instance: `MCStateDurations`) computes the frames per
  state. Whole numbers stand for doubles, the rounding of the first estimate is
  exact, and the state the correction loop picks, a matter of floating-point
  comparisons, is any of those it looks at. It discharges what `Mage` assumes of
  `Durations`, and what `ParamWindow` assumes: the total is the sum of the states.
* **`ParamWindow`** lays the frames of a window out in rows, per stream, and
  walks over the same models again to read them; the pitch stream has rows for
  voiced frames only. A row's content is the frame and window it was computed for.
  A model has at most `maxDuration` frames in all, as `updateDuration()` leaves it;
  one state may have all of them.
* **`EngineMap`** is the map of voices against the lookups of `run()`. The
  constant `RemoveConcurrently` says whether `removeEngine()` may run during
  `run()`. `engine[name] = pair` is two steps, the insertion of a pair of null
  pointers and its assignment; each of them, a lookup and an erasure of the
  `std::map` are taken as atomic.
* **`Vocoder`** (instance: `MCVocoder`) is the excitation: `setPitch()` of one
  thread and `prepare()` and `excite()` of the other, cut at each shared access.
  `t0` is represented by the pitch it was computed from; 0 is an infinite period.
* **`SCMage`** is the life of a unit: every way the constructor ends, the
  calculation function, the destructor in its three steps, the generator thread
  with its cancellation points, and `exit()` when a voice cannot be read. The
  Mage object is reduced to counts of labels and frames.
* **`LabelSource`** reads a label buffer sample by sample and parses its lines. A
  character is its class (digit, space, newline, null, other) and a string the
  sequence of samples it came from, so a field taken from another label shows.
  What earlier units left in the static strings is open in the initial state.
* **`SCMageUnit`** composes `SCMage` and `LabelSource`: the constructor reads its
  buffer and enters the life of the unit with the labels it found; the strings
  left behind are there for the next unit.
* **`VoiceArgs`** is `Engine::load` up to the models: arguments given by the
  caller or read from a file, the search for `-i`, the option loop with counter
  and pointer kept apart, the check of the numbers. A read or write outside of an
  array ends in `outside`, or goes on where the code may survive it. The lists
  are those of a voice with one edit: an option dropped, doubled, cut or added.
  Global variance is kept per stream, with the stream each block loads it into.
* **`EngineBuffers`** is the start of the norns engine: one chain of shell
  commands per phrase, five seconds apart, each command ending well or not; the
  last callback allocates the next buffer number. The engine is loaded once, on a
  server with no buffer allocated yet. A synth variant reads the number
  fixed for its phrase. (The argument `bufnum` of the commands is no control of
  the synth and has no effect.)
* **`VoxScript`** is `vox.lua`: menu, K3, E2, E3 and the three OSC messages, the
  values on the screen and the commands on their way to the engine, whose handlers
  are here too. A continuous control is one of a few levels, and what
  `controlspec:map` makes of an argument is any value of the control's range.
* **`VoxEngine`** composes `VoxScript` and `EngineBuffers`: the script starts when
  `alloc` is over, phrases still being labelled or not.
* **`DataInduction`** has lemmas about data for the proofs: induction, recursive
  functions, sums, flattened sequences and their pieces, selections, ranks.
* **`FrameQueueProofs`** (of `MemQueue` too), **`MageProofs`**,
  **`StateDurationsProofs`**, **`ParamWindowProofs`**, **`SCMageUnitProofs`** (of
  `SCMage` and `LabelSource` too), **`EngineProofs`** (of `EngineMap` and
  `VoiceArgs`) and **`VoxEngineProofs`** hold the proofs.

`FrameQueue` extends `MemQueue`, and `Mage` extends `LabelQueue` and instantiates
`MemQueue`; `SCMageUnit` extends `SCMage` and `LabelSource`, `VoxEngine` extends
`EngineBuffers` and `VoxScript`. The other modules stand on what these show, as
their comments say.

## Runs

Passing runs:

| Run | Checks | Bounds, and why they are enough |
|---|---|---|
| `MemQueue` | `RingInv`, refinement of `BoundedFifo` | Length 3, two items, arrays up to the length: copies that end before, at and after the array's end. |
| `FrameQueue` | `ChecksStayValid`, `CountInRange`, `NoSharedSlot`, `FramesInOrder`, `GeneratorFinishes` | 3 slots, 6 frames: the ring wraps twice, each thread can be a whole lap ahead; speeds below, at and above the allowed range. |
| `Mage` | `ModelSlotFree`, `LabelsSpokenInOrder`, `LabelsFedInOrder`, `WindowFits`, `NoSelfBlock`, `LabelsAllSpoken` | The build's window (0 ahead, 2 back); 6 labels let the window fill and slide past the model queue's end; a label queue of 2 overflows; models of 0 and of the maximal length. |
| `StateDurations` | `LengthDistributed`, `DurationIsSum`, `LoopEnds` | 3 states, 2 engines, weights and controls of both signs; lengths that are too short, need shortening and need lengthening. |
| `ParamWindow` | `FramesFromOwnRows`, `DynamicRowsAdjacent` | 2 states of 0, 1 or 3 frames, voiced or not, at most 3 frames per model in 10 rows: one state may have all of them. 4 models: the window fills and slides once, with every pattern of voicing. |
| `EngineMap` | `ReadyHasDefault`, `GeneratorUsesLoaded`, `EnginesOwned`, `ResetRestores` | 2 names, 3 loads: a name is removed and used again, the default is removed with and without another engine, and a second engine is added while `run()` interpolates. |
| `Vocoder` | `OverwriteSettles`, `NoactionFollowsModel` | One pitch besides that of unvoiced frames, values of both signs, all orders in which the compiler may load two control fields. |
| `SCMageUnit` | `MageOutlivesUsers`, `DtorReturns`, `BufferSpoken`, `LabelsAsDocumented`, `WellFormedParsedAlone` | Every buffer of up to 6 samples in 1 or 2 channels, strings of 4 and a queue of 2: lines that are cut, lines that are dropped, lines with up to three fields after one with more; 3 frames per label through 2 slots, so that the generator blocks in the middle of a label. |
| `VoiceArgs` | `LoadsWhatWasNamed`, `LastArgumentNeeded`, `CompleteVoiceLoads` | 1 and 2 speakers, with and without low-pass filter and global variance, one edit anywhere, `-i` anywhere, the extra argument or not; duration and mgc stand for lf0 too, which the code treats alike; the low-pass filter is a stream of its own. An array of 49 arguments is too small for some files. |
| `VoxEngine` | `OnTimeSpeaksAsked`, `AllBuffersCreated`, `EngineFollowsScreen` | 2 phrases of the code's 4 commands each, so that one can overtake the other; a discrete and a continuous control, the two with a special case (`voice`, `scale`); 2 commands on their way. |

A type invariant is checked where it says something the other properties do not
(`FrameTypeOK`, `MageTypeOK`, `ParamTypeOK`, `UnitTypeOK`, `EngineTypeOK`); the
types of the ring buffer and of the engine map are proved instead.

Bounds in guards are named `Max...`: frames, labels, models, loads, plays, and
the pitch above which the vocoder's values are not told apart.

Deadlock is checked except in `EngineMap` (a Mage is destroyed),
`StateDurations` and `VoiceArgs` (a computation ends).

Runs that end in a violation, each stating what a comment or a document says:

| Run | What the code does instead |
|---|---|
| `FrameQueueOverrun` | An update of `nOfItems` is lost when both threads change it at once (`MemQueue.h:303` and `:350`); the count is then too low for good, and the generator overruns frames not yet played although it asks `isFull()` each time. |
| `VocoderRace` | `setPitch()` stores the infinite period of an unvoiced frame after `prepare()` has made the frame voiced; an infinite pulse enters the recursive filter. |

None of them contradicts the passing runs. In particular `CountInRange` and
`ChecksStayValid` survive lost updates, while `FramesInOrder` and
`NoSharedSlot` are stated for behaviours without one; `NoactionFollowsModel` is
about the period once the frames' pitch no longer changes, which a stale store of
`setPitch()` does not outlast.

### Other deviations met while modelling

The models contain these behaviours, and no run reports them separately:

* **Destructor after a failed constructor** (`SCMage.cpp:217-220`). When an
  allocation fails the constructor returns early, and when `pthread_create` fails
  it does not notice; the destructor still cancels and joins `unit->thread` and
  may free `unit->mage`, fields in memory that was not cleared. The actions
  `DtorCancelWild` and `DtorFreeWild` stand for that.
* **Shift and scale accumulate** (`Vocoder.cpp:124-131`). The generator calls
  `setPitch()` in every round, about every 100 microseconds, and each call shifts
  or scales `f0` again, until the next frame resets it. The engine's default
  `voxMode` is 1, shift.
* **A write before the array** (`hts.cpp:803-820`). When a first estimate is too
  long and no state but the first has more than one frame, `mHTS_set_duration`
  finds no state to shorten, `j` stays -1 and `duration[-1]` is decremented:
  for instance with means 4, 1, 1, variances 1, 9, 9 and a length of 5
  (`ShortenNone`, and the variable `corrupted`).
* **A pitch that push() does not overwrite** (`Vocoder.cpp:244-262`). `Vocoder.h:170-171`
  says of `setPitch()` that it "will get overwritten at the next push( Frame )", and
  that it has to be called after every `push()`. But `prepare()` applies the action
  and value that `setPitch()` kept to each new frame, so an overwritten pitch stays:
  `OverwriteSettles` holds with frames arriving, and its mutant `ForgetActionValue`
  is what the comment describes.
* **The null engine of `addEngine()`** (`mage.cpp:644`). `engine[EngineName] =
  tmpEngine` inserts a pair of null pointers and then assigns it, while a `run()` that
  interpolates goes through the whole map (`:376`, `:399`) and can be given the null
  engine. Line 637 says of the loading that "it shouldn't crash other threads", lines
  641-643 that "we might have a problem, if it happens, a lock will be necessary
  around this insert". `GeneratorUsesLoaded` allows the null pointer in this one case
  (`loop`); without it TLC shows the case, a second engine added during an
  interpolating run. The default engine is not affected: its name is stored after
  its pair is complete. SCMage does not interpolate.
* **Global variance of the low-pass filter** (`hts.cpp:525-531`). Under the comment
  "load gv[2]( GV for low-pass filter )" models with trees (`-cl`, `-el`) are loaded
  with stream index 0, over those of the spectrum, and the filter has none; without
  trees the index is 2. `LoadsWhatWasNamed` leaves these two streams out for lists
  that name such trees, and TLC shows the case without that exception. The voices
  of `SCMage_addVoice` name no global variance for the filter.
* **Removing an engine in use** (`mage.cpp:482-486`). `removeEngine()` deletes an
  engine without asking whether `run()` works with it, although the comment there
  says "this shouldn't impact on other threads". `EngineMap` shows it with
  `RemoveConcurrently = TRUE`: `GeneratorUsesLoaded` fails. SCMage itself never
  removes an engine.
* **Weights that survive `reset()`** (`mage.cpp:319-322`). The weights go back to
  their default only where the sum computed by the previous `reset()` is not
  zero; before the first one it is uninitialised. `mage.h:394` promises to discard
  "all user controls". From a reset that finds a weight on, every later one does
  restore them (`ResetRestores`).
* **Fields of earlier labels** (`Label.cpp:82-84`). `getline` on an exhausted line
  leaves its string alone, and the strings are static. A line with two numbers
  and nothing else takes its query from an earlier label; a line that starts with
  a digit and has no space takes the end time and query of one. Labels without
  times, and timed ones with all three fields, are safe (`WellFormedParsedAlone`).
  The strings are also shared by units built on different threads, if a server
  were to do so.
* **Strings of full length** (`Label.cpp:87`). A line of `maxStrLen` characters or
  more is cut at `maxStrLen`, and then copied with its terminator into arrays of
  `maxStrLen`: one byte too many.
* **The last argument of a voice** (`hts.cpp:192`). The loop counts down before it
  looks and starts with the first argument, so it never looks at the last one, and
  an option whose value is the last argument takes the counter from 1 to 0 and
  below, and the loop past the list. This is the answer to the question in
  `SCMage.cpp:168-169` why leaving the unused last argument out ends in a
  segmentation fault: `LastArgumentNeeded`.
* **Interpolation options** (`hts.cpp:383-391`, `:690`). `GetNumInterp` does not
  look at the first argument, so a leading `-i 2` is taken for one speaker; and
  after `-i 0`, which counts as one speaker, the option loop swallows the argument
  that follows as a rate.
* **Surplus options** (`hts.cpp:214-254`, `:397-432`). Names are stored in arrays
  of `num_interp` entries before their number is checked; for global variance it
  is never checked, and a surplus name only switches it off.
* **Long configuration files** (`mage.cpp:688`). More than `maxNumOfArguments`
  words are written behind the array.
* **Late labelling** (`Engine_VoxExMachina.sc:47-68`). `create_buffers` waits five
  seconds per phrase, not for the callback, and a buffer's number is allocated in
  the callback. When one labelling outlasts its wait and the next one's, the two
  phrases swap buffers for good; `OnTimeSpeaksAsked` is about the other case.
* **No label file** (`SCMage.sc:78`). Were the last command to leave no `.lab` file
  at all, `File.use` would throw and the phrase take no buffer number. The shell
  opens the file of the redirection (`:68-69`) before it runs the command, so this
  takes a directory that cannot be written; the model has a file in every case.
* **The script's two copies** (`vox.lua`). The modes are -1 to 2 in the script
  (`:11`), and the engine subtracts one more (`Engine_VoxExMachina.sc:146`): what
  is shown as "mul" is the engine's shift, and scale cannot be selected. The
  script starts with voice 5, the engine with 0. `/netvoltage` sets the voice of
  the engine only. `EngineFollowsScreen` leaves voice and mode out for these
  reasons.
* **Controls that do something else** (`vox.lua:193`, `:309`, `:401`). The action
  of the voice parameter calls `set_mute`; K3 past the largest time scale
  assigns the undefined `voxmin`, after which K3 and drawing fail until another
  handler sets the scale; `/voxvoltage` toggles whatever its argument says.
  `EngineFollowsScreen` compares screen and engine, so it does not notice a handler
  that changes both in the wrong way, and exempts the undefined value.
  `/hexvoltage` sends the phrase before its alpha and voice, which the synth it
  starts then lacks, and needs three arguments where its comment (`:367`) shows
  two. The gap reaches the engine, and no synth uses it.

## Fairness

* `FrameQueue`, `Vocoder`, `SCMageUnit`: weak fairness of each thread. The audio
  server calls the unit for every block, and the scheduler runs a generator that
  only ever sleeps for a bounded time. Nobody has to create, free or control
  anything. A join in progress goes on.
* `Mage`: weak fairness of `run()` (the generator calls it in a loop) and of the
  audio callback. The client owes nothing.
* `StateDurations`: the thread in the correction loop keeps running.
* `VoiceArgs`: the thread that loads a voice keeps running.
* `VoxEngine`: shell commands end and sclang runs its routine; how long each
  takes, compared with the five seconds, is open. sclang handles the commands it
  receives. Nobody has to turn or press anything.

## Proofs

All theorems are about every value of the constants allowed by the named
assumptions (a positive queue length, natural bounds). None of them bounds what
the code does not: in particular the frames of a state are limited only by
`maxDuration`, the limit of its model's sum.

* **`DataInduction`**. The library's induction rules take an operator, which the
  provers cannot instantiate. Here induction is stated with the set of numbers
  that have the property (`Induct`), from the fact that a set of naturals has a
  least element; for finite sets and sequences likewise (`FiniteInduct`,
  `SeqInduct`). A recursive function is a `CHOOSE`, so before anything can be said
  of it it has to exist: `RecursionExists` builds it from its finite
  approximations. On these rest the lemmas about `SumFunction` (`SumFunctionIs`,
  `SumChanged`, `SumMonotone`), `FlattenSeq` (`FlattenIs`, `FlattenAppend`,
  `FlattenConcat`), selections from a sequence (`Kept...`) and the rank of an
  element in a set of numbers (`RankNext`, `RankChosen`).
* **`FrameQueueProofs`**, for the ring buffer: `MemInv` = types and `RingInv` (`write` is `nOfItems`
  slots after `read`) is inductive. For the refinement, what a wrapping copy
  reads or writes is stated slot by slot (`CopyInSlots`, `CopyOutSlots`), from
  which a push appends to the abstract queue and a pop drops from it
  (`PushAppends`, `PopDrops`, `CopyOutTakes`). `MemQueueImplementsFifo` then maps
  initial states and steps.
  For the two threads, `CountInv` adds to the range of `nOfItems` the range of
  both threads' registers while they are between load and store: without them a
  store could put the count anywhere. It holds with lost updates, and gives
  `CountStaysInRange`, `ChecksAreStable` and `FrameTypeCorrect`. `FifoInv`, for
  behaviours without a lost update, says that the count is exact up to the two
  updates in progress, that indices, pushed and popped frames agree, that every
  slot in between holds its frame, and what was handed over is the oldest. It
  gives `FramesDeliveredInOrder` and `SlotsNotShared`.
* **`MageProofs`**: `MageInv` has two halves. `PipeInv` says where the model queue
  stands at every point of `run()`: at most `nOfBackup` models between two labels
  and one more once `computeParameters` has pushed it (`RingOK`), the label in work
  is the last one popped and sits in the newest model, which is the one
  `generate()` is given (`SpokenOK`), and a `run()` that began with an empty frame
  queue has no more frames queued and to come than the cap (`RoomOK`). Neither
  `flag` nor a check of the model queue is needed for that: the window slides
  exactly when it is full. `FedOK` says that the labels waiting are in the order
  of their calls and later than every label popped, wherever the ring wraps
  (`PushKeepsOrder`, `PopKeepsOrder`). They give `PipelineTypeCorrect`,
  `PreparedSlotIsFree`, `EveryLabelSpokenInOrder`, `LabelsKeepTheirOrder` and
  `RunNeverBlocksItself`; and, since a running sum of durations is at most their
  number times the cap (`RunningSumBounded`), `WindowsFitMemory`.
* **`StateDurationsProofs`**: `DurationInv` says of the correction loop that, until
  it writes outside of the array, the sum it keeps is the array's and no state is
  below one frame; changing one state changes the sum by as much (`SumChanged`).
  It gives `LengthsAreDistributed`; `DurationsAreSums` adds what `updateDuration`
  does to the states, where the cap cuts what is left of the total
  (`FitWithinCap`).
* **`ParamWindowProofs`**: `WindowInv` has two parts. `RowsFilled` says, after
  `optimizeParameters()`, which frame of the window each row was computed for: in
  the spectrum's rows the frames, in the pitch's rows the voiced ones, a selection
  of the flattened window. `WalkInStep` says that the walk of `generate()` is at
  the rows of the frame it is about to push: it has counted as many voiced frames
  as the layout put before that frame (`VoicedRow`, `VoicedNext`). That the window
  fits the rows follows from its width times `maxDuration` (`WindowCapacity`). They give
  `RowsStayAllocated`, `FramesTakeOwnRows` and `SmoothingStaysAdjacent`.
* **`SCMageUnitProofs`**, for the life of a unit: `LifeInv` ties the phase of the unit to which of Mage object
  and thread exist; a destructor past its join has no thread left. It gives
  `SCTypeCorrect` and `MageOutlivesItsUsers`.
  For the composed unit, fields and rests of strings are strings (`FieldType`, by
  way of the first space of a line), so every step of the reading keeps
  `SourceTypeOK`, in particular the string and the queue within their bounds.
  `UnitImplementsSCMage` maps every step of reading to a stutter of `SCMage` and
  the constructor's end to one of its constructors, the labels found being at most
  `MaxLabels` (`UnitAssumption`); the types and `MageOutlivesUsers` then carry over
  (`UnitTypeCorrect`, `UnitMageOutlivesUsers`).
  For what is read, `SourceInv` relates a reading in progress to the documented
  lines (`ReadTo`): n frames are read, none of them null; the queue has the lines
  ended among them, as far as there is room, and the string what followed the last
  newline, cut at its length. The i-th newline is the one of rank i, so a newline
  ends the next line (`NewlineRead`), and when reading stops no newline is left
  (`ReadStopInv`): `LabelsReadAsDocumented`. Reading field after field with
  `getline` finds the fields between the spaces (`FieldBehind`), and the static
  strings get into a label only where its line has no such field (`LabelAlone`):
  `LabelsParsedAlone`.
* **`EngineProofs`**, for the map: assuming `removeEngine()` and `run()` exclude each other,
  `PhaseInv` describes the map in every phase of `addEngine()` and
  `removeEngine()`, and `RunInv` says that `run()` is under way only with the flag
  up. Together with ownership of every engine object they are inductive and give
  `ReadyMeansDefault`, `RunUsesLoadedEngines` and `EveryEngineOwned`. While an
  engine is between insertion and assignment its name is not the default's, which
  is why only an interpolating stage can be using the null pointer.
  `ResetKeepsRestoring` adds that the sum `reset()` depends on stays nonzero.
  For the argument lists, `LoadInv` relates the two loops, which see arguments, to
  the items the arguments were written as. `GetNumInterp` goes from argument to
  argument: its number is the one asked for once it is past the option `-i`, which
  is found where its item starts and nowhere else, values being no options
  (`InterpAt`, `ScanOK`). The option loop is always in front of an item, has the
  names of the items behind it, and counts what is left of `argv` (`AtItem`): every
  action takes exactly the arguments of one item (`ReadOthers`, `ReadFile`). So a
  list that is read to the end ends with an item of one argument, which names no
  file (`ReadToTheEnd`): `VoicesLoadAsNamed`, where each stream's global variance
  is followed from the list to its slot (`StreamsLoadGv`); and the loop gets behind the arguments
  only without that item (`ReadBehind`), behind an array only by a surplus name
  (`ReadFile`): `LastArgumentIsNeeded`. That every list the model starts from is a
  sequence of such items with at most one `-i` is `ListsOK`.
* **`VoxEngineProofs`**: `EngineInv` counts the buffers: as many as chains have
  ended. `OrderInv` says that while nothing is late all phrases before the one
  waited for are done, none after it has started, a phrase's buffer is at its
  position, and synths exist only after `alloc`; without the last part a failure
  could still change what an earlier synth should have said. They give
  `EngineTypeCorrect` and `PhrasesSpokenAsAsked`.
  `ScriptInv` says of every control that the last command on its way, or else the
  engine's value, is the one shown. A handler of the script sends the commands of
  some of its controls, those that are present (`CommandsAre`), each after it
  changed the value shown; handling the oldest command changes nothing of what the
  engine will have in the end (`HandledFollows`, `SentFollows`):
  `EngineEndsWithWhatIsShown`.

Only model-checked: everything under fairness (`GeneratorFinishes`,
`LabelsAllSpoken`, `DtorReturns`, `BufferSpoken`, `OverwriteSettles`,
`NoactionFollowsModel`, `LoopEnds`, `AllBuffersCreated`, `CompleteVoiceLoads`),
since the proof system handles neither `ENABLED` nor fairness.

## Not modelled

* Weak memory: `isEmpty()` and `isFull()` issue their barrier before the load
  they should protect; all runs assume sequential consistency.
* The statistics: decision trees, parameter generation (`HTS_PStream_mlpg`),
  the MLSA filter, `MathFunctions`. Floating-point computation on data.
* `PsolaVocoder`, which the unit generator does not use.
* The contents of voice files (read by hts_engine), and the options of a voice
  that are neither models nor interpolation, beyond the arguments they take.
* The labelling tools behind the shell commands: sequential text conversion by
  Festival, awk and Python. Their failures are in `EngineBuffers`.
* `vox.lua`: drawing, the crow inputs (commented out in `init`), `cleanup`. In the
  run `VoxEngine` the controls mode, freq, alpha and gap are not instantiated: the
  first is exempt from the property, the others follow the code path of scale
  without its special case.
* The life cycle of synths: a phrase command creates one, nothing frees it, and
  what becomes of them is up to the memory of the audio server.
* Vendored code (SuperCollider, PortAudio, Festival, hts_engine): nearly all of
  the repository's 1.19 million lines, against about 8 000 of the program's own.
  The share of lines the map covers is therefore tiny and cannot be otherwise.
  What the program relies on (deferred cancellation, buffer numbers in order of
  allocation, commands handled in order) is marked external in the map or stated
  in the modules.

## Plan

Done, in this order: `MemQueue` with its abstract FIFO, `FrameQueue`,
`LabelQueue` and `Mage`, `SCMage`, `Vocoder`, `ParamWindow`, `EngineMap`,
`StateDurations`, `EngineBuffers`, `LabelSource` and `SCMageUnit`, `VoiceArgs`,
`VoxScript` and `VoxEngine`; the proofs of every safety invariant the passing
runs check. To do:

1. That `FrameQueue` without lost updates implements `BoundedFifo`.
2. The label queue between two threads (clients other than SCMage push labels
   while `run()` pops them), as `FrameQueue` does for frames.
