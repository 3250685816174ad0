# libambix in TLA+

TLA+ modules, model checks and machine-checked proofs for
[libambix](../src/README.md), the library (and its companion programs) for
reading and writing ambix files: CAF sound files that hold an ambisonics
sound field, either as a full set of channels (BASIC) or as a reduced set with
an adaptor matrix that restores the full one (EXTENDED).

## The system

| part | code | state | operations |
|---|---|---|---|
| ambix handle | `libambix/src/libambix.c` | `ambix_t`: formats shown and on disk, two matrices, labels, `startedWriting`, `pendingHeaders`, the adaptor buffer | the public API: open, close, seek, readf/writef, markers and regions, adaptor matrix |
| backend | `libambix/src/sndfile.c` (or `coreaudio.m`, `null.c`) | a libsndfile handle and the chunks set on it | open (and recognise), close, read, write, chunks |
| adaptor | `libambix/src/adaptor.c` | the adaptor buffer | split a frame of the file, merge a frame for the file, with or without a matrix |
| chunks | `uuid_chunk.c`, `marker_region_chunk.c` | none | matrix and labels to and from bytes |
| matrices | `matrix.c`, `matrix_invert.c`, `adaptor_fuma.c`, `adaptor_acn.c` | none | product, pseudo-inverse, Furse-Malham and channel-order conversions |
| channel arithmetic | `utils.c` | none | orders and channel counts |
| `[ambix_write~]`, `[ambix_read~]` | `samples/pd/ambix_write~.c`, `ambix_read~.c` | a fifo of frames, a request code, a mutex and two conditions, two threads | Pd messages, DSP ticks, the disk thread |
| `[ambix_info]` | `samples/pd/ambix_info.c` | none | open, print, close |
| JACK player and recorder | `utils/ambix-jplay.c`, `ambix-jrecord.c`, `jcommon/jack-ringbuffer.c`, `observe-signal.c` | JACK's ring buffer, a pipe of pokes, a seek request, a timer, the signals received | process callback, sync callback, disk thread, main |
| interleaver, deinterleaver | `utils/ambix-interleave.c`, `utils/ambix-deinterleave.c` | open files, a matrix, block buffers | command line, open input, open output, copy blocks, close |
| other command line tools | `utils/ambix-dump.c`, `-info.c`, `-matrix.c`, `-test.c` | option records | open, print, close |

The programs and externals call the library, the library calls its backend and
the backend calls libsndfile. Within the library nothing runs concurrently; a
handle is used by one thread at a time. The externals have a *parent* (Pd's
thread: messages and DSP ticks, one at a time) and a *child* that touches the
file, which share the fifo under a mutex and wake each other through two
conditions. The JACK programs have the same division with a lock-free ring
buffer, and a pipe in which the process callback leaves a byte (a *poke*) for
the disk thread after every period. The interleaver and the deinterleaver run
alone, one after the other: what one writes the other reads.

What is hard:

* **The handle**: what a caller is shown, what is on disk and which of two
  matrices is applied are three different pieces of state that open,
  `ambix_set_adaptormatrix()` and the first write change in different orders;
  headers are written late and may fail half-way; a label is spread over two
  chunks.
* **The externals**: everything two threads do around a mutex that is given up
  in the middle of a request: requests that overtake each other, signals that
  nobody waits for, a fifo that is full, a write that fails, deletion at any
  time.
* **The JACK programs**: the disk thread looks at the ring, then sleeps in the
  pipe; the pokes are not counted against the periods; a seek is requested and
  reset without a lock; the callback may end the program at any moment; a
  signal must end a disk thread that sleeps.
* **The tools**: several inputs of which any may be missing, short or too many;
  a file written in blocks through four buffers with different layouts; a step
  that fails with the others done.

What makes each part correct:

* handle: frames built or taken apart have the channels of the file; the buffer
  holds them; headers precede data and never change after; what a reader is
  told is what the writer configured; an error means no effect.
* externals: the file is the recording (or the output is the file) frame by
  frame; memory read without the mutex is stable; each wait ends; a stop
  flushes; deletion ends.
* JACK programs: no frame vanishes; nobody sleeps over work; they end.
* tools: each channel at its place in every block; what one writes the other
  reads as it was meant.
* matrices, chunk codecs: inverse pairs, sizes, bounds.

`PROJECT.json` lists the hazards line by line with the properties that cover
them.

## Modules

| module | what it is |
|---|---|
| `AmbixUtil` | channel arithmetic (`utils.c`) |
| `AmbixHandle` | one handle and its file; one action per API call |
| `AmbixFile` | what a file promises to a writer and its readers, without handle or chunks |
| `MCHandle` | small instances of `AmbixHandle` |
| `PdWrite` | `[ambix_write~]`, both threads |
| `PdRead` | `[ambix_read~]`, both threads |
| `JackRecord` | `ambix-jrecord`: process callback and disk thread |
| `JackPlay` | `ambix-jplay`: disk thread, process callback, sync callback |
| `SampleFifo` | what a buffer of frames promises |
| `Matrices` | matrices with integer entries, and what is done with them to blocks of samples |
| `Interleave`, `Deinterleave` | `ambix-interleave`, `ambix-deinterleave` |
| `Tools` | one after the other, and what both are for |
| `MCTools` | small instances of `Tools` |
| `AmbixUtilProofs`, `AmbixHandleProofs`, `PdReadProofs`, `PdWriteProofs`, `JackRecordProofs`, `JackPlayProofs`, `ToolsProofs` | theorems about the above |
| `NatInduction` | induction over sets of numbers, which these proofs use |

### AmbixHandle

The variables are the members of `ambix_t` under their own names (`filemode`,
`info`, `realinfo`, `matrix`, `matrix2`, `use_matrix`, `adaptorbuffersize`,
`markers`, `regions`, `startedWriting`, `pendingHeaders`, `channels`), the file
(`disk`: its kind, width and uuid chunks; `chunks`: the label chunks;
`frames`), libsndfile's `position` and the result `ret` of the last call.

Abstractions: samples are counted, a matrix is its dimensions and the names of
the matrices it is a product of, a marker or region is one label that says both
where it is and how it is called (so a name that comes back at another place is
visible), a chunk is what it describes. `Singular` names the matrices for which
no pseudo-inverse is found.

| action | code |
|---|---|
| `OpenWrite`, `OpenRead`, `OpenFails` | `ambix_open()` with `_ambix_open()`, `read_uuidchunk()`, `_ambix_read_markersregions()`, `_ambix_info_set()` |
| `Close` | `ambix_close()`, which writes the headers nobody has written |
| `ambix_seek` | `ambix_seek()` to a frame of the file |
| `ambix_add_marker`, `ambix_add_region`, `ambix_delete_*` | the same |
| `SetDecoder`, `SetAdaptor`, `SetRefused` | the three ways through `ambix_set_adaptormatrix()` |
| `ambix_readf`, `ambix_writef` | `AMBIX_READF`, `AMBIX_WRITEF` with `_ambix_check_write()`, `_ambix_write_header()` and `_ambix_adaptorbuffer_resize()` |

`refused` is the set of chunks libsndfile declines in a header write; the
retries the code then makes are part of the model. `Documented` confines the
caller to the contract that `ambix_open()` states in a comment: an EXTENDED
file gets its matrix, of the width announced, before its data. Without it
`MatrixBeforeData` shows what happens. Allocation failures are left out, and so
are seeks libsndfile refuses (nothing changes) and what libsndfile does to the
previous content of a file it then declines to open for writing.

`AmbixFile` has a phase, the description the open handle stands for (formats,
matrix, labels) and the description a reader would get. While the handle is
set up the file tells nothing; the first frame, or closing, fixes it for good;
opening for reading reports it. Two effects of the code are part of the
promise: labels changed after the first frame stay in the handle, and a file
written as NONE whose width is a square reads back as BASIC. The refinement
maps the stored description to what `FileInfo`, `FileMatrix` and `Named`
extract from the chunks.

### PdWrite

A step is what a thread does between two points where it gives up the mutex, or
one call it makes without it: `ambix_open()`, the copy and write of a block,
`ambix_close()`. `child` is the place in `ambix_write_child_main()`, `parent`
the call it is in. `pthread_cond_signal()` moves a waiting thread back to its
loop and is lost otherwise; both threads test again when they wake, so a
spurious wake-up adds nothing. A child that finds `REQUEST_BUSY` at the top of its loop
spins with the mutex, which is why no parent action that needs the mutex is
enabled then (`Enters`, `Resumes`). Frames are numbered as they are captured.
`x_eof` and `x_fileerror` are written and never read by this object, and are
left out.

`Trouble` names what may go wrong around an object, and the variable `trouble`,
which never changes, is what does go wrong around this one: one run goes
through all combinations of it, and a property may be about objects without
some kind. The handlers themselves have no such guards; what the environment is
assumed to do stands beside `Next`, in `KeepsUp` (the tick that would fill the fifo
with its tail at 0 does not come), `KeepsBlocks` and `DeletedInPeace`. Two kinds
are allowed by no run: with `blocks change` a tick goes past
the end of the fifo in a few steps, since `ambix_write_dsp()` leaves the head
where it is, and with `falls behind` the file misses a whole buffer of frames,
since a full fifo whose tail is at 0 looks empty (line 510):

| trouble | meaning |
|---|---|
| open fails, write fails | results of the library |
| falls behind | the disk thread may be a whole buffer late |
| freed any time | the object is deleted also while a file is being opened or closed |
| blocks change | DSP restarts with another block size during a recording |

Neither a tick (`Written`, `Captured`) nor the write of a block (`Frames`) is
confined to the fifo: a tick that goes past the end adds places the fifo does not
have, against `TypeOK`, and a block read from behind the fifo is no sequence of
frames, so that `file` has not its type.

A stop that comes before the child has opened the file leaves the captured
frames in the fifo (lines 320-321 skip the write loop), so `StopFlushes` is
about recordings the child has begun. A matrix is destroyed and replaced
without the mutex (`DestroyMatrix`, `ambix_write_matrix`), so `TakeOpen` may copy
one that is no more; what that does is undefined and no property is about it.

### PdRead

Built like `PdWrite`; `fifo`, `loaded` and `played` hold frames, each the file it
is from and its place there. An open does not wait for the child here: it
overtakes the request being served, which is why the child looks at
`x_requestcode` again after every call it makes without the mutex
(`OpenOvertaken`, `Accepted`) and leaves a request alone that is not its own
(`Lost`). The read itself (`ReadBlock`) and what follows under the mutex (`Load`,
`StopReading`) are steps of their own, since a seek or an open may come between.
`infoflags` and `clock` are what the next callback tells and whether it is set;
a tick that finds something to tell plays silence (`Skip`).

| trouble | meaning |
|---|---|
| read fails | the library reports an error; the child ends without setting `x_eof` and a tick that waits for frames waits forever |
| fails late | a file cannot be opened after another open has overtaken it: `x_eof` is set for the new file, which plays as empty |
| blocks change | DSP restarts with another block size after the fifo was rounded |

The last two are allowed by no run; what they exclude stands beside `Next`, in
`FailsInTime` and `KeepsBlocks`. The code that closes a file when a request
arrives (lines 264, 404, 414) is never reached, because the loop has closed it
before: the model has no such step, and `ClosedBetweenRequests`
(checked, and proved in `PdReadProofs`) shows that it needs none.

### SampleFifo

Frames go in and come out in order, none lost, at most `Capacity` under way,
until a restart. `PdWrite` implements it with the captured frames as input and
the file as output, `PdRead` with the frames read as input and those put out as
output.

### JackRecord

A step is what a thread does between two accesses to what it shares with
another. JACK's ring buffer is taken at its word: one reader and one writer, a
read or a write is one step. Frames are numbered as JACK delivers them, and the
file is the frames handed to `ambix_writef_float32()`, whose result the program
never looks at.

| action | code |
|---|---|
| `PeriodTooLarge`, `Overflow` | the two ways `process()` ends the program (`FAILURE` is `exit()`: nothing is closed) |
| `Deliver`, `Poke` | the rest of `process()`: a period into the ring, a byte into the pipe, which waits while the pipe is full |
| `LoopTest` | `observe_end_of_process()` at the top of `disk_thread_procedure()` |
| `Check`, `TakePoke` | `jack_ringbuffer_wait_for_read()`: too few frames, a byte from the pipe, look again |
| `Take`, `write_to_disk` | as much as the local buffer takes; written, and the timer |
| `Close` | `main()` after the join: `jack_client_close()` waits for a callback under way |
| `Signal` | one of the signals of `observe_signals()` |

`MainIsLate` says whether a period may overflow the ring between the end of the
disk thread and `Close`; the run allows it. `PeriodTooLarge` is not part of
`Callback`, the action that is scheduled fairly: JACK keeps delivering periods
that fit.

### JackPlay

The same for the player. A frame is its place in the file, 0 is silence.
`position` is libsndfile's; `Options` are the ways to run it: with
`transport_aware` (option `-t`) the callback puts out silence while the transport
is stopped and the disk thread puts silence into the ring behind the end; with
`samplerate` (built with the converter) the callback goes through
`src_callback_read()`, which asks `read_input_from_rb()` as often as it needs to
(`src_callback_read`, `read_input_from_rb`, `Converted`). The converter itself is
libsamplerate: here it repeats each frame `src_ratio` times, and refuses 0, the
result of `osr / isr` when the file has the higher rate.

| action | code |
|---|---|
| `LoopTest`, `SeekFile`, `ResetSeek` | `disk_proc()`, lines 104 to 115: the request is read, used and reset in three steps |
| `Check`, `TakePoke`, `SpaceFound` | `jack_ringbuffer_wait_for_write()` and the limit of the local buffer |
| `Load`, `LoadSilence`, `Finish` | a block from the file into the ring; its end |
| `PeriodTooLarge`, `EndIfStopped`, `ConverterFails` | the ways `signal_proc()` ends the program |
| `Play`, `src_callback_read`, `read_input_from_rb`, `Converted`, `Poke` | `signal_proc()` otherwise |
| `sync_handler`, `Transport`, `Signal` | JACK and the user |
| `Close` | the end of `jackplay()` |

`main()` takes the options `-b`, `-m` and `-q` as they are, and so do the
assumptions of the module: no number is bounded by another. The run has numbers
that fit (`-q` at most `-b`, `-m` at least 1 and at most the ring). With others the
properties fail: a request (`-q`) above `BufferFrames` makes
`read_input_from_rb()` fetch more than its buffer holds, which `Fetched` in
`TypeOK` shows; with `-m 0` the disk thread waits for no space, takes the empty
read that follows for the end of the file, and `PlaysAllButARing` is violated;
with `-m` above the ring it waits forever, against `PlaybackEnds`.

`wanted` is a history variable: the position asked for last and still to come.
With `SeekAnytime = FALSE` JACK asks for no position between `ambix_seek()` and
the reset, the case `seek_lost` is about. Errors a read reports (negative
results) are left out.

### Matrices, Interleave, Deinterleave, Tools

Coefficients are integers: for an irrational weight stands an integer of its sign,
different from those of the other weights, so that a coefficient at a wrong place
is visible; sums are exact. A step of `Interleave` or `Deinterleave` is a
function of the program, in the order in which `ambix_interleave()` and
`ambix_deinterleave()` call them; `ai_copy()` is one step per block, since a
block may fail. `ai_close()` is part of the step it ends (`Closes`). A failure
returns `result!=NULL`, 0, which is what the program exits with; success is 1. Blocks
are followed through the buffers the code uses: what is read from each input,
one after the other and channel by channel, cut into ambi and extra part,
interleaved again, merged by the library; and back.

A matrix without columns is accepted by `ambix-interleave`, but there is no data to
put into the header: the program crashes when it writes it and leaves no file
(`Unwritable`). When a file has such a matrix, `ambix_open()` does not take the chunk
for a matrix (`Parses`); when a file has nothing to decode, the tool
does not set one (lines 265 to 273).

Left out: sample formats and rates, names of output files, what a file that
fails takes of a block it does not take as a whole in `Deinterleave`. A command
line has each option at most once and in an order the program takes.

`Tools` runs `Interleave`, then `Deinterleave` on its file, whatever became of
it, or `Deinterleave` on a file from somewhere else. `Frame` and `Decoded` say
what the programs are for without blocks and buffers.

| action | code |
|---|---|
| `ai_cmdline` | all of it, with the order in which it finds fault |
| `Interleave!ai_open_input` | inputs, the length, the matrix and the division of channels |
| `Interleave!ai_open_output` | `ambix_open()` and `ambix_set_adaptormatrix()`; without a handle the latter crashes |
| `ai_copy_block` | a block, and the end of `ai_copy()` |
| `Deinterleave!ai_open_input` | `ambix_open()` for EXTENDED with the matrix it restores |
| `Deinterleave!ai_open_output` | one output after the other |

## Runs

| run | module | shows |
|---|---|---|
| `handle` | MCHandle | type invariant; frame widths for reading and writing; the adaptor buffer; headers before data; chunks final after data |
| `handle_file` | MCHandle | `AmbixHandle` implements `AmbixFile` |
| `write` | PdWrite | type invariant; the file is the recording; the unlocked block is stable; nothing is open when an open is requested; implements `SampleFifo`; calls of the parent return and a stop flushes everything |
| `read` | PdRead | type invariant; what is put out is what was read, in order; what is read is the file asked for last; nothing is open between requests; the end comes after the last frame; implements `SampleFifo`; playback and deletion end |
| `jrecord` | JackRecord | type invariant; every frame delivered is in file, local buffer or ring; nobody sleeps over frames; the timer; implements `SampleFifo`; a recording ends |
| `jplay` | JackPlay | type invariant; nobody sleeps over space; what is put out is what was read (implements `SampleFifo`), to the end but for a ring; a playback ends; seeks are made; the callback does not hang |
| `tools` | MCTools | type invariant; each channel written in its place; the file read back as it was divided; each channel taken apart into its place; blocks fit their buffers |

Violation runs check one sentence of the code's own comments or documentation
each and TLC refutes it; `findings` in `PROJECT.json` quotes both sides:
`matrix_first`, `labels_back` (library), `free_returns` (`[ambix_write~]`),
`read_ends` (`[ambix_read~]`), `seek_lost` (player).

Bounds. `handle`: channel counts 0, 2, 3, 4 cover none, neither full nor
reduced, reduced and full; five matrices (two of the same shape, square ones
that are no full set, one without inverse); twelve files on disk (plain,
extended, with an empty matrix before a valid one, too wide a matrix, a
matrix that expands to nothing, Furse-Malham, foreign, with split label
chunks); a label, two frames and one refused chunk. One refusal is enough for
a retry, one label for every label branch, and the second label of
`handle_file` for the numbering of strings across markers and regions.
`write`: a buffer of 18 frames with blocks of 2 or 4 and disk blocks of 4, so
that the rounding leaves a rest (16 of 18), a buffer is at least four disk
blocks as `MINBUFSIZE` demands, and 40 captured frames wrap the fifo more than
twice. `SignalsPerBuffer` is 4 instead of 16: a buffer of `MINBUFSIZE` holds many
blocks, here it holds 4 or 9, and with 4 (9 div 4 is 2) a signal is still less
frequent than a tick.
`read`: the same buffer with blocks of 4; a file shorter than the buffer, one
that wraps it and ends within a block, and one that cannot be opened; opens that
skip 2 frames, or 30, which libsndfile refuses for each of them, so that the end
comes with and without a partial block; seeks back to 0. All these numbers are even: a file that leaves one frame less
than a block is never over, which `read_ends` shows with 7 frames.
`jrecord`: a ring of 7 frames and a local buffer of 4, as the code sizes both from
option `-b` and JACK rounds the ring up to a power of two and keeps a byte: more
can be in the ring than the local buffer takes. Periods of 1 and 3 go in, one of
4 is refused; 14 frames fill the ring twice; a pipe of 4 bytes fills up.
`jplay`: a ring of 4, local buffers of 3, so that the wrap of the space into several
reads occurs; a file of 5 frames, longer than the ring; a period of 4 is refused;
requests of 2 frames at ratio 2 leave the converter with frames between
periods; seeks to the beginning, into the file and behind its end, one by the
option and one by JACK.
`tools`: up to two of seven inputs, among them one that is shorter than it
says, an empty one, a missing one and two `.amb` files; matrices that expand,
shrink, restore no full set or have no column; blocks of 1, 2 and 3 frames for lengths up to
4, so that there are whole, partial and several blocks; ten files from
somewhere else.
`CHECK_DEADLOCK FALSE` stands where the system really stops: in `PdWrite` and
`PdRead` after a failed write or read and after a quit that was lost, in the
JACK programs and the tools when the program has ended.

Fairness (`PdWrite!Fairness`): weak fairness of the child and of a parent that
is inside a call. Both are threads an operating system schedules, calls of the
library return, and a mutex held for a step is given up. Messages and DSP ticks
are never forced to come. `CallsReturn` and `StopFlushes` are about objects with at
most failed opens: failing writes leave a child that spins with the mutex, and
deletion at any time hangs, which `free_returns` shows. `PdRead!Fairness` assumes
in addition that DSP is on: ticks and the clock callback keep coming. `PlaybackEnds` is about playbacks in which no read fails.
`JackRecord!Fairness`, `JackPlay!Fairness`: JACK keeps calling with periods that
fit the buffers, and the system schedules the disk thread and `main()`; nothing
is assumed of signals, seeks and the transport. Where a property needs a pipe
that is never full, or a transport that rolls in the end, it says so itself.
The tools need none: only safety is checked of them.

## Proofs

Every theorem holds for all values of the constants under the assumption of its
module (`HandleAssumption`, `PdWriteAssumption`, ...), and where it says so under
one more, which is named in the statement.

`AmbixUtilProofs`: `FullSets` (a count is accepted as a full set exactly when it
is a square, 0 included, the reason for the finding `matrix_first`) and
`OrderRoundTrip`.

`NatInduction`: induction over the natural numbers. The induction theorems of
the library take an operator, which no installed prover can instantiate, but
its `WFMin` is about a set; `Least` and `Induct` say the same for sets of numbers.
With them the proofs show that the recursive functions of the model exist and
what they return for every argument: `FlattenSeq` and the numbering of strings in
`AmbixHandleProofs`, the frames without the silence (`OfFile`) in `JackPlayProofs`,
sums and concatenations in `ToolsProofs`.

`AmbixHandleProofs`:

* `HeadersComeFirst` and `ChunksAreFinal`, from the inductive invariant
  `HeaderInv`. `HeadersBeforeData` alone is not inductive: it does not say that
  frames in a file being written imply `startedWriting`, nor that a closed
  handle starts with both flags down.
* `AudioTypes`: types of everything but the labels. The work is in
  `FileInfoChannels`: a file never yields a negative channel count. `Types` adds
  the labels and the chunks (`LabelInv`), which needs what `Named`, `Placed`, `UpToEmpty`
  and `get_string_from_buffer` return for sequences of any length.
* `ReadersMatch`, `WritersFill`, `BufferSuffices`, from the inductive invariant
  `Account` on top of the two above: an account, per mode and format, of how
  the dimensions of `matrix` and `matrix2`, the two channel counts shown, the
  two on disk and the width of the file are related at every point between
  calls. None of the three properties is inductive, since they speak of the one matrix that is
  applied while the next call may switch to the other. `WritersFill` needs
  `Documented`, as the run does.
* `FileIsAsMeant`: the handle implements `AmbixFile`, for any matrices and any
  number of labels, under `Documented` (as in the run `handle_file`) and
  `MaxFaults = 0`: a label whose chunk the backend refuses is not in the file,
  and then the file does not tell what the handle stood for. Its invariant
  `HandleInv` joins all of the above with `SetupInv`: until the first frame nothing
  is in the file, and whatever was set and would be told is still to be
  written. The rest is one lemma, `WrittenIsTold`: what `_ambix_write_header()`
  makes of such a handle, read back, is the description the handle stands for.

`PdReadProofs`:

* `ClosedFirst` (`ClosedBetweenRequests`, with all kinds of trouble), from the
  inductive invariant `CloseInv`: a new object inherits the handle of the old
  one, so one has to know in addition that an object is gone only when its child
  is done.
* `Types` and `LoadsAsked` (`LoadsFileAskedFor`) under `Steady` (DSP keeps its block
  size), from `LoadInv`. The property speaks of frames that are loaded, but a
  block is read without the mutex and an open, a seek or a stop may overtake
  it. So `Control` says which request the child serves at each place of its loop
  and from when on the fifo holds something (`Primed`, `Sized`), `BlockFits` where the block
  under way goes, and `ReadsOn` that this block, if the request is still the same,
  continues what is loaded or begins at a place that was asked for.
* `InOrder` (`PlaysInOrder`) and `ReaderIsQueue` (`ImplementsFifo`) under `Steady` and
  `AllEven` from `QueueInv`: the fifo between tail and head, in one piece or two, is what was
  loaded and not put out (`Content`), the block under way ends before the tail
  (`BlockApart`), and head, places and blocks are even (`Parity`). That evenness is
  needed is what `read_ends` shows: a tick goes on with one frame less than it takes
  (line 616).
* `ToTheEnd` (`PlaysToTheEnd`) under `InTime` (no file fails to open after it was
  overtaken) and `Inside` (no seek to the very end of a file) in addition: the end is
  only seen when the last frame is loaded (`EndInv`).

`PdWriteProofs`: `OpensClosed` (`OpensOnlyWhenClosed`, with all kinds of trouble)
from the inductive invariant `Control`, which says for each request where the
child can be. The others are under `Steady`, the assumption the run makes too:
the child is never a whole buffer behind and DSP keeps its block size.
`FileIsWhatWasCaptured` (`FileIsRecording`) and `BlocksUndisturbed`
(`BlockUndisturbed`): `FileIsRecording` is not
inductive: one has to know where each captured frame is. `RecInv` adds, while a recording
is on (`Recording`), `Content`: the fifo from tail to head, in one
piece or two, continues the file, and size and head are multiples of the block
size (so that a block never crosses the end); and `BlockContinues`: the block
being written lies between tail and head. The arithmetic of the wrap is in
`RoundedSize`, `NextMultiple` and `BlockFits`. `Types` needs `TypeInv` on top of it:
the accesses are not confined by the model, and that a tick ends within the fifo
is because its size is rounded to whole blocks and the head is a multiple of
them; `WriterIsQueue` (`ImplementsFifo`) maps each tick to a put, each write to a get
(`PerformPuts`, `WroteGets`) and an open to a restart.

`JackRecordProofs`: `Types`, `NothingVanishes`
(`EveryFrameAccounted`) and `TimerIsKept` (`TimerKept`) from `IInv`, which adds to
both that the local buffer is empty except before a write and that the timer
counts the file; `PokesSuffice` (`NoPokeLost`, which is inductive as it stands);
`RecorderIsQueue` (`ImplementsFifo`): the refinement of `SampleFifo`, the initial
states mapped to initial states and each step to a step or a stutter.

`JackPlayProofs`: `PokesSuffice` (`NoPokeLost`), for every mix of options; `Types`,
`PlayerIsQueue` (`ImplementsFifo`) and `AllButARing` (`PlaysAllButARing`) from `PlayInv`,
`Types` under `RequestFits` and `AllButARing` under `WaitsForSpace`, which is what
they need of the options `-q` and `-m`.
Its heart is `Conserved`: what was read, each frame as often as the converter
repeats it, is what was put out, what the converter has and what the ring has,
in this order and without the silence. It comes with `Reading`: the disk thread
measures the space long before it writes, and what it then writes fits, because
the others only empty the ring. That silence may be put in anywhere is why
`OfFile` has to be understood first: it commutes with concatenation and with repetition.

`ToolsProofs`: all five invariants of the run `tools`, for any number of inputs
of any width and length, any matrices, files and block sizes.

* First what the operators return, since nothing is built in about folds and
  `CHOOSE`: a fold over a set is the value of one function (`FoldExists`, by
  induction over the size of the set), so sums may be taken apart in any order
  (`SumSplits`), and `Source` names the one input and channel that a place of the
  frame stands for. Concatenation, cutting and multiplication of blocks say in
  the same way what is in a frame of their result.
* `ToolsWriteInPlace` (`WrittenInPlace`) from `FirstInv`. The property speaks of the file;
  the proof needs which inputs are open, that the frames in the file and those
  left add up to the length, that the division of channels is the one
  `ai_open_input()` made for the matrix in the file, and (`FileSays`) what the file says of
  itself once it is open, unless it is one that cannot be written (`Unwritable`).
* `ToolsSplitInPlace` (`SplitInPlace`), `ToolsReadBack` (`ReadsBack`), `ToolsBlocksFit` (`BlocksFit`) and
  `ToolsTypes` from `FirstInv` and `SecondInv`: the division and the matrix in use are those of
  the file, and each output has as many frames as were taken, each the decoded
  channel.
* Assumed (`InterleaveAssumption`, `ToolsAssumption`): an input delivers at most as
  many frames as it announces, a missing one announces nothing, matrix files have
  a row, and a file from somewhere else has frames of its width. The runs meet
  all of it, and TLC evaluates it.

Only model-checked: liveness (`CallsReturn`, `StopFlushes`, `PlaybackEnds`,
`FreeReturns`, `RecordingEnds`, `SeeksAreMade`, `PokeReturns`), which is beyond
the prover. For every other property of a passing run there is a theorem; what
some of them assume besides (`Steady`, `AllEven`, `InTime`, `Inside`, `Documented`,
`MaxFaults = 0`, `RequestFits`, `WaitsForSpace`) holds of the constants of the run that checks the property.

## Not modelled

Sample formats and integer saturation; sample values in the handle and the
players; the conversions from ambix to Furse-Malham, SID and N3D, for which no
program here asks; the numerics of inversion; bytes and byte order of chunks;
the channel and port counts `ambix-jrecord` and `ambix-jplay` derive from their
options; the CoreAudio and null backends; printing tools, which keep no state
(`ambix-dump`, `-info`, `-matrix`, `-test`, `[ambix_info]`); build files.
`PROJECT.json` says so part by part.

## Plan

1. (done) `AmbixUtil`, `AmbixHandle`, `AmbixFile`, their runs and theorems.
2. (done) `PdWrite` with `SampleFifo`.
3. (done) `PdRead`, which implements `SampleFifo` from the other end.
4. (done) `JackRecord`, `JackPlay`: process callback, disk thread, ring buffer,
   pokes, seek requests, timer and the end of the file.
5. (done) `Matrices`, `Interleave`, `Deinterleave`, `Tools`: partial failure of many
   opens; the copy loops against a reference definition.
6. (done) Proofs: the invariants of all runs, and the refinements of `AmbixFile` and
   `SampleFifo`.
7. `MarkerChunks`: the layout of the label and uuid chunks in units of sizes
   (one space shared by all strings, the 8 header bytes that a check forgets).
