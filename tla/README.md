# TLA+ models of 6d6-compat

6d6-compat converts the recordings of the KUM 6D6 ocean-bottom datalogger into
MiniSEED and s2x files. This directory holds models of its core in TLA+, the
TLC configurations that check them on small instances, and TLAPS proofs that hold
for every size, limit and file. Paths below are relative to
`src/src/` unless they say otherwise.

Run a model with `tlc -config X.cfg M`, a proof with `tlapm M.tla`.
`PROJECT.json` lists every run, the source lines each definition stands for,
the findings, the hazards of the code with the properties that watch them, and
the theorems.

## Inventory

A recording is a file of 512-byte blocks: two headers, then 32-bit big-endian
words. Words make frames: a frame whose first word is odd is a control frame
of four words (timestamp, temperature, lost samples, end, ...), any other one a
sample frame with a word for each channel. Nothing marks the start of a frame,
blocks cut frames anywhere, and time is known only where a timestamp frame
stands. All the programs are built on that.

| Component | State | Operations | Hard parts | Model |
|---|---|---|---|---|
| Block reader, `blockreader/` | ring of blocks, two indices, `done`, `count`, `offset`, one mutex, one condition variable | `new`, `get`, `offset`, `length`, `destroy`, and the reader thread | the only concurrent part: a thread fills slots without the lock while the client reads one; lost wakeups; I/O errors; teardown in mid-read | `Blockreader`, `BlockStream` |
| Sample buffer, `samplebuffer.h` | growing ring of samples | `push`, `pop` | doubling with the oldest sample anywhere | `Samplebuffer`, `SampleQueue` |
| MiniSEED writer, `wmseed.h`, `miniseed.h` | backlog of samples, last timestamp used, current record and file | `sample`, `time`, `lost_samples`, `destroy` | samples get their time long after they came; rejected timestamps; lost samples; leap seconds, cutting and limits inside one loop; files that overwrite each other | `WMSeed` |
| Resampler, `resampler.h` | samples that wait, a ratio of rates | `sample`, `time`, `done` | calls the filter takes only a part of; the carry of the rest; ratios that change or are refused; draining at the end | `Resampler` |
| Filter, `samplerate/` (vendored) | a buffer around a position | `src_process` | moving and reloading the buffer, a reach that changes with the ratio, the end of the input | `SincFilter`, the control in `Resampler` |
| 6d6mseed, `6d6mseed.c` | position in the file, unfinished frame, `have_time` | the conversion loop, the time correction | frames across blocks, early ends, samples before the first timestamp; leap seconds between the two synchronisations | `Mseed`, `TimeCorrection` |
| 6d6read, `6d6read.c`, `sample-tracker.h`, `s2x/s2x_channel.c` | the same, a control loop that tracks time, a buffer for each channel | the handling of frames | packets of all channels against the packets that carry the time; limits; failures | `S2xRead` |
| 6d6strip, `6d6strip.c` | the same, a count of sample frames | one loop | counts across control frames and at every kind of end, writes that fail within an entry | `Strip` |
| 6d6copy, `6d6copy.c` | position in two files | one loop | headers one block later, short reads, an end address inside the first chunk | `Copy` |
| s2xshift, `s2xshift.c` | position in one or two files | one loop | in place, with failures half way | `S2xShift` |
| Time, `tai/tai.h`, `bcd/` | none | dates to times and back | leap seconds, centuries, dates before 2000 | `Calendar` |
| 6D6 header, `6d6/6d6.c` | none | read, write, show | whether a block is a header, whether a comment fits | in `Copy`; its bytes are not |
| find_timestamp | a scanner's position | one call | no program calls it | not modelled |
| 6d6info, mseed-check, s2xdump | none | print one file | none | not modelled |
| options, i18n, progress | none | command line, messages | none | not modelled |

How they interact: 6d6mseed calls `wmseed_time`, `wmseed_sample` and
`wmseed_lost_samples` once per frame for every channel; a writer keeps a sample
buffer, and with `--resample` a resampler that calls the writer back. 6d6read
calls the sample tracker and then pushes to s2x channels that share one output.
The header gives all of them start time, addresses and channels, `tai.h` turns
times into names and sections. The filter is called by the resampler only. The
tools that turn one file into another share nothing at run time. The block
reader is a library of its own.

## Modules

### BlockStream and Blockreader

`BlockStream` is what `blockreader.h` promises: consecutive blocks, then NULL,
every call answered. `Blockreader` is the code. Its variables are the fields of
the struct, the position of the FILE and where the two threads are
(`thread_pc`, `client_pc`); `held` is the slot the client's pointer refers to.
A critical section is one action, since all fields are used with the lock held.
The contents of the ring are the exception, and the reason for the model:
`fread` writes a slot without the lock, so a slot is `Torn` from the start of a
read (`LoopHead`) until it is complete (`ReadBlock`). Waiting on the condition
variable is a state of its own, left by a broadcast or by a spurious wakeup.
A block is named by its byte offset.

*Fairness* (`FairSpec`): weak fairness of the thread as a whole, of an
unfinished `get`, and of the join in `destroy`. It says that both threads are
scheduled, that a mutex is granted and that `fread` returns. No client has to
call anything, and spurious wakeups may never come.

### SampleQueue and Samplebuffer

`SampleQueue` is an unbounded queue; `Samplebuffer` the ring with `pos`, `len`,
`size` and `data`, where `PushAndGrow` copies the samples to a buffer of twice
the size. Running out of memory ends the program and is left out, and so is the
`int` overflow of `size` at 2^30 samples.

### WMSeed

One channel's writer. Its calls are actions (`Sample`, `LostSamples`,
`FirstTime`, `UseTime`, `Destroy`); the loop in `wmseed__time` is unrolled into
one action per kind of iteration (`TakeLostSample`, `TakeOutsideWindow`,
`TakeIntoNewFile`, `TakeIntoRecord`, `TakeIntoNewRecord`, `UpdateState`), and
`pc` keeps calls out while it runs. The file system is a function from file
names to sequences of records, and opening a file truncates it. `FlushFails`
and `CreateFails` are the ways out through `exit`. A sample is its number, so
that the history variable `due` can say which samples belong into some file.
`record_valid` and `cut_section` start with any value because `wmseed_new` does
not set them. The sample buffer is the queue that `Samplebuffer` is proved to
implement. Times are integers and the interpolation is exact; the code's is in
`double` and differs by rounding. This is the writer without `--resample`.

### SincFilter and Resampler

`SincFilter` is the buffer of the vendored filter as operators on a record with
the fields of `SINC_FILTER` that matter: `prepare_data` in its parts (`Placed`,
`Moved`, `Loaded`, `Closed`) and the step to the next position. `Resampler` is
`resampler.h` on top of it, with the turns of the loop of
`sinc_mono_vari_process` as actions (`Reload`, `Emit`, `Return`), so that
timestamps, full buffers and the end of the recording meet at any fill. A sample
is its number. A ratio is the way from one output sample to the next in parts
(`Unit`) of an input sample, and a timestamp sets it to any of `Steps`, or to
`Bad`, a ratio that `src_process` refuses. Towards a new ratio the code changes
the step in fractions of the way; the model takes any step between. Left out
are the values of the output, the times given to the callback and the arithmetic
in `double`.

How far the filter reaches (`half_filter_chan_len`) is computed at the start of
every call of `src_process`, from the lower one of the last ratio and the new
one (`ReachOf`). `Reach`, a constant function of the step, stands for the length
of the filter's table; `ReachAssumption` says of it what `src_sinc.c:338-343`
does: the same for all ratios from 1 on, growing below, and never shorter than a
step. When the ratio falls, the buffer still has what an earlier and shorter
reach made `prepare_data` keep, and `calc_output_single` reads as far as the new
one without looking (line 273). `outgrown` records that a call began so. The
filter then works with cells before its buffer or, behind a move, would miss
samples: `Fault` is the end of the program by such a read, and `Emit` the case
that it goes on. `ReachAssumption` also has four times the longest reach fit the
buffer; with the filter in use (340239 coefficients, increment 2381, so a reach
of 144 and 91453 cells) that is true of all ratios from 1/159 on. Lower ones,
which `src_process` takes down to 1/256, need a timestamp that has advanced by
less than a 159th of the time that its samples took, and are not modelled.
`MCResampler` only gives `Reach` a value.

*Fairness* (`FairSpec`): a call that has begun goes on. Nobody has to call.

### Mseed, Strip, Copy, S2xShift and Tools

`Mseed` is the conversion loop of 6d6mseed (lines 405-502): skipping to the
data, blocks, words, frames, and the calls for a complete frame. The words are
chosen as they are read, so one run covers every content of the data blocks.
All channels get the same calls, so one log of calls stands for them. Headers
and the auxiliary output are not in it.

`Strip` is the same loop in 6d6strip, with run lengths of sample frames instead
of calls. Every varint is a write of its own, and the program exits when one
fails (`Write`). As the C library collects what it is given, such a failure can
concern entries from before: what it leaves is any beginning of all entries, cut
between any two varints, so that the last entry may be torn. `Copy` is 6d6copy
from its first `fread` on; files are counted in parts of a block, so that they
may end inside one. `S2xShift` is s2xshift, into a new file and in place. Reads
of blocks and packets and the writes of these four programs may fail wherever
the code looks at their result; where a packet or a varint is cut within itself,
it counts as missing. What the C library still holds when `main` returns is
taken to reach the file, since no code looks at that. In place, s2xshift reads
on the stream right after it wrote, without the seek that the C standard asks
for; the model takes it as the C libraries the builds use do it.

`Tools` composes the four: a behaviour is one run of one of them, and the
variables are shared where the programs have the same ones.

### TimeCorrection

The correction of times by the two synchronisations (`6d6mseed.c` lines
338-348 and 434-439), as operators over `Calendar`: leap seconds that passed
before the start, the skew of the second synchronisation freed of leap
seconds, and the linear correction between. Times of frames and skews are in
ticks, of which `Second` make a second, 10^6 in the code; the product with the
growth of the skew takes the ticks of a frame along. It is exact here and in
`double` there. The reference does not use the formula: `IsBehind` says by how
much an evenly drifting clock is behind at a moment, and `Corrected` that the
time computed is that moment, but for one tick and for what the clock drifted
in the time it was behind (the code takes the clock's reading for the time when
it looks up the drift).

### S2xRead

What 6d6read does with frames. `TimeFrame` is `sample_tracker_time` with its
two gains and shifts that round down; `Stamp` and `Collect` are a sample frame
with and without a time packet before it, including the flush of all buffers
or of the full ones; `WriteFails` leaves any beginning of the packets of a
step. Unlike 6d6mseed, a file that ends early ends the program (`ReadFails`).
The tracker's scale and gains are constants and small in the run.

### Calendar

`tai_time`, `tai_date`, `tai_utc_diff`, the BCD day count, difference, weekday
and validity, and the day of the year of `miniseed.h`, as operators. The
behaviour is the calendar itself, day by day from 1972, when leap seconds begin:
months and years get their lengths from the rules, `leaps` counts the leap
seconds as the IERS announced them, and `midnight` is the time that gives for
the day. The properties compare. `DayOf` is the middle of `tai_date`, from a
number of days to the date, in the steps of the code: cycles of four hundred
years, centuries, four years, one.

## Runs

| Run | Question | Bounds and why they are enough |
|---|---|---|
| `blockreader` | Do thread, lock and ring amount to the plain stream, with every call answered, also when reading fails? | Ring of 4 slots, 7 blocks wanted, a file with 8 complete ones behind the start offset and a failing read at any of them: the indices go around, the thread waits with a full ring, the client with an empty one. |
| `blockreader_unseekable` | Is every call answered then? | No, see findings. |
| `samplebuffer` | Is the ring a queue? | Starts with 2 cells, 7 samples: enlarged twice, full at every position. |
| `wmseed` | What ends up in which record of which file? | 7 samples, any timestamps from 0 to 12, a leap second at 8, sections and seconds of 2 ticks, limits inside, records of 2 samples. Every kind of iteration follows every other. |
| `wmseed_long_cut` | The same with sections longer than a day. | No, see findings. |
| `tools` | Does what each tool writes tell exactly what it read? | 6d6mseed and 6d6strip: 3 channels, so that sample and control frames differ in length; blocks of 4 words, so that both are cut at every place; up to 2 blocks with every sequence of words. 6d6copy: chunks of 3 blocks, every size up to 3 chunks, headers anywhere, end addresses in the first chunk, at its end, behind and beyond the file. s2xshift: every file of up to 3 packets, times at both ends of their range. Failures at every read and write. |
| `mseed_lost_count` | Does the writer get the count of the format? | No, see findings. |
| `s2xread` | Does every sample stand in its second, once? | 2 channels, buffers of 2 and seconds of 3 samples, so that a buffer is flushed both for being full and for a new second; 12 samples: a second before the limits, one and a part within, some after. Timestamps every second sample, off by at most one tick. |
| `s2xread_end_time` | Is nothing written after `--end-time`? | No, see findings. |
| `calendar` | Are the formulas right, and the correction of the recorder's clock? | Every day from 1972, when leap seconds begin, to 2050; four times each day; for the correction, clocks ahead by more than a second, right and behind, that drift by up to a second or not at all, from the start to the second synchronisation. Seconds of 50 ticks, as TLC's integers have 32 bits; they end in 2068. |
| `resampler` | Does the filter see its input whole, is every sample taken, does every call return? | 20 samples through an input buffer of 6 and a filter buffer of 20 cells: both are refilled, the filter's is moved in the middle and at the end, the output buffer fills too; ratios of 4/3, 1 and 2/3 and refused ones at any time. The reach is 2 for all but the lowest, where it is 3: it grows with two samples behind the position, and with more. |
| `resampler_carry` | Does the filter get the samples as they were given? | No, see findings. |

The properties, by what they guard:

- `HeldBlockIntact`, `InOrder`: the pointer a client got is good until its next
  call, and blocks come once and in order, whatever the speed of the thread.
- `NoLostWakeup`, `ImplementsStream`, `DestroyReturns`: nobody sleeps through a
  broadcast, and every call ends, that of `destroy` too.
- `ImplementsQueue`: samples leave the buffer once and in order.
- `WindowComplete`: a sample is in a file exactly once if its time is between
  the limits, and in none otherwise. This is where truncated files, dropped
  records and limits that are off by one show.
- `RecordsSound`, `TimesAscend`, `OneFilePerSection`, `QueueIsBacklog`: a
  record holds consecutive samples, starts at the time of the first and is
  numbered without a gap; time does not step back where two interpolations
  meet; a file is a section also in a leap second; the backlog is what the next
  interpolation takes it for.
- `DecodesFrames`, `WholeDataTaken`, `SamplesCounted`: the calls are those of a
  decoder without blocks, over exactly the words between the addresses.
- `EverySampleOnce`, `SamplesInTheirSecond`, `StampsAscend`,
  `NothingBeforeStart`, `ClockAdvances`: the clock made from the timestamps does
  not run back; every channel of the s2x file has each sample once, also
  in what a failing program leaves, and behind the time packet of its second.
- `OnlySamplesStripped`, `CopyExact`, `ShiftedOnce`: from the output of a tool
  one can tell the input, less what the tool takes away: which control frame
  stood where among how many samples; the recording and nothing else; every
  packet shifted once, with a beginning and an untouched rest after a failure;
  and what a failing write of 6d6strip leaves tells of a beginning, with no torn
  entry but the last.
- `WindowIsSlice`, `NothingLost`, `Outcome`, `CallReturns`: the cells around
  the filter's position hold the samples that belong there whatever was moved,
  as far back as the filter reaches unless the ratio fell so that it reaches
  beyond what was kept; no sample is lost or doubled as long as at most one is
  carried over; the output ends where the input does, and the program gives up
  for a refused ratio or such a reach only; and no loop around `src_process`
  goes on for ever.
- `TimeOfDate`, `DateOfTime`, `DayOfYear`, `BcdDays`, `OffsetSteps`,
  `ClockCorrected`: the conversions against the calendar as the IERS announced
  it, and the corrected time against a clock that drifts evenly.

## Findings

1. **A client can wait for ever** (`blockreader_unseekable`). When `fseek` fails
   the thread sets `done` and ends without a broadcast
   (`blockreader/blockreader.c:29-34`), so a client that waits already is not
   woken. The header says "In case of an error NULL is returned."
2. **A file replaces the one before** (`wmseed_long_cut`). With a `--cut` of a
   day or more that is no multiple of a day, two sections can get the same name
   from the default template, and the second truncates the first.
3. **Only half of the count of lost samples is used** (`mseed_lost_count`).
   `6D6FileFormat.md` gives it 32 bits across two words.
4. **`--end-time` of 6d6read limits the time packets, not the samples**
   (`s2xread_end_time`): what comes after the limit is still written, and
   belongs to the last second for a reader.
5. **The carry of the resampler moves one sample only** (`resampler_carry`).
   `resampler.h:125` gives `memmove` the size of one `float`. With real sizes
   and ratios the filter leaves at most a sample or so over, which is why it
   goes unnoticed; `NothingLost` is what holds as long as that is so.
6. **The day of the year in file names is wrong from March 2100**
   (`DayOfYearHolds`, proved; it is beyond TLC's integers). `tai.h:183` counts a
   February 29th in the first of every four years, also in the one that ends a
   century. `%j` of a template is then one day ahead of the record, which
   `miniseed.h:107` numbers by the full rule. The date itself is right.

## Proofs

All theorems are for every value of the constants that the named assumptions
allow; those are the checks in the code, what the types of C imply, and sizes
that are positive.

`BlockreaderProofs`, for every ring size, block size, count, file and failure
(`ArgumentsAssumption`, the checks at the head of `blockreader_new`):
`TypeCorrect`, `BlocksInOrder`, `PointerStaysValid`, and, for a file that can be
seeked, `NoWakeupLost`. None of these is inductive. The
invariant that is, `IInv`, says where every block is: the slots from the read
index to the write index hold consecutive blocks, beginning at `offset`; the
FILE stands right behind the last of them; the thread, while it reads, has its
slot and no other torn; and the slot just before the read index, the one the
client may hold, is never the one the thread works on, because the thread stops
one slot short of it. `HeldBlockIntact` follows from the last part, `InOrder`
from the first. `StreamRefined` is the safety part of `ImplementsStream`: with
the additional invariant `ReadingEnds`, which says when the thread may have
left its loop, each step of ring and thread is a step of `BlockStream` or none.

`SamplebufferProofs`, for every initial size (`SizeAssumption`): `TypeCorrect`,
and `RingIsQueue`: every behaviour of the ring is one of the unbounded queue.
The step that matters is `PushAndGrow`: cell `i` of the new buffer is element
`i + 1` of the queue, whatever the old position was.

`WMSeedProofs`, for all limits, section lengths, record sizes, rates and times
(`WriterAssumption`), wherever a file cannot be created or written. `QueueInv`
keeps the head of the queue inside the interval between the timestamps; it gives
`Backlog`. `RecordInv` ties record,
file and section together; with it `TypeCorrect`. `OrderInv` says that nothing
written or in the record has a time beyond the one the loop has reached, and
that the loop starts an interval at the time the last one ended; the lemma
`SampleTimes` on the interpolation does the rest, and `Ascending` follows.
`SoundInv` says that an unfinished record ends just before the head of the
queue, or was ended; with it `SoundRecords`.

`Sections` (`OneFilePerSection`) and `Complete` (`WindowComplete`) have a
hypothesis, `NamesTellSections`: sections are a multiple of the unit of the file
names, and a leap second begins with a second. Without it they are false, that
is finding 2, so `wmseed` satisfies it and `wmseed_long_cut` does not. With the
default templates (`6d6mseed.c:245-251`) every `--cut` below a day satisfies it
and every one of whole days. `SectionInv` says that the files have
different sections, that each sample written is of the section its file name
tells, and that neither the open file nor a sample to come has a section before
the last one opened. So a file that is created is a new one, and truncates
nothing; that is the step where `Complete` needs it. `CompleteInv` is
`WindowComplete` with the sets finite, so that "exactly once" can be counted
call by call.

`ResamplerProofs`, for all sizes of the buffers, every set of ratios and every
reach that depends on them as in the code (`FilterAssumption`,
`ResamplerAssumption`, `ReachAssumption`): `TypeCorrect`; `OnlyRatioFails`, by
which the error `SRC_ERR_SINC_PREPARE_DATA_BAD_LEN` never comes, so that the
ways out are a refused ratio and a reach that has outgrown what was kept; and
`NeverOutgrown`: with ratios that are never below 1 the second does not exist.
`Delivered` is `NothingLost`. The invariant has the positions in the filter's
buffer in order and tells where `prepare_data` finds room: because the buffer
holds four reaches, it moves samples only where the position is at least one
reach from the start, and keeps at least the shortest. `Window`
(`WindowIsSlice`) goes operation by operation on the buffer. For `WholeOutput`
(`Outcome`) `OutputInv` follows the position against the end of the input: the
filter is closed only when everything was taken, and stops only when it has
passed the last sample.

`ToolsProofs`, for all addresses, block, chunk and file sizes and every sequence
of words (`ToolsAssumption`), has all the properties of `Tools`. `AllWords`
(6d6mseed takes the words between the addresses), `CopiedExactly` and
`EachShiftedOnce` have invariants that say how much of the input is in the
output at each step. `EveryFrame` (`DecodesFrames`) and `NothingElseStripped`
(`OnlySamplesStripped`) compare a program that keeps a half-read frame with a
recursive decoder of the whole input. `DecodeInv` and `StripInv` relate the two:
the words taken fall into the frames that are dealt with and the unfinished one,
which begins at some word `s`, and *however the input goes on*, decoding all of
it gives what was put out so far, followed by what decoding from `s` gives. The
quantifier over all continuations makes this inductive without an argument about
decoders of prefixes. For 6d6strip the output has run lengths, so `StripInv` is
about what the entries written tell, with the sample frames still counted behind
them; appending an entry appends what it tells (`ToldAppend`), a torn one
nothing (`TornEntry`), and a beginning of the entries tells a beginning
(`ToldBeginning`). `EverySample` (`SamplesCounted`) counts the calls.

`S2xReadProofs`, for all numbers of channels, buffer sizes, gains and limits
(`ReaderAssumption`): `TypeCorrect`; `Every` (`EverySampleOnce`), by the
invariant that for each channel the samples in the file and those in its buffer
are together the samples expected (`EveryInv`), where `OpenInv` tells from the
samples alone whether a time packet has been written; `InTheirSecond`
(`SamplesInTheirSecond`), by `SecondInv`: what is in the buffers, and the last
time packet, belong to the second of the last sample between the limits.
`Ascend` (`StampsAscend`) and `FromStart` (`NothingBeforeStart`) have
`[]ClockAdvances` as a hypothesis: that the length of a sample, as steered, is
never negative. The code does not guarantee it, for its limits of the steering
are commented out (`sample-tracker.h:101-105`): with timestamps far enough off
the clock turns around. The run `s2xread` checks `ClockAdvances` for timestamps
that are off by a tick. `AscendInv` orders the times of samples, and the time
packets below the second of the last sample.

`CalendarProofs`, for every day from 1972 on, whatever `LastYear` is
(`CalendarAssumption`), has all the properties of `Calendar` and
`TimeCorrection`, where the run ends in 2050 and TLC's integers in 2068. The
inductive invariant, `WalkInv`, says that the day is one of the calendar, that
it has the number `tai_time` counts to (`Number`), the day of the year that
`miniseed.h` computes, and that the leap seconds of the source's table which
come before it are the first `leaps`. The argument for dates is `DayOfNumber`:
splitting the number as `tai_date` does gives back the year, month and day it
was made of. So no two days have the same number, and the announced months, in
their order, are the entries of the table: a day ends with a leap second if and
only if the table has the day after it (`EndsWith`). From `WalkInv` follows how
far the loop in `tai__leapsec_add` counts (`AddIs`, by induction over the table)
and what `tai_utc_diff` counts (`DiffIs`); then `TimeOfDateHolds`,
`DateOfTimeHolds`, `OffsetStepsHold` and `BcdDaysHold`. `DayOfYearHolds` says
exactly where `tai_date` is wrong about the day of the year: by `CenturyDay`,
one from March on in a year that ends a century without a leap day (finding 6).
`ClockCorrectedHolds` has every skew, every drift, every tick of the day and
every length of a tick: the rounding is off by half a tick at most
(`RoundedNear`), the clock's own reading by another half, and the rest of the
difference is the drift over `behind` ticks (`ErrorIs`).

`SequenceLemmas` has what these proofs share: what `FlattenSeq` and `IsPrefix`
do with appended and joined sequences, and `TailRecursion`. The decoders of
`Mseed` and `Strip` are functions that recur from a place in the input towards
its end; that the equation of such a function holds, and that its values are
sequences, is proved from `WFMin` (a set of numbers that is not empty has a
least element), by taking the place nearest to the end where it would fail.

Only model-checked:

- liveness (`DestroyReturns`, `CallReturns`, and the fair part of
  `ImplementsStream`), since TLAPS does not do fairness;
- `ClockAdvances`, which needs a bound on the errors of the timestamps (see
  above).

## Not modelled

- *The resampler's path into the writer.* `Resampler` has the samples and
  `WMSeed` the records; the callback that connects them computes times of
  records in `double` from two clocks. The markers of lost samples, which go
  past the resampler, belong to it.
- *The filter's arithmetic and tables* (`samplerate/`). The three files of
  coefficients are 321000 of the repository's 329000 lines of implementation,
  data without a behaviour; the converters for several channels are not used.
- *Bytes*: headers, packets, MiniSEED records, varints, printing and parsing of
  dates, command lines and translations. They have no state, and nothing the
  properties talk about depends on them.
- *find_timestamp*, which no program calls, and *6d6info*, *mseed-check*,
  *s2xdump*, which read one file and print.
- *What the code leaves to chance or to users*: what `blockreader_new` means by
  a count of 0, `int` overflow of the sample buffer at 2^30 samples, a corrupt
  timestamp far in the future, whether the recorder's clock counts through a
  leap second between synchronisation and start (`6d6mseed.c:342` takes the
  other view than line 345). `PROJECT.json` lists these among the hazards.
