# A formal model of profilerStreamer

profilerStreamer records a Baumer OX laser profiler (TCP) and a rangefinder
behind an IO-Link master (OPC UA) at the same time, cuts the recording into the
passes of the moving profiler and gives every profile the position the
rangefinder saw. Two Grasshopper components drive it: one calibrates the scanner
on a machine, one streams scans with that calibration. A set of Python tools
releases it. The modules here model the parts that carry this logic, TLC checks
them on small instances, and TLAPS proves the most important properties for every
value of the constants.

C++ sources named below are in `src/cpp/...`, the components in
`src/gh_components/`, the release tools in `src/invokes/`.

## 1. Inventory

| Component | State | Operations | Hard behaviour | What makes it correct |
|---|---|---|---|---|
| `Recorder`, `TCPRecorder`, `OPCUARecorder` (Communicate.hh 178-271, .cc 195-303) | atomic switch, thread, mutex, vector of readings | StartRecording, StopRecording, GetRecordedData, destructor; the recording thread | two threads; exceptions in the thread; a thread that has ended and is still joinable; stop waits for the thread | never aborts; copy and append exclude each other; the recording is an ordered log that is final after a stop |
| `OPCUACommunicator` (.cc 103-193) | client pointer | Connect, Disconnect, GetDataWithTimestamp, destructor | client deleted on failure; variant cleared on five paths; server writes while a read is under way | client deleted once, variant cleared, reading fresh and not garbled |
| `TCPCommunicator` (.cc 7-101, .hh 78-91) | sensor handle, stream handle, the stream's profile queue | Connect, Disconnect, GetDataWithTimestamp, destructor | every SDK call may throw half-way; profiles arrive between two calls; the scale is asked for after the packet | no call through a null handle; no profile from before the queue was emptied gets a new time stamp; what Connect promises |
| `DataSlicer` (PostProcess.cc) | recordings, segments, correction distances | Slice, ComputeRegularizedProfiles | off-by-one, stride 0, gaps, erasing while iterating, state left from the last call | segments are the passes; every profile is corrected with the readings around it, which have a line; no access out of range |
| `linearRegressionSlope` (Utils.cc 5-35) | none | pure | gaps, ties, sentinel result | least squares |
| `ComputeTransformationMatrix` (Utils.cc 37-56) | none | pure | floating-point SVD | an input of the geometry |
| Calibration script (ProfilerStreamer_calibrate/code.py) | two communicators, two recorders, a slicer, a cloud in the document, the transform found | RunScript | an exception between start and stop; a Disconnect that throws; destruction order without keep-alive in bindings.cc; products of transforms | both devices free and both threads joined afterwards; cloud and transform agree |
| Streaming script (ProfilerStreamer_stream/code.py) | the same, and the calibration it was given | RunScript | the same; a calibration applied along other trajectories | every point lies where it is in the machine |
| Bindings, package (bindings.cc, py package) | object lifetimes | declarations | no keep-alive between recorder and communicator | see the scripts |
| `MockOPCUAServer` (MockOPCUAServer.hh) | server thread, flag, distance | Start, Stop, repeated callback | 16-bit namespace loop, start/stop | publishes the distance it computed |
| Release tools (invokes/*.py, tasks.py) | versions, stamps, component files, package | versionize, flagerize, ghcomponentize, yakerize, pypireize | a failure half-way; products of an earlier run; versions compared as strings | success means that what was made belongs together |
| Mock communicators, data types, test programs | values | none with state | none | not modelled |
| 3rd_party/BaumerSDK, assets, CMake | | | | vendored or build configuration |

How they interact. A script creates one communicator and one recorder per
device. Each recorder holds a reference to its communicator and calls
`GetDataWithTimestamp` from its own thread every few milliseconds; the script's
thread starts and stops both recorders and fetches copies of their vectors under
the mutex. The two vectors go into a `DataSlicer`, whose methods the script calls
one after the other; the slicer calls `linearRegressionSlope`. The calibration
hands its transform, trajectory and flip to the streaming component. The release
tools share files only: each reads what an earlier one wrote.

## 2. Modules

| Module | Models |
|---|---|
| `RecordingLog` | abstract: what a recorder promises. A log that is open or not, and that only grows, in order, while it is open. |
| `Recorder` | both recorder classes; implements `RecordingLog`. |
| `OPCUACommunicator` | the communicator, its caller and the server it reads from. |
| `TCPCommunicator` | the communicator, the SDK it calls and the sensor. |
| `LinearRegression` | `linearRegressionSlope`, as an operator. |
| `DataSlicer` | Slice and ComputeRegularizedProfiles, one action per loop step or segment; uses `LinearRegression`. |
| `ScanSession` | one run of either script: composition of two communicators, two recorders with their threads, and the script; each recorder implements `RecordingLog`. |
| `Calibration` | the geometry of both scripts. |
| `WorkingTree` | the files the release tools share, and versions. |
| `Versionizer`, `Flagerizer`, `Componentizer`, `Packager` | one tool each (the last: yakerize and pypireize). |
| `ReleasePipeline` | composition of the tools and the developer. |
| `X_proofs` | the theorems about X, for Recorder, OPCUACommunicator, TCPCommunicator, LinearRegression, DataSlicer, ScanSession, Calibration and ReleasePipeline. |
| `MCX` | the instances of X for TLC. |

Operators whose comment begins with "Fault:" are plausible mistakes in the
operator that follows them. They are part of no specification; each property is
known to fail when one of them takes the place of the original.

### Recorder

The owner (the thread of the script) is in a call, `owner`; the recording thread
is at a place of its loop, `recordingThread`, where `"none"` means that the
`std::thread` is not joinable and `"exit"` that it has run to its end and not been
joined. The steps are those another thread can tell apart: the test of the
switch, the call on the communicator, taking the mutex, the append with the
release, the handler, the sleep; for the owner, setting the switch and creating
the thread are two steps, GetRecordedData three, StopRecording one for the switch,
one for each 100 ms wait and one for the join.

The variable `class` makes the one module both classes: `TCPRecorder` keeps every
reading and joins at once, `OPCUARecorder` drops readings without points
(`KeepsEmpty`) and waits `OpcuaPolls` rounds first (`StopPolls`). A reading is the
number of the communicator call it came from. `recordingSwitch` has no initial
value in the code, so `Init` leaves it open; nothing reads it before it is written.
Failures in the model: the communicator throws, `push_back` throws, the thread
cannot be created. `session` and `mark` are history variables.

One owner thread is assumed: `StartRecording` and `StopRecording` are not
synchronised with each other, and every caller in the repository uses a recorder
from one thread.

### OPCUACommunicator

The client is a resource with a pointer to it. A read is two steps, the request
and the answer, so that the server's repeated callback (MockOPCUAServer.hh
133-147) can write the node in between; time is the number of such writes. The
node may also hold what the code has to reject, an array of another length or a
value of another type. Bytes are numbers; encoding and decoding are the shifts
and masks of the source. The open62541 client itself is external: connecting or
reading succeeds or fails, and `UA_Client_new` may give no client, so that an object
may be without one from the start. The read returns the value the node holds when it
is served, and only a connected client is served.

### TCPCommunicator

`caller` and `at` say which method runs and which SDK call it has come to; every SDK
call is a step that has its effect or throws without one. In the destructor a throw
ends the process, which the model takes as the end of the object. The stream's queue
is external: it gives the oldest profile, and between any two steps another may
arrive. Profiles are numbered as they arrive and carry the number of the sensor
settings they were measured with. A reading is stamped with the time of now
(Communicate.cc:79). What the code does against old ones is to empty the queue at
the end of a reading, and `ReadSinceCleared` says that none from before that is
read. It does not bound a profile's age: what has been queued since Connect started
the stream, between two recordings, or since a reading that threw before it emptied
the queue, is read however old it is. `faulty` remembers that a start or a close of
the stream threw, the case in which Connect reports success without a started
stream. One thread at a time uses the object, as everywhere in the repository: the
script connects before it starts the recorder and disconnects after it has joined it
(which is what `ScanSession` checks).

### DataSlicer and LinearRegression

Distances are integers, times microseconds (in the instances, half milliseconds).
The stride and the speed count whole milliseconds, as the code's `duration_cast`
does (`Milliseconds`, with `Millisecond` for their length); the regression keeps the
finer times. The speed test is done without division: `|dx| / |dt| >= 0.005` is
`|dx| * 200 >= |dt|`, with the cases of a zero duration (infinite, or not a number)
spelled out. Readings and profiles are named by their place in the recording. Slice
is one action per reading in the loop that classifies, one per segment in the loops
that erase and assign; the local variables of the call are variables of the module.
A regression line is a fraction, a slope and an intercept over a common denominator,
so that equality is exact; rounding of doubles is not modelled. The y and z of
points are copied unchanged in the code and are left out. Constants stand for the
code's 10 (`MinSegment`) and 20 (`WindowingSize`), so that small recordings reach
every branch. A loop that picks elements of a vector is written with `InOrder` (a
finite set of numbers in order) and `Only`, not with `SelectSeq`, and a sum with
`SumFunction`: the provers know neither recursion nor `SelectSeq`.

### ScanSession

One RunScript of the calibration or the streaming component, from the connections to
the destruction of its locals; `script` is the phase, `device` the device when a
phase does the same for both. Each device has a communicator, a recorder and a
recording thread that is between two readings, inside a call of the communicator, or
at its end. Every call the script makes may raise where the code or its libraries
can: in a constructor or Connect, when a thread cannot be created, in the sleep, in
the selection of points, in the computation of the result, and in Disconnect of the
profiler, whose Shutdown calls the SDK (Communicate.hh 82-87): in the handler of a
failed Connect, when nothing was recorded, and after the profiles were computed. The
rangefinder's Disconnect, which comes second, is then not reached. Where the script
has a handler the model takes it; elsewhere the exception escapes, and the host
keeps the frame alive until it releases the traceback.

Locals go in the order in which the script made them, so both communicators are
destroyed before both recorders, and the bindings (bindings.cc 34-44) do not keep
a communicator alive for its recorder. A recorder's destructor clears the switch
and joins. The profiler's destructor shuts down once more unless Disconnect came to
its end, and a throw out of it ends the process (`"aborted"`), for destructors are
noexcept. The recorders are seen at the level of `RecordingLog`, which the
property `RecordersAreLogs` shows to be kept by every step of the script. A count
of readings stands for the vector.

### Calibration

The profiler moves along x, which the regularisation supplies; what the calibration
and the streaming do to it is to move points in the plane across. The module uses
pairs `<<y, z>>` of integers, quarter turns about x, shifts and the reflection of y:
this keeps everything that does not commute, and no rounding. A machine is a mount
(the map from the profiler's coordinates to those of the tool end) and a trajectory;
`Truth(line)` is the map the calibration looks for. The scripts' own steps (longest
segment, flip, first and second transform, their product, the data handed on, and
per segment flip, map and shift along the trajectory) are the actions. The result of
`ComputeTransformationMatrix` on the points a user picked is exact if nothing
refines it, and any rigid map if reference targets do; the ICP is then exact.
Segment i is taken to have been scanned along trajectory i, as the script does;
which segments the slicer finds is not part of this module.

### Release tools

Every file is abstracted to what the tools read from it: a version literal; a
`code.py`'s text and stamps, those in its first ten lines apart; the values of a
`metadata.json` that are checked; the sources a `.ghuser` was made from; the
contents of the `.yak`. A version is a tuple of numbers, compared as the tools do,
as a string (`Text`, `StringLeq`): part by part, because the point sorts before the
digits, and each part by the place of its digits among those of all numbers below
100 (`Rank`). A tool runs in steps, one per file it writes or phase it ends, and may
be killed at every step, also while a file it has opened for writing is still empty.
The developer edits the manifest, code and metadata, removes a component or the
build directory, and runs the tools in any order, as a task of tasks.py or by hand
with another version. `release` counts the tasks of a release that have succeeded in
their order, with no edit since that a later one depends on. External programs
(Yak.exe, the .NET host) succeed or fail.

`Init` has both layouts: the one versionize was written for, and this
repository's, where setup.py has no version literal. It also has both states of
manifest.yml, which this repository does not hold: without it the tasks that read it
end at opening it. A version has at most three parts: of a longer one the searches
without a closing quote (manifest.yml, CMakeLists.txt) would read the first three, the
others nothing.

## 3. Runs

| Run | Instance | Shows |
|---|---|---|
| `recorder` | both classes, 5 waits, 3 readings, any number of sessions | no abort, exclusion of copy and append, snapshots stay prefixes, order, at most one late reading, every stop returns, the inductive invariant, implements `RecordingLog` |
| `opcua` | distances 0, 500, 1500, 2 updates | client deleted once, readings fresh and intact, the inductive invariant |
| `tcp` | 4 profiles, 2 changes of the settings | no profile from before the queue was last emptied, no scale older than its profile, what Connect's result means, the inductive invariant |
| `regression` | windows of up to 4 readings over 3 times and 3 distances or none | the result is the least-squares line |
| `slicer` | 8 readings half a millisecond off the beat, every sequence of steps and at most one gap, strides 1, 2 and none; three profile recordings; one call of each method | segments are the passes, a profile is in one segment and corrected with the window it was taken in, the regression always has a line, profiles tied with a reading are exact |
| `slicer_calls` | the 16 recordings of 8 readings without a gap that begin with a short pass and end with a standstill; strides 1, 2 and none; two profile recordings; two Slices and one ComputeRegularizedProfiles in any order | every access is in range, those of the regression windows included, no short segment is left, every call returns, the inductive invariant |
| `session` | both components, a second of recording, readings counted up to 3 | threads only call connected communicators unless a recording was interrupted; everything is released, or the process has ended on a profiler that would not shut down; what is sliced is final; the run returns; each recorder is a log; the inductive invariant |
| `calibration` | 2 points, 3 trajectories, 2 shifts, up to 2 segments of up to 2 points, every turn and reflection | cloud and transform agree; every streamed point lies in its place in the machine, but for the height of its trajectory |
| `release` | 2 components, versions 0.8.0, 0.9.0, 0.10.0 and 1.0, four kinds of metadata, 1 intervention | a release is consistent; yakerize reports success only for its own package; versions only rise; `__init__.py` is not ahead; every tool ends; the inductive invariant |
| `slicer_again` | two Slices | finding 1 |
| `slicer_motion` | one call of each | finding 2 |
| `session_interrupted` | readings counted up to 1 | finding 3 |

`TypeOK` is the first conjunct of `IInv` in `recorder`, `opcua`, `tcp`, `session`
and `release`, and stands by itself in `slicer`.

Why the bounds are enough. *Recorder*: the bound is on readings, not on calls. Three
readings allow a session with several, a restart and a late reading with a snapshot
in between; the number of sessions, stops and failures is not bounded at all.
*OPCUACommunicator*: one update while a read is requested and one while it is
decoded are all that one call can meet; 500 and 1500 have two different non-zero
bytes each, 0 is what the node holds first. *TCPCommunicator*: four profiles allow
one read in one reading, one that waits behind it and is dropped, and two for a next
reading, before or after a reconnection; with two changes a setting can be that of
the profile, older or newer. The number of calls and of throws is not bounded.
*DataSlicer*: eight readings hold up to four passes separated by a standstill, two
of them long enough, a short pass between two long ones, short ones next to each
other (the case in which erasing while iterating goes wrong), and, with a window of
one, segments shorter than, equal to and longer than two windows. The strides 1 and
2 cover a classification that looks one and several readings ahead; every other
reading is half a millisecond late, so that one interval, of 10 ms, is exceeded by
less than a millisecond and the truncation decides. Profiles lie on and between
readings, before the first full window of a segment and after its last.
*ScanSession*: the script does not look at more of a recording than whether it is
empty, so three readings separate before, during and after the stop; the second of
sleep separates an interrupt before from one after it. *Calibration*: the points
(0,0) and (2,1) lie on no axis together, so that no two quarter turns or reflections
agree on both; the trajectories differ in y alone and in y and z; two segments and
one or two trajectories reach the repetition of the last. *Release*: 0.9.0 and
0.10.0 are ordered differently as strings and as versions, 1.0 is ill-formed; two
components make a failure between them possible; one intervention (an edit, a run by
hand or a kill) may come at every point of the chain of tasks, which may itself be
repeated and stopped at will.

Deadlock is checked in every run. The steps named `Terminating`, `Destroyed`,
`Done` and `Full` allow the ends that are meant: an object that has been
destroyed, a script that has returned, a bound that has been used up.

Fairness.

- `Recorder` assumes that the recording thread runs and that a StopRecording under
  way goes on (weak fairness of each): the operating system schedules both threads,
  the sleeps end, and calls on a communicator return or throw. It assumes nothing
  about the owner making another call, and no strong fairness of the mutex: a
  stopping owner does not hold it.
- `DataSlicer` assumes that a call under way goes on.
- `ScanSession` assumes weak fairness of the script, of the destruction of its
  locals and of each recording thread. It assumes nothing of the host: a traceback
  may keep the frame alive for ever. `RunReturns` therefore ends in `"unwound"`,
  `"left"` or `"aborted"`.
- `ReleasePipeline` assumes that a tool that runs goes on, nothing of the
  developer.
- `OPCUACommunicator`, `TCPCommunicator`, `Calibration` and the regression state no
  liveness: their calls are straight lines.

## 4. Findings

1. A second `Slice` keeps the profiles of the first in
   `profilesSortedIntoSegments` (PostProcess.cc 92-98), so that a profile is in
   one segment twice or in two segments, against PostProcess.hh 44-45.
2. The correction is computed at the wrong side of the reading (PostProcess.cc
   136): the line, whose time counts from the reading, is taken at `t_rangefinder -
   tProfile` instead of `tProfile - t_rangefinder`. For a profiler in uniform motion
   the profile is displaced by twice the way between it and its reading; only
   profiles taken together with a reading are exact (`TiedProfilesExact`), against
   PostProcess.hh 56-61.
3. When an exception leaves RunScript between StartRecording and StopRecording (the
   second thread cannot be created, the sleep is interrupted or the duration is
   negative), the script's locals are destroyed in the order they were made: a
   recording thread goes on calling a communicator whose destructor has run, until
   the destructor of its recorder joins it (bindings.cc 34-44, against
   Communicate.hh 243, which calls the communicator a reference the recorder
   records from). On every other path the threads are joined first
   (`CallsConnectedUnlessInterrupted`).

Divergences that were met and have no run of their own:

- `OPCUACommunicator::Connect` returns true when the object has no client, after an
  earlier failure or from the start (Communicate.cc 123-134, against Communicate.hh
  113-114). The model has it (`ConnectWithoutClient`); every later reading is empty.
- `TCPCommunicator::Connect` returns true with a stream that was not started, if
  `Start` or `Close` threw before. `TrueMeansStreaming` states the exact condition.
- The height of the trajectory is not followed in streaming (the line is commented
  out, ProfilerStreamer_stream/code.py 126); `StreamedInMachine` says by how much
  the result is off.
- The input `i_timeout` is described in metadata.json (line 103) and not used
  (ProfilerStreamer_calibrate/code.py 52); `int(i_slicing_interval) * 1000` turns
  every interval below a second into 0 (code.py 103, metadata.json 115-122).
- versionize compares versions as strings: 0.10.0 is refused after 0.9.0, and 0.9.0
  replaces 0.10.0. `VersionsOnlyRise` is therefore about versions of one digit. In
  this repository's layout it always ends at setup.py, which holds no version
  literal, when the manifest may already have been rewritten.

## 5. Proofs

Every proof module assumes only the assumptions on the constants named in its
component's module (three theorems of `DataSlicer_proofs` name one more each), and the
proofs hold for every value of the bounds.

`Recorder_proofs` (`RecorderAssumption`: two naturals), for both classes:

- `Invariance`: `Spec => []IInv`. The safety properties are not inductive by
  themselves: that copy and append exclude each other needs that whoever is
  between lock and release holds the mutex (`MutexInv`); that nothing aborts needs
  that the thread is joinable exactly during a session and that an owner about to
  create a thread has none (`OwnershipInv`); that the recording is ordered needs
  that the reading in the thread's hands is newer than all recorded ones
  (`ReadingInv`); the bound on late readings needs that the thread, once it holds
  one while a stop is under way, has recorded none since (`LateReadingInv`). The
  preservation is split in three: types, control, data.
- from it, each safety property as a theorem of its own, and the action property
  `FrozenOutsideSession`;
- `Refinement`: `Spec => ImplementsLog`. Creating a thread opens the log, an
  append records, a StopRecording that joined closes it, and every other step
  leaves the log alone.

`OPCUACommunicator_proofs` (`OPCUAAssumption`: distances are 16-bit numbers) proves
`RoundTrip` (decoding inverts encoding), the inductive invariant `IInv`, whose part
`BytesInTransit` says which distance the bytes on their way stand for, and the
safety properties from it.

`TCPCommunicator_proofs` (`CommunicatorAssumption`: two naturals) proves `IInv`,
and from it the three properties of the run. `ControlInv` says which SDK call
each method can have come to, `HandlesInv` that every one of them has the handle it
needs and that an unstarted stream outlives a call only after a throw, `NoPacketYet`
that a reading starts without a packet, and `QueueInv` that all that waits has
arrived since the queue was emptied and was measured with settings the sensor has had.
The control part and the data part are separate lemmas.

`LinearRegression_proofs` (`RegressionAssumption`: integer times, natural distances
or none) proves `LeastSquares`: for every window, of any length, the two sums that
define the least-squares line vanish, and the result is {0.0, 0.0} exactly when no
two measurements have different times. The normal equations are algebra over five
sums; what has to be known of a sum over a finite set (its type, that it is linear,
that it is non-negative and vanishes only with its squares, which makes the
denominator positive) is proved without induction, by taking a smallest set for
which it fails and removing one element. `UniformWindow`, that the regression of
readings on one line goes through the reading its time counts from, serves
`TiedProfilesAreExact`.

`DataSlicer_proofs` (`SlicerAssumption`: the recordings are sequences of readings
with integer times and distances, the two sizes are positive) proves, for every
recording, interval and order and number of calls: `Types`, `NoAccessOutOfRange`,
`LongSegments`, `SegmentsAreLongPasses`, `LinesExist`, `TiedProfilesAreExact`. The
inductive invariant `IInv` has one part for each loop.

- `ClassifyInv`: every segment found so far is, up to the counter, the whole set of
  moving readings without a measured standstill between them (`PassOf`); every
  moving reading before the counter is in one; the last segment is empty exactly
  when the profiler has stood still since its last movement. That being in one pass
  is an equivalence (`Apart`) makes the segments disjoint and whole.
- `PassesInv` and `ErasureInv`: the erasure removes only passes with too few readings
  and has passed only long ones, and the segments stay in order (`Ordered`). At the end
  both give `SegmentsArePasses`. The number of readings of a segment is the
  cardinality of its pass because its readings increase.
- `AssignmentInv` relates the two members: a segment of readings has a place for its
  profiles except before the first step of the loop that assigns them.
- `PointsInv`: what is in a segment has a point, hence so has every window.
- `ComputeInv`: every entry is computed from a profile and a reading of the segment it
    is listed for.
- `NoAccessOutOfRange` follows from these: the stride is at most the length
  (`ClassifyInv`), no segment is empty, and the places of a window lie in its
  segment because the loop over the readings leaves `WindowingSize` at both ends
  (`ProfileLooksUp`).
- `FirstSliceInv`: until a second Slice, a segment's profiles are those taken during it.

Three properties of the run `slicer` hold of recordings in the order of their times
only, which its instance has. `ProfileInOneSegment` and `LinesExist` assume that
every reading is later than the one before it (`Chronological`),
`ProfileTakenInWindow` that none is earlier (`NeverBack`): a recording thread stamps
one reading after the other and sleeps between two, 5 ms in the scripts
(Communicate.cc 232, 284; code.py 84), and the clock is not put back. With equal
times at the end of one segment and the start of the next a profile taken then would
be in both, and a window of one time only has no line. The first and the last say
`slices <= 1`, for a second Slice breaks them (finding 1). The module extends
`LinearRegression_proofs` for its lemmas; the variable `data` of the regression's
instance is not used in it.

`ScanSession_proofs` (`SessionAssumption`: two naturals) proves, for every duration
and any number of readings counted, `IInv` and the three safety properties of the run.
`ConnectingInv`, `RecordingInv` and `LeavingInv` say what each phase of the script
may find: which of the two devices are connected and whose threads are joined.
`FreeWhileSelecting` states that a user who picks points blocks no device.
`RecordersImplementLogs` is the refinement of `RecordingLog` by each recorder: its
recording only grows, by one reading at a time, while its thread is joinable. That
nothing is recorded after it was fetched is `FetchedStaysFinal`.

`Calibration_proofs` (`GeometryAssumption`: points, lines and shifts are pairs of
integers) proves both properties of the run, the second up to the height of the
trajectory, which the code does not follow, for every mount, trajectory, number of
segments and points. The algebra comes first: `TurnedTwice`, `TimesMoves` (the
product of two maps is one after the other), `InvertedMoves`, `SeenBack` (flip and
map undo what the profiler saw), `RefinementRestores`. The invariant is `MapFound`:
the map handed on is `Truth(line)`, whatever the first transform was, and goes with
the trajectory and the flip it was found for; `Placed` then moves one point along
any trajectory.

`ReleasePipeline_proofs` (`PipelineAssumption`: versions are sequences of one to three
numbers below 100) proves, for any components, versions, metadata and number of
interventions, every safety property of the run. The invariant has two parts that
are kept separately.

- `Progress`, for `ReleaseIsConsistent`, `FlagerizeOkMeansAllStamped` and
  `YakerizeOkMeansRepacked`: `Released` says what each task of the release stands for,
  `Versionizing`, `Stamping`, `Building` and `Packing` how far the running tool has
  come; an edit lowers `release` to below the first task that depends on it, which
  keeps `Released`. There is one lemma per tool for its start, its steps and its being
  killed, and one per edit.
- `FilesInOrder`, for `InitNotAhead` and `VersionsOnlyRise`: setup.py and `__init__.py`
  hold a version of three parts or none, and versionize has written setup.py when it
  comes to `__init__.py`. It rests on the order of strings being total and transitive
  (`LeqTotal`, `LeqTransitive`, from the first place where two strings differ); and
  `Rising` on `Rank` being the order of numbers as long as they have one digit.

Every safety property that a passing run checks is a theorem. Only model-checked is
liveness (`StopReturns`, `CallsReturn`, `RunReturns`, `ToolsEnd`), which is out of the
prover's reach under fairness.

## 6. Plan

Done, in this order: the recorders and their abstract log; the OPC UA communicator
with its server; the regression; the slicer; the session of the two scripts; the
release tools; the TCP communicator; the geometry of calibration and streaming.

Left:

1. The slicer's bounds on what it leaves out: how many profiles of a segment find no
   reading, as a theorem about `RegularizeSegment`.
2. Composition of `DataSlicer` with `Calibration`: a pass that is split or lost
   shifts the numbers of all later segments against those of the trajectories.
3. The life cycle of `MockOPCUAServer`.

## 7. Not modelled

- The Baumer SDK and open62541: external; their results are choices.
- Eigen's umeyama and the ICP (their results are choices or exact), rounding of
  doubles, conversions of points to arrays, Rhino's clouds, bounding boxes and
  meshes.
- `MockOPCUAServer` beyond its callback: only tests start and stop it. Its loop over
  the namespaces counts in 16 bits (MockOPCUAServer.hh 99): with the index 65535 its
  condition is always true, which needs as many namespaces as no server has.
- The mock communicators, which generate test data, the data types, immutable
  values, and the test programs. `TCPCommunicator`'s and `OPCUACommunicator`'s
  constructors and their checks of the device type.
- The wording of the tools' errors, zip and XML details of a `.ghuser`, the wheel
  that pypireize builds (no tool reads it; the results of its two builds are ignored).
- Build files, vendored code, assets.

Known and without a property, because nothing in the repository says what is
meant: the last profile of a segment is left out of the result (PostProcess.cc
118); `correctionDistances` grows over several calls (145); `numberOfSegments` wraps
at 256 (87); a `.ghuser` whose component was removed stays and is packed; profiles
that arrive while another is read are dropped (Communicate.cc 93). The models behave
this way.
