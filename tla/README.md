# Spiritor in TLA+

Spiritor is a Windows program that sits between the keyboards and a game. It
captures keystrokes with the Interception driver, asks a Lua script about each
of them, passes on those the script does not suppress, reads the game's combat
log as the game writes it and hands every record to the same script, which may
press keys of its own. The script is reloaded when its file changes.

This directory holds TLA+ models of the program, the TLC configurations that
check them and TLAPS proofs. `PROJECT.json` gives, for every definition, the
lines it models, and lists the runs, the faults every property is shown to
catch, the hazards and the theorems. File names below without a path are in
`src/src/`.

## The system

### Components

| Component | State | Operations | Who calls it |
|---|---|---|---|
| `log_reader` (log_reader.h/.cpp) | `combat_log_` (ifstream), `mutex_`, locals of `run` | constructor, `open`, `run` | `run`: log_read_thread; `open`: callback thread of the directory's FileWatch |
| `FileWatch` (FileWatch.h) | `_directory`, `_close_event`, `_callback_information`, `_destory`, `_running`, two threads | constructor, destructor, monitor loop, callback loop | main (log directory), `script::holder` (script file) |
| `script::holder` (script_holder.h/.cpp) | `m_state` (Lua), `m_on_event`, `m_kstrokes`, `m_script_mutex`, `m_notifier` | `process_input`, `process_log_record`, `load_script`, the functions bound in Lua | main, log_read_thread, callback thread of its FileWatch |
| `input_sender` (input_sender.h) | references to main's `context` and `device` | press, release, both | the bound functions, on any of the three threads |
| main (main.cpp) | `context`, `device`, `isRunnung` | start-up, key loop, teardown, `HandlerRoutine` | the system |
| Interception library (interception.h/.c) | array of device handles and events | create, destroy, set_filter, wait, receive, send | main, `input_sender` |
| log record parser (parser.h, record.h) | none | parse one line | `log_reader::run` |
| ETW process watcher, `ProcessName`, `SafeProcessHandle`, `KeyEvents` | process handles, key bits | | nobody: not in the build, or commented out |
| date.h | none; each call has the state of its streams | arithmetic of dates; `to_stream`, `from_stream` with a format | nobody yet: main.cpp:12 includes it |
| scan code tables (scancodes.h), the example script | static data, user data | | |

`CMakeLists.txt:7-12` compiles `main.cpp`, `log_reader.cpp`,
`script_holder.cpp` and `interception.c` only. date.h is most of the source tree
by length: a copy of Howard Hinnant's library, whose types would give the
combat log's records their times (parser.h reads a time without a date).

### Interactions

Seven threads run: main; log_read_thread; the monitor and the callback thread
of each of the two FileWatches; and the console's thread for Ctrl-C.

* game -> combat log -> `log_reader::run` -> `process_log_record` -> Lua ->
  `input_sender` -> driver;
* new log file -> FileWatch -> `log_reader::open`, sharing `mutex_` with `run`;
* saved script -> FileWatch -> `load_script`, which takes `m_script_mutex` for
  itself, where the two handlers take it in shared mode;
* keyboard -> driver -> main's loop -> `process_input` -> Lua, then passed on
  or dropped; `device` is main's local, and `input_sender` reads it from the
  other threads;
* Ctrl-C -> `isRunnung`, read by main's loop between two keystrokes.

### What is hard

* `log_reader`: `run` releases its mutex while the script handles a record, so
  `open` can replace or fail the stream between a read and the `tellg` after
  it; a line may be half written when it is read; one saved position serves all
  files.
* `FileWatch`: four parties (system, monitor, callback thread, destroyer), two
  events, a condition variable, and a `destroy` that notifies without the
  mutex; bounded system buffer; every system call can fail.
* `script::holder`: three threads, one Lua state, one global `suppress`; a
  reload at any time.
* Interception: twenty devices, two kernel objects each, every one of which
  can fail; the index that a wait returns counts events, not devices.
* The parser: a line that does not match has filled part of the record by the
  time it fails, the record goes to the script all the same, and ids and
  amounts have no initial value.
* date.h: closed-form arithmetic with divisions that round to zero, unsigned
  wrap-around and narrow types, right at the turn of an era, a year, a
  millennium; two interpreters of formats with some forty conversions, each of
  which must leave the command's modifier and width reset; fields found
  redundantly, in any order, which must agree before a date is made of them.
* Start-up and teardown: every step of the start-up can fail with threads
  running; at the end the context is freed while the threads that send with it
  still run, and main waits for threads that may wait for each other.

### What makes each component correct

* `log_reader`: the script gets the complete lines of the attached log, in
  order, each once; `run` ends only when it should, and does when asked.
* `FileWatch`: no event is lost, doubled or reordered between monitor and
  callback; destroy stops both threads and closes what was opened.
* `script::holder` and main: a keystroke is withheld exactly when the script
  said so; what the handler injects precedes it and goes to its keyboard; every
  stroke is answered once, in order; a handler is never moved to another
  version of the script.
* Interception: creation is all or nothing; nothing is closed twice; the device
  a wait returns has something to read.
* Parser: the game's lines are parsed and their parts come out in their
  places; a damaged line never puts one part's text into another's members.
* date.h: days and dates correspond one to one and follow one another as in
  the Gregorian calendar; what a format writes it reads; what is accepted
  agrees with everything that was found.
* The program: every thread is over before what it uses is given back; it ends
  when it is asked to; while it waits for its threads no key is captured.

The hazards behind these are listed at their lines in `PROJECT.json`.

## Modules

| Module | Models |
|---|---|
| `LogReader` | log_reader.h/.cpp; the game and the two threads around it |
| `LineFeed` | abstract: the lines of a log, in order |
| `LogReader_proofs` | theorems about `LogReader` |
| `FileWatch` | FileWatch.h, its two threads, owner and system |
| `EventFeed` | abstract: events come one by one until the object is gone |
| `FileWatch_proofs` | theorems about `FileWatch` |
| `Interception` | numbering, guards and the wait, as operators |
| `InterceptionContext` | interception.c: create, destroy; main's calls |
| `InterceptionContext_proofs` | theorems about it, and what a wait returns |
| `ScriptHolder` | script_holder.*, input_sender.h, main's loop, three threads |
| `KeyFilter` | abstract: what keyboards get is their strokes, passed on or dropped in order, and what is injected |
| `ScriptHolder_proofs` | theorems about `ScriptHolder` |
| `Spiritor` | main's start-up and teardown around all threads and objects |
| `Session` | abstract: start threads, serve, free the keyboards, wait for the threads, end |
| `Spiritor_proofs` | theorems about `Spiritor` |
| `RecordParser` | parser.h, record.h: parse_ignoring, rule by rule |
| `CombatLog` | the lines of the log, part by part, with what they mean |
| `RecordParser_proofs` | what a parsed line has written, and that it is what the line says |
| `Date` | date.h's calendrical types and their arithmetic, as operators |
| `Gregorian` | abstract: day follows day, weekday follows weekday; 1970-01-01 is a Thursday |
| `Calendar` | `sys_days` counting up, seen through the conversions of `Date` |
| `Calendar_proofs` | theorems about `Date`'s conversions and `Calendar` |
| `DateStream` | characters and streams: the read and write helpers of date.h |
| `DateWriter` | `to_stream`: one action per conversion |
| `DateReader` | `from_stream`: one action per conversion, then what is made of the fields |
| `DateText` | a value is written, perhaps damaged, read and written again |
| `DateText_proofs` | theorems about what `from_stream` makes of any text |
| `MC...` | constants for TLC |

`ScriptHolder` composes main's loop, `script::holder`, `input_sender` and the
driver's inboxes, and builds on `Interception`, as `InterceptionContext` does.
`Spiritor` composes everything else, with each component reduced to the points
at which its thread takes a mutex, uses an object or ends; it does not
instantiate the detailed modules, whose states would multiply. `DateText`
composes `DateWriter` and `DateReader` over one format and one text; nothing of
the program is connected to them, as nothing of it calls date.h.
Operators whose name has an underscore and a fault (`Relock_NoSave`,
`Receive_OldDevice`) are not part of the models: each is a definition with a
plausible mistake in it, and for each property `PROJECT.json` names one that
breaks it.

### LogReader

A log is the number of its complete lines and whether an unterminated one
follows; stream positions count lines, because the reader only saves positions
that begin a line. `combat_log_` is its file, its position, `failbit` and
`eofbit`; `p` is `run`'s saved position, with `Lost` for `pos_type(-1)`. `pc`
follows `run` between the points where another thread can take the mutex:
`loop` (log_reader.cpp:29), `line` (a line was read and the mutex released,
33), `relock` (the script has returned, 44), `tail` (the clear and sleep after
an unterminated line, without the mutex, 48-55). What happens under the mutex
is one step. `Open` is the whole of `open`, with the failure of
`ifstream::open` on a stream that is still open. What the parser makes of a line is
left out; whether it succeeds has no effect on `run`'s state.

### FileWatch

`monitor` and `callback` are the two threads' control, `owner` the thread that
constructs and destroys. `pending`, `armed` and `overflow` are the system's
buffer, filled only after the first `ReadDirectoryChangesW`; a completed read
takes some of its records into `buffer`, which the monitor parses one by one
(`ParseRecord`) into `parsed_information`. Steps under
`_callback_mutex` are atomic, except that the callback thread is seen between
the test of the wait's predicate and the wait itself (`TestPredicate`, then
`Block`): there lies the missed notification. A wait may end spuriously.
Every call that the code checks may fail. The constructor leaves two values
open for the whole run: whether a single file is watched, and whether
`CreateEvent` gave an event.

### Interception, InterceptionContext

`handle` and `unempty` are the fields of the device array, `open` the kernel
objects that are open; `misclosed` collects what `CloseHandle` was given that
was not. `DeviceFails` is each of the three failures of a loop round;
`CloseDevice` one round of destroy, for which a handle of NULL, left by
`HEAP_ZERO_MEMORY`, is a handle to close (interception.c:95). main's calls
follow, with a context of NULL too, since main does not look. `Waited` counts
events as the code does. `ScriptHolder` uses the short form `WaitResult`, for
a context in which every device has its event, which is what `AllOrNothing`
shows of every context main gets.

### ScriptHolder

`main` is the control of main's thread: `loop`, `wait`, `received`,
`tracked` (`m_kstrokes` is updated, without the mutex), `handler` (the Lua
function runs with the mutex shared), `forward`. `logger` and `loader` are the
other two. A Lua handler is any sequence of calls of bound functions. Calls are
steps of their own, since two handlers can hold the shared mutex at once.
A stroke is its number in the order of capture; `captured` gives its
device, code and state, the state with the E0 bit. `verdicts`, `own` and
`foreign` record what `process_input` answered and who had called `Suppress`.

### Spiritor

`main` is the control of main's thread through construction (named for what is
constructed next), loop and destruction; `alive` the objects that exist.
`StartFails` is the exception of each step that can throw, and leads into the
same destructors; what was not constructed is passed over. `log` and
`callback` are the other threads' control, as far as they use shared objects:
`log = "reading"` and `callback["watch"] = "lock"` are `run` with `mutex_` held
(also while it sleeps, log_reader.cpp:54) and `open` waiting for it. Every use
of an object adds to `stale` if the object is gone; the model then goes on as if
the object were there. `missed` is the lost notification of FileWatch's
destructor.

### RecordParser

A line is a sequence of tokens, since the grammar distinguishes no more; blanks
count only in ": ". Braces and that colon are spelled out as tokens. An operator per rule maps a position to the position after
the match (or `Failed`) and to what has been written into the attribute by then.
Spirit does not take back what a sequence has written before it fails, but an
optional part (`-(...)`) assigns its attribute only as a whole: that is
Spirit's behaviour as this grammar relies on it. Of `Record`, the model has the
members that `make_log_binding` shows to the script. `Character`'s id and the
types of an amount are matched but not kept, since the script cannot read them.
`LogReader` calls this function between `line` and the script; the result has
no effect there.

### Date, Calendar

A count of days, months or years is an integer; `UChar`, `Short` and `Nibble`
are the conversions to the members' types, applied where a constructor applies
them, so a year that is too large wraps as in the code. `Quotient` is C++'s
division. The order of the steps in a function is gone, its cases are not.
A duration of time of day is counted in fractions of a second, `Frac` of them
to one, which is the precision of the C++ type.

### DateStream, DateWriter, DateReader, DateText

A format is a sequence of characters, `at` the character that is interpreted
next, `command` whether a `%` is open, `modified` and `width` what stands behind
it. Names of months and weekdays are one character, as the locale's facet writes
and reads them whole; everything else is character by character, since signs,
fill, width and the end of the text decide what is read. The facets are
modelled as they behave in the classic locale; what `%p` makes of PM depends on
the library's `time_get` and is the constant `PmHour`. An action is one round of
the interpreter's loop. `Fitted` is what from_stream does when the format has
ended: `ok` is FALSE where the code goes to `broken`, `computed` is its
variable; `Stopped` is the end of the loop, `Outcome` what is returned then. The
constants of "not found" are the code's, among them MIN_INT. A number that is read
goes through an unsigned and an int of 32 bits (`AsInt`), and a width of 0 is no
limit (`Limit`).

Operators and actions were also run against a build of date.h: 9,860 formats
and texts, with no difference in what is accepted and what comes out.

## Runs

| Run | Shows |
|---|---|
| `log_reader` | order, exit, lost position, progress, stop, refinement of `LineFeed` |
| `file_watch` | order and filter of the callbacks, handles, progress, destroy, refinement of `EventFeed` |
| `interception_context` | all-or-nothing creation, closing, the device of a wait |
| `script_holder` | suppression, tracked keys, injections, reload, refinement of `KeyFilter` |
| `main_loop` | every stroke is answered; Ctrl-C ends the loop |
| `spiritor` | what outlives its use, the end of the teardown, refinement of `Session` |
| `record_parser` | which lines are parsed, where the record's members come from, which are never written |
| `calendar` | dates, weekdays, n-th weekdays, months added; refinement of `Gregorian` |
| `date_text` | what is written is read; what is accepted agrees with all that was found |
| `new_log`, `tap`, `right_alt` | a sentence of the repository that the code does not keep (see Findings) |

### Bounds

* `log_reader`: two logs, three lines each. Two logs are enough for `open` to
  come after another file, three lines for one read, one in the hand and one
  to come; lines may be partial at every moment, and `open` may come between
  any two steps.
* `file_watch`: three changes, of two files, a buffer of two: one batch with
  the callback thread, one queued, one in the buffer; three changes overflow
  it. Whether a single file is watched is open. No change is in a subdirectory:
  the code, and with it `PassFilter`, compares the file name only, so there a file
  of the watched name is the watched file.
* `interception_context`: three keyboards, two mice: failures at the first,
  a middle and the last device, and of both kinds; four strokes.
* `script_holder`: two keyboards, one code, two strokes of any of the four
  states, one call of a bound function, one record, one reload after the first
  load. Two strokes let one wait while the other is handled, on the same and
  on the other keyboard. One call is enough for each property that speaks of a
  single call and the thread it came from; the proofs have no bound. One code
  is enough because codes do not interact. `MaxEdits = 2` counts the version
  that is loaded at the start.
* `spiritor`: two records and two events. Two events may be one for each
  FileWatch or two for one, in a batch or one after the other; two records let
  one wait behind a handler that is running.
* `record_parser`: one line; every combination of four characters, four
  targets, two abilities, five amounts and two ends, and one damaged token at
  every position, replaced by every other token. Parts are parsed one after
  the other, so that one damage meets every rule and every neighbour.
* `calendar`: every day from 1600-03-01 to 2000, in walks side by side, a whole period of
  the calendar, so it meets every month, leap year and weekday there is; the
  years around 0, and the first and last years of `year`, where the divisions
  change sign and the narrow types end. Months are added
  within and across the end of a year, and taken away over more than two years. The
  weekday is open at the start of each walk in `Gregorian`, and fixed by the day
  1970-01-01 (`Anchored`), which one of the walks meets.
* `date_text`: some nine hundred requests, not a product: every conversion with
  every modifier, dates in every way a format can say them and with every second
  way beside it, at the ends of years whose weeks belong elsewhere; years before
  0 and beyond four digits; midnight, noon, the afternoon and the last moment of
  a day, negative and long durations. A damage changes one digit, at every
  position of every text. No width is 0 and every
  number fits an int; the proofs have the others.
* `main_loop` has `MaxCalls = 0`: handlers end, so their calls do not delay
  anything, and the state space shrinks.

Deadlock is not checked where the bounds stop the environment, or where the
program ends: `run` returns, the object is gone, main has left its loop or
ended, the line is parsed.

### Fairness

* `LogReader`: `WF(Run)`. log_read_thread is runnable whenever it does not
  wait for `mutex_`, whose other holder, `open`, is short. No fairness of the
  game, of stop requests, nor of `open`: `run` sleeps with the mutex held and
  takes it again at once, and `std::shared_mutex` promises waiting writers
  nothing.
* `FileWatch`: `WF` of the monitor, of the callback thread, of construction
  and destruction, since each is a thread that the scheduler runs; `SF` of
  `Dispatch`, the monitor's lock of `_callback_mutex`, which the callback
  thread can take again and again by waking spuriously. The
  exception of `ReadThrows` and the changes of files carry no fairness.
* `ScriptHolder`: `WF` of main's steps, of a log handler's end and of
  the script's load, which says that handlers and top-level code come to their
  end: a script that loops for ever stops the program, as it does in the code.
  Nothing is assumed of the user, of the log, or that a call is made.
* `Spiritor`: `WF` of the teardown and of each thread, with the same
  assumption about handlers. None of main's loop, since the user may never
  press a key. `Open` gets no more than weak fairness: `run` may keep taking
  `mutex_`, and so `TeardownEnds` has the hypothesis that `open` gets its mutex
  in the end. Without it TLC finds the teardown that waits for ever: main waits
  for the directory's callback thread, that thread for `mutex_`, and `run` is
  not asked to stop before main has waited.

## Proofs

TLAPS proves, for every value of the constants (with `LogsAssumption`,
`FilesAssumption`, `DevicesAssumption`, `StrokesAssumption`,
`KeyboardsAssumption`, `BoundsAssumption`, `TokensAssumption`,
`WalksAssumption`, `ShiftsAssumption`, `DigitsAssumption`,
`RequestsAssumption`; the walks through the days stay between
`year::min()` and `year::max()`):

* `LogReader_proofs`: type correctness, `DeliveredInOrder`,
  `ReturnsOnlyIfAskedOrInterrupted`, `LostIsForever`, and that `LogReader`
  implements `LineFeed`. Order alone is not inductive: the step that delivers
  relies on the line held being the next one (`HeldWhole`), which relies on the
  position the next read starts from (`AtLoop`, `Handling`), on what an
  `open` between the two can do (`FailedMeansInterrupted`), and on nothing
  having been read without a file (`Detached`).
* `FileWatch_proofs`: type correctness, `NothingLostInside`, `DeliveredInOrder`,
  `DirectoryClosed`, and that `FileWatch` implements `EventFeed`. Where each
  event is, `NothingLostInside` says by itself; that callbacks come in the order
  of the changes needs besides that numbers grow through what was reported, the
  buffer that is being parsed and what the system holds (`Recorded`), also when
  the system discards a part of it. That neither a report nor a callback comes
  after destroy() rests on the joins (`Joined`).
* `InterceptionContext_proofs`: type correctness, `AllOrNothing`, `ClosedOnce`,
  `WaitFindsAStroke`, and the arithmetic of interception_wait_with_timeout: the
  index into the events is turned back into the first signalled device
  because a device's rank among the events grows strictly with the device. The
  invariant says of each array element, by how far
  create or destroy has come, what it holds and what is open (`Element`);
  `Captured` ties what waits in the inboxes to the predicate of the filter.
* `ScriptHolder_proofs`: type correctness, `HandlerKeepsItsScript`,
  `WithheldOnlyBySuppress`, `InjectionsComeFirst`, `DroppedOnlyOutsideTheLoop`,
  `HeldKeysTracked`, and that `ScriptHolder` implements `KeyFilter`.
  `Exclusion` is what the
  mutex promises; `AnswerSoFar` compares `suppress` with the history while a
  handler runs, and needs `Exclusion`, because a `Suppress` from the script's
  top-level code belongs to no handler. Injection order needs the position of
  every stroke: in one inbox once and not yet written (`Waiting`), or in main's
  hand and from `device` (`Hand`). That no injection is given up in between
  rests on `device` being a keyboard from the first stroke on (`Known`). For the
  keys, one more stroke at the end of a sequence changes the held keys as
  `Track` changes `keys` (`HeldGrows`), and no other step changes what main has
  tracked. For the refinement, what is pending for a keyboard in `KeyFilter` is
  what `Waiting` and `Hand` say is not answered yet, in the order of capture
  (`PendingIs`): a keyboard's first one is the stroke that main answers
  (`Answers`), and no other step moves it (`Unmoved`).
* `Spiritor_proofs`: type correctness, `OnlyContextAndMutexUsedLate`, that no
  thread outlives main (`NoThreadOutlivesMain`), and that `Spiritor` implements
  `Session`. The invariant ties main's position to the threads and the objects:
  a thread runs between its start (`Started`) and main's waiting for it
  (`Waited`), and as long as it runs the objects it uses are there (`Provided`),
  except the two that go early.

* `RecordParser_proofs`: `InitialisedIfParsed`, for every line of tokens. What a
  part has written must survive the parts after it, so the invariant says it
  for the parts before `rule` (`Written`); that an id which matches is not an
  uninitialised one rests on where `id` has found its number (`IdIs`), and that
  on the positions staying within the line (`UntilIs`). And `GameLinesAreRead`,
  for every line of the game: the parser is where the part it comes to begins
  (`Starts`, `Clean`), the part stands there (`PartsStand`), and each kind of part,
  wherever it stands, is read as what it means up to where it ends
  (`CharacterRead`, `AmountRead` and so on). Only an amount looks further, for more types, and
  no brace follows it (`NoBraceBehind`). The recursion over its types is not
  founded on its argument; that it has a solution is shown by giving one, the
  last position that one gets to (`AmountTypesAre`).
* `Calendar_proofs`: `from_days` and `to_days` are inverse to one another and
  `from_days` is increasing, for every day of the years that a `year` can hold;
  `DaysAndDatesAgree`, `NthWeekday`, `MonthsAddUp` (for any numbers of months),
  and that `Calendar` implements `Gregorian`, its fixed weekday included. The argument follows the code: the
  closed forms find the year of the era and the day of the year within their
  ranges, which bounds every division and shows that no narrow type wraps; the
  March-based month is read off a table of twelve. TLC walks through 400 years
  and the ends; the proof covers the whole range.
* `DateText_proofs`: `TimeIsTrue` and `FoundIsTrue`, for every format, every
  text that reaches the reader, every precision of the time and whatever the
  facets make of PM. The invariant has two parts. `Types`: through each of the
  forty-odd conversions every field is "not found" or what its reader can yield,
  among them that a number read digit by digit is a number, and that seconds and
  their fraction are too (`ReadSeconds`). `Results`: nothing before the end of the
  loop touches the result, and nothing after it what the result is made of
  (`Settled`). From there on it is about one value: each step of the fitting
  changes only the fields it is for (`Changes`) and keeps what is known (`Kept`),
  so what `FitHour` has made of `%I`, `%p` and `%H` reaches `TimeOf` (`FittedIs`,
  `TimeIs`), and a date that a week or a day of the year has given is the one
  that is returned (`Fixed`). What the fields then say of it is arithmetic on the
  calendar: the days of a year and the weeks of an ISO year follow one another
  (`Calendar_proofs`), the code's two ways to the ISO year meet (`IsoYearOf`), and
  a century and two digits give back the year they were taken from
  (`Centuries`). `FoundCorrect` has a hypothesis, `Narrow`: no year beyond four
  digits, no century, month or day beyond two, no week beyond 100. The program
  needs it: with `%3m` it reads 257, which as a `month` is January, and the date
  is accepted. `FoundWithoutWidth` shows `Narrow` of every format without digits, where
  no command has a width, so there `FoundIsTrue` holds of any text.
  `TypeCorrect` proves `TypeOK`, for every format, value, damage and text: where in the
  format and in a command the two loops are (`Place`, `Command`, `Turn`), and that
  what is left of the stream is always an end of what was written. Its invariant is
  `Shapes`: the text and the output are sequences, and what is left is an end of
  the text (`Left`), which every reader keeps, the one that reads a list of literals
  character by character included. That a failed stream gives no value is a part of
  `Results`: a value is taken only in the rewriting that follows an accepted reading
  (`Accepts`). `TimeIsTrue` has a guard for the one time that is not what its field
  says, an hour of ten digits (`%10H`) that has become negative. The writer's part needs that a written number is a
  sequence of digits (`FilledIs`), which rests on the number having as many digits as it
  needs (`DigitsNeeded`), and that the fields it is given are numbers (`FieldsType`).

Each invariant was also checked with TLC on the instance of its module's run.
The types of `LogReader` and of `Spiritor`, and `NothingLostInside`, are proved and no longer among
the properties of the runs, which leaves the runs to what they alone can show.

Only model-checked:

* all liveness (`LinesArrive`, `StopEndsRun`, `ReportedIsDelivered`,
  `KeptChangesAreNotified`, `DestroyReturns`, `StrokesAreAnswered`,
  `StopWithTheNextStroke`, `TeardownEnds`), which the prover does not reach;
* `DamageIsContained`: how the rules fall in step again behind a damaged token
  depends on each token and each place. The constants of `RecordParser` are distinct tokens
  and nothing else, so its run, over all entries and all damages, leaves no
  instance out;
* `WrittenIsRead`: what `from_stream` computes of what `to_stream` has written is
  decimal numbers digit by digit, an induction over data. That they are digits at
  all, as many as a number needs, is proved (`DigitsNeeded`); that reading them
  gives the number back is not.

## Findings

* `new_log`: `open()` on an ifstream that is open fails, so a log that appears
  during the session is never read (log_reader.cpp:20).
* `tap`: a size in bytes is passed as a number of strokes (input_sender.h:33).
* `right_alt`: the right Alt key is not seen as a modifier
  (script_holder.cpp:225).

Some invariants state what the code does where one might hope for more: a
log handler's `Suppress` can withhold the key main is handling
(`WithheldOnlyBySuppress` says "own or foreign"), a failed read has the
directory closed twice (`DirectoryClosed`), `CloseHandle(NULL)` is called
after a partial creation (`ClosedOnce`), a notification can be lost at
destruction (`DestroyReturns`, `TeardownEnds`), an overflow of the change buffer
is dropped in silence (`KeptChangesAreNotified`), what a log handler injects
before the first keystroke goes nowhere (`DroppedOnlyOutsideTheLoop`), the
context and `m_script_mutex` are used after they are gone
(`OnlyContextAndMutexUsedLate` has the three cases, which do occur), a line that
cannot be parsed still gives the script a record (`DamageIsContained`), a
parsed record may have members that were never written (`InitialisedIfParsed`), and
what `WrittenIsRead` and `NotLookedAt` except: date.h writes negative years that it
cannot read (`%F`; `%Y` with `%y` from -0100), refuses the afternoon for `%H` with
`%I`, and accepts centuries, weeks and days of the year that are not those of the
date. FileWatch's constructor returns before the system records changes
(FileWatch.h:354): what is changed until then is not reported.

Some hazards have no property, and `PROJECT.json` says why at each: a promise that
neither the code nor a document makes (`open` waiting behind `run`, a change before
the first read, a file of the same name in a subdirectory), a state outside the
model (what two threads do to a Lua state, globals of a script that failed half
way), or a case that a property excepts because the code is as it is (the fill of a
negative year, the contradictions of `NotLookedAt`). `PmHour` is 13 in the run; with
1, as some libraries have it, TLC finds `WrittenIsRead` violated.

## Not modelled

* What Lua computes, and what two threads in one Lua state do to it: the model
  interleaves whole calls of bound functions. Every version of the script is
  taken to define `OnEvent`; a script that assigns `suppress` itself, or whose
  errors leave through sol, is left out.
* The characters of a line, the value of its time, and the grammar's rules that
  no other rule uses (`player`, `companion`, `npc`, `threat`, `nip`).
* The window search of main, whose result is not used, and the order of the
  directory's entries, which picks the log to start with. A thread that the
  system cannot create ends the program and is left out.
* The Linux branch of FileWatch, and its copying, are not in this program.
* `ProcessWatcher_ETW`, `ProcessName`, `SafeProcessHandle`: not in the build.
  `KeyEvents`: its only use is commented out (main.cpp:205-218). No state of the
  program reaches them, so a model would say nothing of the program.
* Of date.h: `%c`, `%x`, `%X` and `%r`, which are what the locale makes of them;
  the builds with ONLY_C_LOCALE; the names in other locales; rounding between
  durations (`floor`, `ceil`, `round`); the literals; `operator<<` of each type,
  which is a format that `date_text` has.
* Of the Interception library: precedence, `get_filter`, hardware ids, a wait
  with a timeout. They have no caller.
* Logging and `Sleep`.

## Order of the work

`LogReader`, `FileWatch`, `Interception` with `InterceptionContext`,
`ScriptHolder`, `Spiritor`, `RecordParser`; then `Date` with `Calendar`, and
`DateWriter`, `DateReader` with `DateText`; each with the theorems above. What
is left is what the list "Only model-checked" names.
