# IP Sentinel: TLA+ models, checks and proofs

IP Sentinel watches the ARP requests of a network segment and answers those
that come from, or ask for, addresses nobody may use, with a fake MAC address.
This directory holds TLA+ models of its core, TLC configurations that check
them on small instances, and TLAPS proofs of the properties that matter most.
`PROJECT.json` lists the runs, the source lines behind each definition, the
hazards, the findings and the theorems. Paths below are relative to the root of
the repository.

## The system

Two processes work together. The **main process** (`src/ip-sentinel.c`) blocks
in `recvfrom()`, looks every request up in the **blacklist**
(`src/blacklist.c`), asks the **flood protection** (`src/antidos.c`) whether to
answer, and writes a job into a pipe. The **worker** (`src/worker.c`) reads the
pipe, answers at once, and repeats the answer 2, 5 and 60 seconds later from a
**priority queue** (`src/prioqueue.c`). There are no threads; what makes the
code hard to test is time passing between a clock reading and its use, sleeps
inside the loops, failing system calls, signals, a file that is edited while it
is read, an unstable sort, buffers that several calls write into, and arrays at
their limits.

| Part | State | Operations | Talks to | Correct when |
|---|---|---|---|---|
| Priority queue | array, count, allocated size | init, insert, extract, max | called by the worker | jobs are permuted, never lost; reads stay inside; front is the most urgent |
| Flood protection | table IP → (time, counter), `min_time` | registerIP, update, isOversized, isDOS | called by the main loop | counters and table bounded, clean-up exact, slow hosts always answered |
| Reading the ipfile | a buffer of 512 bytes, one frame per `{..}` | read, cut into lines, expand ranges, parse | called by reloading, fills the blacklist | every line is read once and whole; a range means the lines it stands for; no buffer overflows; reading ends |
| Blacklist | `ip_list`, `net_list` | add, sort, unique, getMac | called by the main loop | the most specific line decides; owners are spared; nobody is answered without a reason |
| Reloading | `last_mtime`, `error_count`, `do_reload` | softUpdate, update, sigHup | file system, signals | every edit that `st_mtime` shows is noticed; what the file said when a signal came is read |
| Worker | queue, three error counters, clock values | read, schedule, send, select, sleep | pipe, raw socket | every repetition is tried once, nothing is left behind, it ends with its parent |
| Main loop | frame, `do_reload`, error counters | one frame per turn | all of the above, signals | only requests about blocked addresses become jobs; never stuck in `write()`; ends with the worker |
| Start-up | privileges, pipe ends, signal handler | socket, jail, setgid, setuid, forks | kernel | nothing is handled with root's rights; each process sees the other's death |
| MACs of an answer | `options->mac`, `llmac`, interface MAC, time | options, `fixupOptions`, `setRandomMac`, `fillPacket` | options, ipfile, worker | an answer carries the MACs the administrator asked for; few random ones at a time |
| Other options, wrappers, `ether.c`, testsuite | – | – | – | not or partly modelled, see the end |

## Modules

* `PrioHeap` – the index arithmetic, one level of `heapify`, and whole calls of
  insert and extract as operators on an array. `largest` keeps the code's
  comparison of the left child with the *right* one.
* `PriorityQueue` – the same heap with one step per loop iteration, on the
  allocated block (slots behind `count` keep what they held, `Undef` if never
  written). Actions: `Insert` (with the growth of the block), `ReallocFails`,
  `ClimbOn`/`ClimbEnd` (the loop of `insertInternal`), `Extract`, `Heapify`.
  `powify` is the intended arithmetic: the code's `1<<i` is an `int` shift, but
  the only argument the program uses, 1023, comes out right.
* `JobPool` – the abstract specification: a set of jobs, one of them on display;
  extraction removes exactly that one. It does not say that it is the most
  urgent one, because the code does not keep that promise (run `heap_order`).
* `PriorityQueueCalls` – adds a history variable with what the whole-call operators
  make of the array; that the loops arrive there is checked and proved, so that
  `Worker` may use the operators.
* `AntiDOS` – the table and the part of `run()` that drives it: `Update` at the
  head of the loop, `Receive` (the packet concerns an intruder in 0, 1 or 2
  directions), then per direction `Oversize` (with its growing sleep, `Awake`) or
  `Count`. The exit after repeated `recvfrom()` errors only ends behaviours and
  is left to `Sentinel`. The clock only runs forward.
* `AntiDOSRate` – the same with one host that keeps to a rate, counted by a
  history variable.
* `BlackList` – parsed lines become entries (`ReadLine`), which are sorted and
  cleared of duplicates (`Finish`); an address is the set of its one-bits.
  `Vector_sort` is any order its comparison function admits. `Promised` is an
  independent reading of what a file says about a query; `Disputed` names the queries
  about which the code and its documentation disagree. A reading that fails leaves
  its lines unsorted, and the binary search then finds an address or misses it.
* `IPLine` – `BlackList_parseLine` and `parseNetMask` on texts: which characters become
  which field, what is refused, and which characters are overwritten on the way.
* `Expansion` – `expandLine`, `iterateList` and `iterateRange`, with one frame per
  nested call; the buffer of a frame is used again for each item, and `parseLine`
  writes into it. `Meant` is an independent reading of what a line with ranges stands
  for, recursive from the end of the line (`Meanings`).
* `LineFeed`, `LineBuffer` – the abstract reader, which delivers a file line by line,
  and the loop of `updateInternal` that implements it with a buffer of fixed size.
* `IPFile` – the two together: each line is expanded before the next one is looked for.
* `FakeMac` – from the words of the administrator to the two MACs in the packet:
  parsing `--mac` and `--llmac`, resolving `LOCAL` once the interface is known, the
  copy that the worker takes, words in the ipfile, and the random MACs with their
  sliding window.
* `Reload` – one step per system call of `BlackList_softUpdate`, with edits in
  place (`Overwrite`) or by renaming (`Replace`), `sigHup` and failures anywhere.
  The content of the file is a version per part. The history variable `owed` is the
  file as it was when the last SIGHUP came that was in time; one that comes after a
  forced call has opened the file is `TooLate`.
* `Worker` – the event loop: `Top` computes the timeout, `Readable`, `Timeout` and
  `SelectFails` are the outcomes of `select()`; `Read`/`ReadFails`, `Limit` and
  `Insert` are `scheduleNewJob`; `Due`, `Send` and `Drained` are the inner loop.
  `timeout`, `taken` and `todo` are locals of the loop and are reset where they
  go out of scope. `Worker_sendJob` writes into a pipe of limited size; its
  failure branch needs a dead worker, and then `SIGPIPE` ends the main process
  first (`MainExits`). `callAction` forks a child that shares none of this state.
  The history variable `excess` holds the requests that met `MAX_REQUESTS` queued jobs.
* `Sentinel` – the daemon as a whole: the steps of `main()`, `daemonize()` and
  `Worker_init()` in their order, each of which may fail (`SetupFails`); the loop of
  `run()` (`Receive`, `ReceiveFails`, `UpdateList`, `generateJobToIntruder`,
  `generateJobFromIntruder`, `Worker_sendJob`, `SendFails`); and the worker as the
  main process sees it (`WorkerReads`, `WorkerReadFails`, `WorkerGivesUp`,
  `ChildExec`). What the other modules are about is one step with an open outcome:
  the list is a set of blocked queries, the flood protection may refuse any of
  them. `readers` and `writers` are the processes that hold an end of the pipe,
  which decides whether `write()` and `read()` block or fail. `Hup` reaches the main
  process at any time; `HangUp` is the end of the terminal of a daemon started with
  `--nofork`, which kills the worker, since it was forked before the handler was
  installed.
* `MCPriorityQueue`, `MCBlackList`, `MCIPFile`, `MCFakeMac`, `MCWorker`, `MCSentinel` –
  instances for TLC.
* `PriorityQueueProofs`, `AntiDOSProofs`, `BlackListProofs`, `IPFileProofs`,
  `ReloadProofs`, `WorkerProofs`, `FakeMacProofs`, `SentinelProofs` – theorems.

Operators named `Fault...` are plausible mistakes in the definition that follows
them; each property is shown to notice one of them.

## Runs

| Run | Shows | Bounds and why they suffice |
|---|---|---|
| `heap` | jobs permuted, no access outside of the block, loops end and agree with the whole-call operators, refinement of `JobPool` | six jobs in pairs of equal keys; the block starts with 3 slots and grows once to 7, so inserts happen into full, fresh and grown blocks, and heaps have three levels |
| `heap_order` | *violated* | six distinct keys, the smallest counterexample |
| `antidos` | bounded counters and table, exact update, a full table empties, a host within its rate is never refused | three senders, one of them polite with rate 2, where the rounding is at its worst; two entries, `TIME_BASE` 2, counters to 5: full table, cap, decay, reset and tombstone all occur |
| `blacklist` | the most specific line decides where code and documentation agree, owners spared, poison names an owner, every answer has a reason | all files of up to 3 lines over 2-bit addresses, all masks /0, /1, both `@` signs, `*`; three lines let an address, a `*` and a net compete; readings that fail after any line |
| `blacklist_star`, `blacklist_masks` | *violated* | two lines |
| `ipfile` | a line with ranges yields the entries of the lines it stands for, a refused one none; masks are prefixes; buffers suffice; the file is read line by line; reading ends | binary digits, masks up to /2, `int` up to 3 and `long` up to 7, so that numbers of three digits are cut off; every text of up to five digits and marks, one and two ranges in all places of a line, all combinations of fields; up to three lines of 0, 1 and 18 to 21 characters around a buffer of 20 |
| `ipfile_prefix` | *violated* | the lines with ranges of `ipfile` |
| `macs` | no assertion fails, answers carry the MACs asked for (without `--mac`, one of the documented defaults), few random MACs, the window slides by one | two random MACs out of four, a period of 2 seconds and 8 of them, so that the window goes once around; all command lines of one MAC option and the telling ones of two; one job in the pipe at a time |
| `reload` | no edit with a time of its own overlooked, no signal forgotten unless it is `TooLate`, eventually current | two parts, three edits in seven seconds, three failures end the process: edits before, between and after the `read()` calls and during the sleeps |
| `worker` | every repetition tried once (at most once if the queue was full), harmless broadcasts, queue drains, orphan ends | one request of each type, six and four messages, delays 1, 2, 4 for 2, 5, 60, one tolerated failure per counter, `MAX_REQUESTS` 4 so that the second request meets a long queue |
| `sentinel` | no root rights when input is handled, only justified jobs, no process waits for ever or outlives the other | all 48 settings of the options; a frame from and one for an intruder, a probe from 0.0.0.0, and no request; a pipe of two jobs, so that it is empty, partly filled and full; one tolerated failure per counter |

Deadlock is not checked where modelled time or the set of inputs ends, or where
the process may exit or has read its file. Time beyond `MaxTime` only passes for sleeps that have
begun (in `Reload` the clock stops and sleeps go on).

**Fairness.** The daemon's own steps are weakly fair: the kernel schedules a
process that can run, and no loop waits for anything but what its action's guard
names. Ticks are weakly fair: time passes. `AntiDOS` and `Reload` further assume
that packets keep coming in, since `run()` acts on nothing else. Failures,
edits, signals and the end of the main process are never assumed to happen, and
never excluded. `IPFile` is one process that never waits, so its next step is weakly
fair; `ReadingEnds` leaves out ranges that end with the greatest `int`
(`EndlessRange`), after which the loop of `iterateRange` need not end. In `Sentinel` the main loop behind a received frame, the worker and
its child are weakly fair; start-up, frames and signals are not. The premise of
`MainFollowsWorker` is that there is always another job to write, because the main
process learns of the worker's death in no other way.

## Findings

Each is a run that TLC finds violated; `PROJECT.json` quotes the text it contradicts.

1. `heapify` compares the left child with the right one (`prioqueue.c:117`); from
   six jobs on `PriorityQueue_max` may not show the most urgent job.
2. One `*@mac` line silences answers to requests *for* addresses in blocked nets.
3. Nets with different masks of equal bit count may be dropped as duplicates. The manual
   page leaves open which of two such nets decides where they overlap
   (`ip-sentinel.man:307-309`), but the run's unanswered query lies in one of them only.
4. Of the items of a range behind a `/` or `@` only the first is read as written:
   `parseLine` overwrites that character in the buffer that the next item uses
   (`blacklist.c:614`).

Read off the code, without a run of their own.

* Blacklist: other users of an `ip@mac` address are blocked by a surrounding net
  (`blacklist.c:746`), while the README (204-206) and the manual page
  (`ip-sentinel.man:417-419`) say that they are ignored; a host with the MAC of
  a `*@mac` line is not blocked if some other line gives its address, such as `!ip`, while
  the manual page (264-265) only excepts a matching `ip@mac`. `MostSpecificDecides` is
  silent about these queries and those of finding 2 (`Disputed`). Neither text ranks
  `@mac` against `@!mac`: there the property follows the code.
  Of two `ip@mac` lines for one IP only one counts (`blacklist.c:111`).
* Reading: an empty netmask, `10.0.0.5/`, means /0, because `blacklist.c:217` compares
  pointers; a last line without an end of line is dropped silently, or fails the whole
  reading as "line too long", depending on where it lies in the buffer
  (`blacklist.c:649`); a range that ends at `INT_MAX` may never end (`blacklist.c:491`).
* Reloading: a SIGHUP that comes after a forced call has opened the file is cleared with
  the earlier one, although the file may already have been read (`ip-sentinel.c:343`); no
  document promises anything about it, and `SignalNotForgotten` leaves it out
  (`TooLate`). It matters only for an edit that `st_mtime` does not show, one within the
  second of the previous edit (`blacklist.c:687`); `ListIsCurrent` assumes that there is
  none (`EditsApart`). Failures of `stat()` and `open()` add up although calls in between
  succeed, where `parameters.h:28-31` speaks of "subsequent failures"; and a failed reading
  may stop before the `!` exceptions, whose owners are then answered with fakes.
* Flood protection: a clock that is set back makes the share subtracted from a DOS
  counter negative, so that the counter may pass its maximum (`antidos.c:94`).
* Worker: jobs beyond `MAX_REQUESTS` are scheduled after a sleep, not dropped
  (`parameters.h:73-75`); of these jobs (`excess`) `NothingForgotten` only says that none
  is sent too often.
* Options: without `--mac` the code uses 802.3x (`arguments.c:189`), the manual page says
  `RANDOM` (`ip-sentinel.man:157`); without `--direction` it is `BOTH`, not `TO`
  (`ip-sentinel.man:150`); `--poison` is always on (`arguments.c:186`). `MacsAsTold` admits
  either default of `--mac`: the usage text names the one, the manual page the other.
* Random MACs: while the window turns, one more than its 32 values may be seen within
  a period.

## Proofs

TLAPS proves the following for all values of the constants that the named
assumptions admit (`PQAssumption`, `AntiDOSAssumption`, `RateAssumption`,
`BlackListAssumption`, `BufferAssumption`, `LineAssumption`, `ExpansionAssumption`,
`FilesAssumption`, `ReloadAssumption`, `WorkerAssumption`, `FakeMacAssumption`,
`SentinelAssumption`; TLC evaluates each of them). Every safety property of the runs is
the statement of a theorem. Some type invariants (heap, flood
protection, reloading, MACs, daemon) are proved and not part of a run.

Where an argument is an induction (over the slots of the heap, the elements of a vector,
the characters of a text, the levels of a recursion), it is made by the least
counterexample: the lemma `LeastNumber`, from the library's `WFMin`. `Recursion` in
`IPFileProofs` does this once for functions that are defined by recursion over numbers.

* **Heap** (`PriorityQueueProofs`). `TypeOK` and `EachJobOnce` are not inductive:
  the climbing job needs a free slot, and the slot behind the live part, which
  `heapify` may read, must still hold the job that moved to the root. `IInv` adds
  where the running operation stands. From it follow `HeapTypeCorrect`,
  `HeapKeepsJobs`, `HeapAccessIsSafe`, and `HeapImplementsJobPool`, in which
  `Insert` and `Extract` map to their abstract namesakes and every loop step to a
  rearrangement. `LoopsCompute` needs to know how far a running loop has got
  (`CallInv`): while a job climbs, the slots it has passed hold their parents' jobs and
  the rest of its way is what the whole-call operator would still shift; while
  `heapify` sinks a job, what is left to do to the array gives the same result as the
  whole call.
* **Flood protection** (`AntiDOSProofs`). `IInv` adds that no time stamp lies in
  the future; with it the subtracted share is at most the counter
  (`CounterStaysBounded`), `min_time` is a lower bound (`MinTimeStaysLowerBound`,
  `UpdateStaysExact`) and the table is bounded (`TableStaysBounded`).
  `RateLimitsMeasure` needs a bound that depends on the requests of the present
  second: at most `Limit - Rate + burst` for a host seen in this second, `Limit`
  otherwise; the lemma `RoundedShare` shows that one second's decay, rounded
  down, makes up for a second's requests. `PoliteIsAlwaysAnswered` follows.
* **Blacklist** (`BlackListProofs`), for files of any length and addresses of any width.
  `IInv` says that the two vectors have their shape (`Shape`), hold nothing but what
  some line says (`Sound`) and an entry with the key of every line (`Complete`), and that
  the nets are in order once sorted (`NetsInOrder`). `Sound` alone gives
  `AnswersReasoned` and `PoisonsRightly`, also for a reading that failed and left the
  vectors unsorted. `OwnerSpared` and `SpecificFirst` are about files that give no
  address twice and whose masks of equal bit count are equal (`PlainFile`, the files in
  which `Vector_unique` drops nothing that counts): there `Complete` gives every line its
  own entry, and the first net of the scan that matches is a most specific one
  (`SpecificFirst`, about every query that is not `Disputed`). The
  lemmas `SortedUnique` and `UniqueKeeps` say what sorting in any order and removing
  duplicates keep.
* **Worker** (`WorkerProofs`). `NothingForgotten` counts the entries of a request in the
  heap, so the first half shows that insert and extract only move jobs to other slots:
  a climb is a chain (`AncestorsChain`), and shifting along it is one-to-one
  (`ShiftedOneToOne`, `InsertMoves`). The invariant needs more than the types: the jobs
  still to be inserted belong to one request (`TodoOK`), no request is twice in the pipe
  (`PipeOK`), and the queue has no hole (`QueueOK`). For every request, also one that met
  a full queue, the attempts and the entries left add up (`Sums`); `EachRepeated` follows;
  `BroadcastsHarmless` needs that every job carries one of the two messages that
  `fillPacket` and `poisonJob` make of its request.
* **Reloading** (`ReloadProofs`). `ChangesAreSeen` assumes `EditsApart`, no
  two edits in one second (see above). Its invariant: no recorded time
  is later than the file's, and a reading that began with the file's present
  time has copied present content. `SignalsAreServed` and `ReloadTypeCorrect` need no
  assumption about edits, so the former also covers edits that `st_mtime` does not show:
  a part of the file never gets older, and a file opened after a signal, and every part
  read from it, is at least as new as what the file said then (`SignalInv`).
* **Reading the ipfile** (`IPFileProofs`), for files and buffers of any size.
  `LongOrUnterminated` is not inductive: it needs to know that a buffer without an end of
  line was full or held the rest of the file. `Inv` says where the pointers are
  (`Pointers`), that before a `read()` the buffer holds the beginning of one line and has
  room (`BeforeRead`), that after it the buffer is full or the file at its end
  (`AfterRead`), and that a line is given up only when it begins at the front of the
  buffer (`GivingUp`). `AlwaysRoom` and `OnlyLongLinesRefused` follow, and
  `BufferImplementsLineFeed`: taking a line maps to delivering it, the end of the file
  to the end, failures to giving up, and filling and moving the buffer to nothing.
* **Lines and ranges** (`IPFileProofs`), for any base, width of `int` and `long` and
  length of addresses. `MasksArePrefixes` rests on the arithmetic of shifts that wrap
  around (`PowersOfTwo`, `ShiftedOnes`). `BuffersSuffice` is not inductive: a frame must
  have room for all that its loop has still to write (`RoomFor`, in `Frames`), which
  includes the unsigned numbers that a counter beyond the greatest `int` is written as.
  They fit because they have at most one digit more than the upper bound, which is
  written out in the range, behind a `-` (`ValueCounts`, `NoMoreDigits`, `NumberFits`).
  `RefusedLeavesNothing` compares what different calls of `expandLine` see: each scans a
  text of its own, with other items in it and characters overwritten by `parseLine`, but
  what it finds depends only on the rest of the line behind the ranges replaced so far
  and on the `,` and `-` before it (`ScanBehind`, `RangeBadBehind`), and `parseLine`
  overwrites nothing but separators (`LineCuts`). So the levels of the recursion are the
  same for every item (`Levels`, `Argument`), and as soon as one line has been parsed
  none of them can be refused (`Clean`).
* **Exact expansion** (`IPFileProofs`, the second half), with the same constants and any
  number of ranges in a line. `ExpansionIsExact` compares two recursions over a text: the
  code makes the lines one after the other, in buffers that `parseLine` has written into,
  and `Meant` names them as a set. The invariant `Exact` is about lines that are
  well-formed and have no `/` or `@` before their last range (`Regular`; finding 4 is what
  happens to the others): the entries made so far, those of the text that a due call
  stands for (`Called`) and those that the frames have still to make (`Awaited`) are
  together the entries `Stated` for the line. A frame has still to make its first part,
  joined with each item or number that is left to its loop (`Left`), joined with what the
  rest of the line means (`Still`), and none of its numbers overflows (`Sound`). Each step
  moves a share from one of the three to another. What this needs of the operators:
  + the line: its braces are in order, and it means what the next braces offer joined with
    what the rest means (`Segment`, `MeaningsAre`, `PlainPart`);
  + the scan of a call finds just these braces and never complains of them (`ScanRange`,
    `ScanPlain`, `CallSees`); `iterateRange` reads from the two numbers what they say,
    however `long` and `int` are cut off (`RangeRead`), and `iterateList` takes the items
    that are there (`ItemsNext`, `ListChoices`);
  + `OverwritingIsHarmless`: `parseLine` leaves a `NUL` for the blanks that end a field, and
    a later text with the same first part, these characters overwritten, is parsed to the
    same entries. Whatever it overwrites in the part that is used again ends a field that
    lies in that part, and a `NUL` ends a field as well (`EndsWithin`, `BlankedEntries`).
* **MACs** (`FakeMacProofs`). `IInv` follows each word through the program: while the
  options are read, the two MACs are what the last option of each name so far says
  (`ParsedInv`); behind `fixupOptions` no `LOCAL` is left, and the worker's copy was
  taken after that (`ResolvedInv`); entries, jobs and answers mean their word
  (`AskedInv`, `ReplyInv`). `AssertionsHold` and `AnswersAsTold` follow. `RandomMacsFew`
  adds that each octet remembered was taken from the window of its second (`Recent`), so
  that all of them lie in two successive windows; `WindowMovesByOne` is the arithmetic of
  these windows, also where the octets wrap around.
* **Life of the daemon** (`SentinelProofs`). `IInv` adds to `TypeOK` what is left of
  root's rights at each stage of the start (`RightsInv`), until when each process
  holds which end of the pipe (`EndsInv`), and that everything behind the test of
  `ar_op` is about a request (`JobsInv`). `InputMeetsNoRoot`, `OnlyJustifiedJobs` and
  `DeathIsSeen` follow for all frames, blacklists, pipe sizes and error limits.

Only model-checked:

* all liveness (`OperationsEnd`, `OversizeClears`, `EventuallyCurrent`, `ReadingEnds`,
  `QueueDrains`, `OrphanEnds`, `BlockedWriteEnds`, `WorkerFollowsMain`,
  `MainFollowsWorker`), which is beyond the prover.

## Not modelled

* Options that only name a file, a user or a command, the usage text, the pid file and
  the log files. The user given by `--user` is taken to be another than root.
* A `sleep()` of the main process that SIGHUP cuts short: in `AntiDOS` sleeps last.
* Numbers in the ipfile with the prefix `0` or `0x`, which `strtol()` would read in
  another base; the numeric value of an address written as text (`inet_aton` accepts or
  refuses it).
* `ether.c`, a replacement for a libc function; message formatting; the debugging output
  of the blacklist. The wrappers of `wrappers.h` exit on errors, which is one action
  of `Sentinel` for every place of the start.
* `ensc_vector` and `ensc_fmt` are submodules without content here; sort, unique and
  search are modelled from their use.
* The testsuite and the packaging, which are read as evidence of what is intended.

## Plan

Done: heap and pool, flood protection, blacklist, reading and expansion of the ipfile,
MACs, reloading, worker, life of the daemon, and a proof of every safety property that the
runs check. Next:

1. Refinement: `Worker` implements the worker that `Sentinel` sees, and `Reload` its
   `UpdateList`.
2. An abstract specification of the whole (requests in, jobs out, two processes that end
   together) that `Sentinel` implements.
