# Verification of tjtools

tjtools is a collection of programs for one person's Linux machines: a kernel
driver, a few daemons and services, command line tools, and shell scripts.
There is no process that ties them together; what is worth verifying are the
parts that keep state while something else can interfere: other threads, other
processes, signals, the firmware, a charger, a failing write, a crash.

This directory holds TLA+ models of these parts, TLC configurations that check
them, and TLAPS proofs about them.

    tlc -workers 2 -config MCBrightness.cfg MCBrightness    # one run
    tlapm BrightnessDaemon_proofs.tla                       # one proof module

`PROJECT.json` lists the components, the runs, for each definition the lines it
models, the hazards, the findings, the theorems, and for each property a mutant
of the model that violates it. The mutants are the definitions called
`...Mutant` in the modules; nothing else uses them.

## Inventory

| Part | State | Operations | Shared with | What is hard |
|---|---|---|---|---|
| **aecram driver** (`aecram/driver/driver.c`) | one bounce buffer, one mutex, per file a config; the EC's registers and RAM | load, unload, open, close, SET_TYPE, READ, WRITE | threads of all its users; the EC | twelve port accesses per byte, copies outside the mutex, signals, faults, 16-bit addresses |
| **aecram_util** | a request | checks, two ioctls, a print | the driver | offsets and lengths wider than their fields |
| **brightness daemon** (`src/brightness_daemon.cpp`) | cached level, two streams, a socket, the state file | start, restore, five commands, stop | its clients, the firmware, systemd | failing streams, crashes around a truncation, int overflow, malformed datagrams |
| **its start** (`brightness_utils/`) | credentials, the socket file | read configuration, find the backlight, bind, hand over, drop privileges | the kernel, earlier starts | the order of the calls, what each failure leaves, devices that go away |
| **cpu_powerlimit** | a lock file, the CPU's limits | --init, --profile, --tdp | other instances, ryzenadj, systemd, the firmware | a child process, kills, signals at the wrong time, unsigned conversion |
| **battery_watch** | the state and level of the last poll | poll, suspend, sleep | the charger, the kernel | attributes read one after the other, time, a level of 0 |
| **container** | a key, a child process | open, close | curl, cryptsetup, systemd | a key that arrives in part, a pipe nobody reads, exit codes |
| **clevo_amp_control** | the amplifier's registers | init, effect, mute, unmute, recovery | the i2c bus, other instances | a packet sequence that fails half way, values read and written back, the lookup of the bus |
| **speedcontrolpp** | none | one ioctl, and another if it fails | the drive | 32-bit overflow |
| **amd_microcode, extract_bmi260_fw** | offsets into a file | a walk, a search | - | files that are cut off, unsigned differences |
| **urlparse, upper_sanitize** | a position in a line | a conversion each | - | broken escapes, ends of lines |
| **evdev_keepalive, pulse_bs2b** | a resource held until a signal | hold, release | systemd, PulseAudio | a signal before the handlers, or before the wait |
| **access_blocker** | a table made at load time | two hooks | the device nodes | nodes that come back with another inode, functions that are not found |
| **active_user, notify_wrapper** | a place in a list | a walk each | logind | sessions that end during the walk, a result that was a count before |
| **kdump** (end of `kdump/linuxrc`, `scripts/kdump_recv.sh`) | the connections, the files | wait for the receiver, send, reboot; store | network, clock, other machines | cut-off dumps, crashes in a row, names that collide |
| **net_ps2** | counters of a round | ping, restart the interface | network, systemd | exit codes, a copy of a variable in a subshell |
| awinic_detect; sysfs_write and other scripts | none | a query, a few tools in a row | - | - |
| shell functions, udev, polkit, systemd, templates | none | - | - | - |

The parts in bold are modelled. Only aecram_util calls another one, the driver;
each is composed with a model of what surrounds it (threads and EC; clients,
firmware and files; ryzenadj and reboots; charger and time; a bus with failing
transfers; curl and cryptsetup; several machines, a network and a clock).

What makes each part correct:

- aecram driver: a byte goes to or comes from the address that was asked for,
  whatever other threads do; nothing outside the address space and the buffer
  is touched; nothing freed is used; a transfer ends.
- brightness daemon: the level it works from is the backlight's; a level
  outside the scale gets nowhere; a saved level survives an orderly stop and is
  restored once; a bad datagram changes nothing; it stays responsive and ends on
  a signal.
- cpu_powerlimit: one process at a time sets limits; the limits of a sleeping
  process stay; the default ones come back; signals that keep coming end it.
- battery_watch: a critical battery leads to a suspend in bounded time; no
  suspend without a reason of this poll; time to react after a resume.
- clevo_amp_control: a program that reports success has done what it was asked;
  a half-written effect is not heard; a register only gets values meant for it.
- the sequential tools: no overflow, no read behind the end of a file, what is
  found is what is there, and they end.
- aecram_util: what is printed was read from where it was asked for.
- the start of the daemon: it serves with the user's rights and through the
  user's socket or not at all, and dims the configured device.
- container: exit code 0 means what systemd takes it for; no part of a key is
  taken for one.
- active_user, notify_wrapper, access_blocker: the answer fits the sessions and
  nodes there are, although these change.
- kdump: a dump that was stored stays, whatever comes after it.

## AecramDriver, AecramBytes

`AecramDriver` follows `driver.c` down to the single port access. The variable
`call` holds the locals of the ioctl each thread is in: one action per byte
copied, per lock operation and per `outb`/`inb`. `buffer` and `mtx` are the
driver's `data.buffer` and `data.mtx`, `config` the `private_data` of each open
file. `ec` is the device behind the two ports as the driver uses it: a selected
register, a command type, an offset and a RAM. It is external: its behaviour is
taken from what `cmd_out` and `cmd_in` send it.

`AecramBytes` is what the driver promises: a transfer moves bytes one at a
time, each atomically, between a user buffer, the shared buffer and the RAM at
`off + i`. It has no mutex and no ports. `AecramDriver` implements it
(`ImplementsBytes`): waiting and port accesses are stuttering, the value access
is the atomic step. The sharing of the bounce buffer is part of the promise,
because it is what the code does.

Runs:

- `aecram_pair`: two threads on one session, four addresses, a two-byte buffer,
  requests at and behind every edge; load, unload, open, close and SET_TYPE at
  any time. Two threads are all an interference needs; two bytes make a loop
  with a next iteration; two values of each offset byte make a carry from the
  low to the high byte. Threads are interchangeable (symmetry).
- `aecram_live`: with fairness for each thread's own steps (the kernel runs it)
  and strong fairness for taking the mutex (the kernel's mutex hands itself over
  to a waiter that starves), a transfer returns.
- `aecram_reads` (violated): two overlapping reads. The buffer is copied to user
  space after the mutex is free, and the mutex is taken per byte: one read
  succeeds with the other's bytes. aecram_util says "Read at offset".

`SoloTransferExact` says what is left: a transfer that nothing overlaps is exact.

## BrightnessDaemon

The daemon is one thread, so one handler is one action, except `RestoreState`,
which truncates the file and then sets the level: a crash may come in between,
and the two are `ReadAndTruncate` (or what happens on a bad stream) and
`ApplyRestored`. `pc` says how far `main` has come. `Die` is every end without
destructors: SIGKILL, a signal before its handler exists, an exception out of
`main`.

Assumptions: a process can crash, the machine keeps what was written to the
file (no loss of power between `write` and disk). The streams behave as in
libstdc++ of GCC 12 and later: `flush` on a bad stream does nothing, and text
that could not be written stays in the buffer and is written by a later flush
or by closing. A sum of ints that overflows is undefined: `IntSums` has the
wrapped and the exact value. The socket is abstracted to a queue of datagrams,
each with its first bytes, its size and its value.

Runs:

- `brightness`: every command, one malformed datagram of each kind (a level too
  high, a payload missing, a cut header, a size that does not fit, an unknown
  type), a state file from elsewhere (a legal value, one too large, none), other
  writers, and failures of each write, read and truncation. Three levels are
  enough for both ends of the scale and a middle; steps of -2 and 1 stay inside
  and leave it. The queue has one place: what waits behind a datagram has no
  influence on its handling, and a queue with one place is full most often.
  Fairness: asio runs ready handlers in the order in which they became ready, so
  the signal handler, enabled again and again, runs (strong fairness); a handler
  that is ready alone runs (weak).
- `brightness_overflow` (violated): `ModifyClamps`, which holds for steps that do
  not overflow, fails for the largest step: the sum overflows before it is
  clamped and the display goes dark.

`StopKeepsLevel` is the sharpest statement here: it spans two processes. The
level at an orderly stop is what the backlight has after the next start got
past its restore, also if starts in between failed before it.

## CpuPowerlimit, LimitLease

Each process goes through `pc` in the order of `main`: lock, apply, install two
handlers, pause, restore, unlock. `child` is the ryzenadj it waits for. A
process may be killed everywhere; its ryzenadj then dies with it, has already
set some limits, or goes on as an orphan. The kernel frees the lock of a process
that ends (fcntl locks). A machine restart clears `/run` and resets the limits.

A signal after its handler is installed and before `pause()` is lost. The state
`handled` is that window. `SignalledEnds` says what is left: if signals keep
coming, a process that holds the lock restores the limits, frees the lock and
ends. Strong fairness of `Wake` is its premise, not part of the specification:
nobody has to send signals.

The profiles, the multipliers and their products are constants: floating-point
rounding is left out. `Scale` is the conversion to unsigned.

`LimitLease` is what the program promises: the limits are lent. A process takes
them, sets them once to what it was asked for, sets the default and gives them
back; with `--init` it goes from taking them to the default at once. A process that
breaks off promises nothing (`intact`), but even then the limits are made of those
in force and of some process's target, and after the default is set again nothing
more is set. What an orphan still sets is `loose`. There are no program counters,
signals or children. `CpuPowerlimit` implements it (`ImplementsLease`): `LeaseStage` is where
the process with the lock is, `left` is the absence of `intact`; starting a
ryzenadj, the handlers and the wait are stuttering.

Runs:

- `powerlimit`: two processes, all kinds of jobs, TDPs outside and at the
  bounds (a TDP that is in bounds while its fast limit is not), failures, kills,
  orphans and reboots. Two processes are enough for every conflict on a lock.
  Fairness: a process that does not sleep goes on, ryzenadj terminates, the
  scheduler runs both; nothing is assumed of signals, kills or new processes.
- `powerlimit_tdp` (violated): `--tdp`. `fromTDP` checks the three limits and
  never assigns them.

## BatteryWatch

A poll is four reads with the charger in between (`Plug`), a verdict, and a
sleep of so many ticks. `dead` is every way out: device gone, attribute missing,
a charge of 0, a failing write to `/sys/power/state`. Nothing catches these.

Assumptions: computing takes no time compared to the interval; the level changes
with time and during a suspend, not within one poll; thresholds are whole
percents and levels are compared exactly, not in `float`; an interval of 0 is
left out; the steady clock stands still during a suspend (CLOCK_MONOTONIC).

Runs:

- `battery`: nine levels, a threshold of 50 %, so that there are levels below
  half, below, at and above it; interval 3, cooldown 2. `RespondsInTime` has
  both lengths in its bound, and the states at the boundary are reached.
  A charge of 0 ends the daemon: `SuspendJustified` says that it is no reason to
  suspend, and `RespondsInTime` is about batteries that have a level.

## ClevoAmp

A program is one run of clevo_amp_control. `BeginLookup`, one `Lookup` per entry
of the directory, and `OpenAmplifier` find the bus and open it, `Dispatch` parses
the mode, and the rest is a list of transfers:
`Steps` puts together what `prolog_write`, `gen_effect` and `pakets_write` send.
A transfer is one action, because the kernel makes it one on the bus; between
two of them other programs run, or the program is killed (`Exit`). A write that
reports a failure may have got through. All failures look the same to `main`,
so the three loops of the code are one sequence.

`dir` is the directory of buses in the order of `readdir`, `at` how many of its
entries a program has read, and `idx` its `i2c_idx`, which is not initialised
(`Leftover`). An entry whose attribute `name` cannot be opened leaves its number in
`i2c_idx`: with it at the end, the transfers go to another bus. `LookupExact` says
for every directory what the lookup ends with: the first adapter whose name can be
read; without one, no bus, but for this one case, in which it is the last bus; and
the leftover only when there is no bus at all. No document says what should happen
then. `SuccessExact` is about a program whose transfers reach the amplifier alone
(`solo`).

An index is taken modulo `UnsignedRange`, as by `sscanf("%u")` of glibc (16 in
the run, with indices above it). A file descriptor that stays open because
`I2C_SLAVE` failed ends with the process, and is left out.

Run `clevo`: two programs at a time and up to three in all, because two make
every overlap, and the third finds what they left. All modes, two effects that
differ in all five registers, a value of no effect to begin with, and five
directories: no bus, no adapter, the adapter between two others, and a name
that cannot be opened behind another and before the adapter. `Leftover` is the
number of a bus of one directory and a number of none. The run ends when the programs are
used up, so deadlock is not checked; nothing is assumed of fairness.

## MicrocodeWalk, SpeedControl, FirmwareExtract, TextFilters

The tools that read an input from beginning to end, one loop iteration per
action.

- `MicrocodeWalk` keeps the offset and the number of bytes left, and chooses
  what a header says when it is read. A patch shorter than the header that is
  read from it is undefined behaviour: it goes on, or crashes.
- `FirmwareExtract` knows of a file where the identifier and the whole header
  are, at any byte of it; the buffer and its iterator are in bytes, as in the
  code. `FirstBlobFound`: the first header is taken, with a whole blob behind it,
  and an identifier without its header, or one that is cut off, hides none.
- `SpeedControl` is the guard, the product in `UintMax + 1` values, and the two
  commands.
- `TextFilters` are urlparse and upper_sanitize. What a line means is written
  position by position, without a state: `Says` has which positions of a line are
  characters (`Spoken`) and which (`Meaning`), `CaseMeaning` which capitals stay. In
  particular, a '%' that was decoded is not decoded again.

## DaemonStart, BacklightLookup

What the brightness daemon does before it listens, which `BrightnessDaemon` has
as `StartBacklight` and `StartSocket`. The process is one thread, but each call
may fail, and what a start leaves is what the next one finds.

`DaemonStart` is `main` up to its loop: the configuration, `init` of both
contexts, and `drop_root_privileges` call by call, with the entries of the user
and group databases as they may be: missing, or root. `cred` are the process's
credentials, `socket` the owner of the socket file. A process that throws leaves
the file; the destructor of one that ends may not be allowed to remove it.
`ServesAsUser` says that none of this matters: who listens does so as the
configured user. initgroups' result is ignored, which costs the user groups but
leaves it none of root's. `get_uid_gid` and `drop_root_privileges` would fall
back to the user's own group without a group, but never do so: they are passed
`group.data()`, which is not null when no group is configured, so such a start
ends (`"no group"`).

`BacklightLookup` walks over `/sys/class/backlight` and up the links called
`device`. A node is its chain of devices, each without ids, with the configured
ones, or with others; ids that cannot be read any more end the look at a node
(`vanished`).

## Container

`open` and `close` up to the exit code, in a machine where containers are opened
and closed and devices come and go. libcurl hands over the key in pieces and may
fail after any; cryptsetup (external) reads the pipe to its end and takes what
it got for the key, or ends before that. The write to its pipe then kills the
program, unless SIGPIPE is ignored, which systemd does by default
(`IgnoreSIGPIPE=`): the stream goes bad, nothing looks at it, and the program goes
on to the wait. `ExitMeansMapped` covers both: the cryptsetup that gets a part of
the key is one that has failed.
`close` goes by the name alone. A mapping made by somebody else in between is
left out: systemd runs one of the two at a time.

## LoginSessions

`get_active_user` and `notify_wrapper` ask logind about one session after the
other. A session that has ended answers each question with an error. What the
code makes of each is kept apart (`Gone`): for `sd_session_is_remote` an error is
a yes, for `sd_session_is_active` it is a yes, too, and the next question gets
the error. The result `ret` of `get_active_user` is at first the number of the
sessions, then the answer to the last question for a user or a type, then 1 if the
user is found. `UserAtDisplay` says who is found and what is returned; a list of
sessions that are all passed over gives a positive number for nobody
(`session_skipped`).

## AccessBlocker

The library compares inodes noted when it was loaded. Nodes that are missing
then end the loop, so those behind them are not blocked; a device that comes
back has a node that is not blocked, either. A call whose `fstat` fails is let
through, and one whose real function `dlsym` did not find returns NULL for any file.
`SameNodesBlocked` says that this is all: of the calls for files in `/dev` that have
a function to go to, exactly those for the nodes noted are held up. A file of another
file system may have one of the numbers, because `st_dev` is not compared; the
property is not about these.

## AecramUtil

The conversions to the fields of a request, the two ioctls, and the print. The
driver is what `AecramDriver` shows for one user: the bytes at the offset, or an
error. The run has offsets and lengths inside, at and outside every bound.

## HeldResource

evdev_keepalive and pulse_bs2b acquire something, wait for a signal and let go.
systemd and terminals send signals to all processes of a service or job, so
pactl and sleep get them, too: one during `load-module` ends the program with
the module loaded or not. One between the handlers and the wait is lost, and
the wait goes on (`ToolsEnd` has the later one that ends it). No document says
that one signal is enough.

## KdumpTransfer

The part of `linuxrc` that is not genkernel's: the wait for answers in a row, one
pipe of `makedumpfile` and `nc`, and the reboot; and the receiver's script, one
process per connection. Links go down at any time; the receiver does not hear of
the end of a connection whose link is down then, and keeps its file open while
the machine crashes again. The clock may be set back. `DumpsKept` is about files
that were the only ones opened in their second; two in one second overwrite each
other, which nothing in the repository denies. A dump cut off by `nc` is closed
like a complete one: the receiver cannot tell.

## PingKeepAlive

net_ps2.sh. The rounds run in a subshell, which has a copy of `alive_loop`; a
signal to it ends it. The `$?` that is tested is not ping's (`ps2_loss`).

## The runs of the small programs

`MCTools` runs one of these programs at a time, on each of its inputs, and the
others wait in an initial state.

- `tools`: files around every size where a check changes its answer, with
  table and patch lengths that fit, do not fit, and are 0; all sets of
  identifiers and headers in files of up to 12 bytes; speeds at the guard and
  between it and the overflow; all lines of up to six and five characters over
  four kinds (an escape has three, so two meet); directories of up to three
  nodes with chains of up to two devices; all pairs of sessions; a daemon started
  as root or not, with every entry of the databases missing, root or good; two
  containers, two devices, a key in two pieces; two nodes and four inodes; two
  machines, two connections, two seconds. Two of a kind make every collision
  there is in these programs. The sizes of headers are scaled down. Weak fairness: a
  program that can go on does, and a signal comes in the end; `ToolsEnd` needs
  it. A tool that has ended stops, so deadlock is not checked.
- `ps2_loss` (violated): a round of four pings with fewer than two answers, and no
  signal at its end. Each ping is counted as an answer.
- `session_skipped` (violated, `MCSessions`): lists of up to two sessions, all passed over.

## Proofs

Each proof module states an inductive invariant (`IInv`, or one per program in
the two modules about the small programs), one lemma per group of actions, and derives the theorems by temporal logic. All hold for every value
of the constants that satisfies the assumptions in the model; these are as weak
as the code has them (sizes positive, a request that fits its C type, levels
that fit an int, a threshold the argument check lets pass).

- `AecramDriver_proofs`: `TypeOK`, `TransferInBounds`, `SessionAlive`,
  `AccessHitsTarget`, `RamChangesOnlyAtTarget`, `SoloTransferExact`. None is
  inductive. `MutexInv` says that the holder is the one thread at the ports,
  `EcInv` what the accesses so far have left in the EC's registers (so the next
  one need not look back), `CallsInv` what each local is worth at each point.
  `HighByte` and `LowByte` are shown to split an address without loss for any
  two sizes; that is where the arithmetic is. `SoloInv` counts the bytes a
  transfer alone has moved so far, in user memory, buffer and RAM; that two
  addresses have two cells (`CellsDiffer`) keeps the earlier ones in place.
  Two theorems are what remains of `TransferReturns` without fairness. `StepsRunOut`:
  a call that has begun has `Work` left, at most 18 steps for each of its bytes and
  one, and every step the driver takes on it leaves less, so no loop is endless.
  `NoCircularWait`: who waits for the mutex waits for one thread, and that one is at
  the ports or about to unlock, where it waits for nobody.
- `AecramRefinement_proofs`: `Refinement`, from `IInv`: each action of the driver
  is an action of `AecramBytes` or stutters. The heart is that under `EcInv` the
  one cell written or read is the one at `off + i`. `BytesPromise` is the other half,
  from `AecramBytes` alone: a byte of the RAM changes only inside the range some write
  transfer in progress was granted, and to the byte it has loaded. `AbsInv` keeps each
  abstract transfer inside its range.
- `BrightnessDaemon_proofs`: `TypeOK`, `CacheMatchesBacklight`,
  `RestoredAtMostOnce`, `StopKeepsLevel`. `KeptInv` follows the kept level from
  the signal to the file, through failing starts, to the local `tmp`;
  `RestoreInv` says that a value in `tmp` is no longer in the file. The two
  action properties rest on `TakesHandles`, that only a handler takes a datagram
  off the queue: `OnlyCommandsAct`, and `ModifyClamps` from the hypothesis
  `NoOverflow`, that no modify frame takes the sum out of an int, without which
  it is false. `NeverDeaf` and `InOrder` are what remains of `QueueDrains` without
  fairness: a running daemon whose receive has not failed has armed the next one and
  has a handler for the datagram that waits first, whatever that is (`ReceiveInv`,
  `EveryFrameHandled`), and datagrams leave the queue one by one from its front.
- `CpuPowerlimit_proofs`: `TypeOK`, `OneAdjuster`, `ProfileInForce`, `LimitsRestored`, for
  any number of processes. `LockInv` ties the lock to the program counters,
  `ChildInv` which limits each ryzenadj sets; `LeaveInv` carries the default
  limits from the restore to the unlock. `Refinement` is `ImplementsLease`: each
  action is one of `LimitLease` or stutters. It needs `OrphanInv`, that orphans set what
  some process asked for, because it is `Target` that bounds what a failure may leave.
  `LeasePromise` is the other half: every implementation of `LimitLease` has
  `LimitsRestored`, by an invariant of the lease alone.
- `BatteryWatch_proofs`: `TypeOK`, `RespondsInTime`, `SuspendJustified`,
  `AwakeBetweenSuspends`, for every threshold, interval and cooldown. `CritInv`
  adds up the time the battery has been critical and the rest of the sleep;
  `PollInv` says that a battery critical since before the poll is found critical
  by it, whenever its charger came or went.
- `ClevoAmp_proofs`: `TypeOK`, `LookupExact`, `NoMadeUpValue`, `SuccessExact`,
  `OnlyWholeEffectsHeard`, for any number of programs, any directory and any
  registers to begin with. `LookInv` says what `i2c_idx` is after the first n entries
  (`IndexAfter`): no readable adapter among them, and the index is what the last bus
  among them made of it, or the leftover without one. The lemmas before the invariant take the list of transfers apart
  (`StepsSplit`, `ModeSteps`) and say what the first k of them make of the
  registers (`Reached`). `ReadGiven` is about the value `prolog_write` holds
  between reading and writing back; `SoloInv` says that a program alone at the
  amplifier has reached what its transfers so far make of what it found, and
  that any other program that starts is noted.
- `Tools_proofs`: `WalkInBounds`, for all sizes of headers and files (`WalkInv`
  counts a header that has been passed while its patch has not, `Passed`);
  `SpeedNotWrapped`, for every width of the field, from the lemma that the guard
  suffices; `FirstBlobFound`, from `NonePassed`: no header is
  behind the iterator; `UrlDecoded` and `CaseSanitized`, for every line. Both filters
  are loops with a state per position, so their invariants speak of the prefix read so
  far, and no induction over lines is needed: `UrlInv` has that the reader is never
  inside an escape and that as many characters are written as positions are spoken
  before it (`SaidBefore`; `EscapesApart`: no position is in two escapes), `CaseInv` what the two
  flags say of the positions before the reader. `WalkEnds` and `SearchEnds`: each step
  of the walk over a container and of the search for a blob leaves less of a number
  (`WalkWork`, `SearchWork`), so both end on every file, whatever lengths it has.
- `Programs_proofs`: one invariant for each program of "The runs of the small
  programs" that has a safety property. `DumpExact`; `UserAtDisplay` and
  `LookupFindsFirst` (no candidate among the entries already passed; `RetSoFar`: what
  `ret` is after them);
  `ServesAsUser` (what the credentials are after each call of `drop_root`);
  `ExitMeansMapped` (a cryptsetup that is still there has the whole key or none);
  `SameNodesBlocked` (the table has what was seen); `DumpsKept` (what a file holds, from
  the connections that opened it).

`TypeOK` of the driver, of cpu_powerlimit, of clevo_amp_control and of
battery_watch is not an invariant of their runs: the theorem covers every instance.

Every invariant and action property of a run that passes, and both refinements, are
stated by a theorem, `ModifyClamps` under the hypothesis named above.

Only model-checked: everything with "~>" (`TransferReturns`, `StopsOnSignal`,
`QueueDrains`, `SignalledEnds`, and `ToolsEnd`, which is what there is to say of
`HeldResource`), because the prover has no liveness under fairness. Of
`TransferReturns`, `QueueDrains` and the two file tools of `ToolsEnd` the part that is
not about fairness is proved, as said above: steps that run out, no circle of waiting,
always a handler for what waits. That these steps are taken in the end is TLC's.

## Findings

Five runs end in a violation, each of a sentence in the repository, or, for the
last one, of what the code itself means by its result:

1. `aecram_reads`: two reads at a time return each other's bytes.
2. `brightness_overflow`: a large ModifyState is not clamped.
3. `powerlimit_tdp`: `--tdp` sets none of the limits it computes.
4. `ps2_loss`: net_ps2 never restarts the interface, whatever is lost.
5. `session_skipped`: when every session is remote or inactive, `get_active_user`
   returns their number, which may be the 1 of success, and sets no user. Nothing in
   the repository says what the result means, but for the assignments to it.

## Not modelled

The parts of the inventory that are not in bold; `PROJECT.json` gives the reason
for each: most are a few external tools in a row, awinic_detect is one read and
one comparison, and the rest of `linuxrc` is genkernel's. In the modelled parts:
the wording of messages; parsing of arguments and JSON (a bad one ends the
program before it has changed anything); the limit `tctl_temp` of
a profile, which is passed on like the other three, and which no property is about;
the driver's device number and memory
allocation failures other than at open; file modes; the paths of files; a full
disk of the receiver; loss of power.

## Plan

1. The same part of the other properties with "~>": that a program that got its signal
   has a bounded number of steps of its own left (`SignalledEnds` of cpu_powerlimit,
   `StopsOnSignal`), and a measure for the nested loops of the sysfs lookup and of the
   sessions (`BacklightLookup`, `LoginSessions`).
2. From `NeverDeaf` and `InOrder`: that a datagram taken is one that was sent, in the
   order of sending, with a history of what was sent.
