# A TLA+ verification of apcctrl

apcctrl is the daemon that watches a UPS (among others the Brazilian APC
models), tells an `apccontrol` script about power events and shuts the machine
down before the batteries are empty. This directory holds TLA+ models of the
parts of it whose behaviour over time is hard to test, the TLC configurations
that check them on small instances, and theorems about them checked by TLAPS.

Paths below are relative to the root of the repository.

## 1. Inventory of the system

### 1.1 Daemon core: `src/action.c`, `src/device.c`

* **State.** `UPSINFO` (`include/struct.h`): the status word `Status` (bits set
  by the driver, and local bits set by the core), `PrevStatus`, a dozen time
  stamps, `ChangeBattCounter`, `cum_time_on_batt`, `nologin_file`; on disk the
  `powerfail` and `nologin` files.
* **Operations.** `do_device()` opens the UPS and then loops for ever:
  `do_action()`, `fillUPS()`, `do_action()`, reports, sleep in
  `device_check_state()`. `do_action()` compares `Status` with `PrevStatus`,
  finds the state of the UPS (mains, failure just seen, self test, on battery,
  mains back, calibration), issues events, decides on a shutdown.
  `do_shutdown()` leaves the powerfail file, prohibits logins, may have the UPS
  power killed, runs `doshutdown`. `initiate_hibernate()` tells the UPS to cut
  its power, or aborts the daemon when the marker file is missing.
* **Interaction.** Reads of the driver change `Status` between two passes, and
  some driver calls inside a pass; events go to the script; a shutdown removes the
  lock file; `SIGTERM` ends the daemon at any point.
* **Hard.** The events are made from edges of a sampled status word, under a
  dozen delays; the UPS, the disk, the driver and signals are free to do
  anything between two samples.
* **Correct when.** Events are in order and paired; an outage is polled fast
  and ends in a shutdown when a limit says so and within a bounded time; the
  shutdown is ordered once, never withdrawn, and leaves what the halt script
  needs; the UPS power is killed only then; logins come back with the mains.

### 1.2 The event script: `platforms/apccontrol.in`

Receives one word per event. It promises the administrator an order
("powerout, onbattery, offbattery, mainsback events occur in that order") that
only the core can keep.

### 1.3 Process life: `src/apcctrl.c`, `src/lib/apcsignal.c`, `src/lib/newups.c`, `src/lib/apcfile.c`

Start-up (options, configuration, driver, lock file, pid file, threads),
`apcctrl_terminate()` in the signal thread, `apcctrl_error_cleanup()` on a fatal
error, the mutex and the reference count of `UPSINFO`. Hard: termination runs
concurrently with everything else. Correct when a restart finds a consistent
set of files, and the mutex is never taken twice by one thread.

### 1.4 Serial port lock file: `src/lib/apclock.c`

`create_lockfile()`, `delete_lockfile()` and `check_stale_lockfile()`, a sequence
of system calls on a path shared with other programs. Correct when a daemon
that runs has its pid in the file, and two daemons never run on one device.

### 1.5 Drivers: `src/drivers/`

Each implements open, read of static and volatile data, `check_state()` (sleep
until something happens), `kill_power()`, and an entry point for special
commands.

* `brazil`: a receive ring of 25-byte messages from a serial line, a model
  object made from the first good message and forgotten on every reopen, comm
  loss after 5 silent seconds, commands retried up to ten times. Hard: a
  reconnect inside a command, a UPS that stays silent, a full ring.
* `net`: a slave that copies the status of a master's NIS server, keeps its own
  local bits, and shuts down when the master does or is lost on batteries. Hard:
  a report may end anywhere, a closed connection counts as its end, and two
  functions with their own clocks decide on communication lost.
* `pcnet`: UDP reports of a network card, one of which asks for a shutdown;
  waiting for a self test result releases the lock of the core, and closing the
  driver takes it.
* `dumb`: a few modem lines; its read takes the lock of the core.
* `apcsmart`: one character asks, one line answers, alert characters in between,
  which are obeyed wherever they are heard, inside `do_action()` too; when an answer is missing `UPSlinkCheck()` gives the lock of `UPSINFO` up and
  asks until the UPS is heard again, reopening the port. Hard: late answers, a
  line lost at any point, the lock.
* `usb`, `modbus`, `snmp`, `snmplite`, `test`: device protocols that come down to
  the same reports.

### 1.6 NIS server: `src/apcnis.c`, `src/lib/apcstatus.c`

One thread per client; the status report is built in a static buffer under a
static mutex and sent while the mutex is held; `UPSINFO` is reference counted.
Hard: a client that stops reading, termination with clients connected. Correct
when an answer is whole and of one reading of the UPS, or of no more than the
driver lets happen, the core never waits for
a client, and every request is answered while clients read.

### 1.7 Event log: `src/lib/apcevents.c`, `src/lib/apclog.c`

Events are appended to a file that `trim_eventfile()` cuts to 80 % when it is
too long, while other threads append and NIS clients read the last 50. Correct when
the last events survive a trim, no line is there twice, and a client gets the
last lines in order.

### 1.8 The rest

Script execution (`src/lib/apcexec.c`), configuration (`src/lib/apcconfig.c`),
status and statistics (`src/reports.c`), the NIS client library and tools
(`src/apcaccess.c`, `src/apctest.c`, `src/lib/apclibnis.c`), and the user
interfaces (`src/cgi`, `src/gapcmon`, `src/apcagent`, `src/win32`).

`PROJECT.json` lists every component with what is modelled of it, and every
hazard with the line where it bites and the properties that watch it.

## 2. The modules

| module | what it is |
| --- | --- |
| `PowerEvents` | abstract: what apccontrol is promised about an outage |
| `ApcAction` | the daemon core and the life of its process |
| `MCApcAction` | small UPSes and timers for TLC |
| `ApcActionProofs` | types of every operator of the core; type correctness |
| `ApcOutageProofs` | safety theorems of the core |
| `LockFile` | the lock file, system call by system call |
| `MCLockFile` | symmetry of the pids |
| `LockFileProofs` | the safety theorem of the lock file |
| `BrazilDriver` | the Brazilian driver, byte by byte, with its UPS and its line |
| `MCBrazilDriver` | its configurations for TLC |
| `BrazilDriverProofs` | its safety theorems |
| `NetSlave`, `MCNetSlave`, `NetSlaveProofs` | the slave driver under the loop of `do_device()`, with its master and the connection |
| `NisServer`, `MCNisServer`, `NisServerProofs` | the NIS server: device, server, client and signal threads |
| `EventLog`, `MCEventLog`, `EventLogProofs` | the events file: appending, trimming, reading |
| `SmartDriver`, `MCSmartDriver`, `SmartDriverProofs` | the smart driver under the loop of `do_device()`, with its UPS and the line |

### 2.1 `ApcAction`

State and code correspond as follows.

| variable | code |
| --- | --- |
| `pc` | where `do_device()` is: in `open_ups()`, before the first read, in the first or second `do_action()`, before `fillUPS()`, before `device_check_state()`; in `do_shutdown()` before the powerfail file, before `prohibit_logins()`, before `doshutdown` (`make`, `prohibit`, `order`, with the number of the pass); dead, stuck on its own lock |
| `Status`, `PrevStatus` | the status words, as sets of bits |
| `BattChg`, `TimeLeft` | charge and runtime as last read |
| `age[t]` | now minus a time stamp: `start_time`, `last_time_on_line`, `last_time_nologon`, `last_time_annoy`, `last_onbatt_time`, `last_time_changeme`, `SelfTest`, `ShutDown`, `start_shut_lbatt`, `start_shut_load`, `start_shut_ltime`, and the time of COMMFAILURE in `open_ups()` |
| `nologin_file`, `ChangeBattCounter`, `cum_time_on_batt` | fields of the same name |
| `files` | which of `powerfail`, `nologin` and the lock file exist |
| `sigterm` | `sendsig_terminate()` has been called |
| `out`, `notices` | events the last step gave to the script |
| `told` | history: outage events since the last all-clear |

A pass of `do_action()` holds the `UPSINFO` lock from its first to its last
line, so it is one action; there is one disjunct for each way through it, and
each contains the parts every pass goes through (`EndPass`, `Stamp`: the battery
flag, the battery-low timer, the copy of `Status` to `PrevStatus`). Two things are
not hidden by the lock, and are in the model.

* What a driver does in a call of `do_action()`. `During` says what it may write
  into the status at each of the three calls: `CHECK_SELFTEST` (`PowerFailure`),
  `GET_SELFTEST_MSG` (`MainsBack`), `kill_power()` (`KillPower`, `Prohibit`). The smart
  driver obeys the alert characters it meets there (`smart.c:255-304`, 801, 809-841),
  `pcnet` handles reports with the lock given up (`pcnet.c:939-951`); other drivers write
  nothing. (A smart UPS whose link is lost in such a call gives the lock up,
  too, for as long as it takes: `SmartDriver`; the pass of the core waits.)
* The end of the process, which asks for no lock. So a pass that shuts the system
  down is four steps: `Halt` (the event, `set_shutdown()`, the lock file), `MakeFile`,
  `Prohibit` (logins, and with `--kill-on-powerfail` all that `initiate_hibernate()`
  does, the abort included), `Order` (`doshutdown`, the end of the pass). SIGTERM or a
  crash may come between any two.

`Aborted` and `apcctrl_terminate` know that `Close()` of `pcnet` takes the lock. Time
passes in the reads, up to `FillMax`, and in the sleep, up to
`device_wait_time()`; `apcctrl_terminate()`, a crash and a restart may come
between any two steps. The driver is external: a read installs any of `Reports`
or fails.

Time stamps are ages because every use of one in the code is a comparison of
`now - stamp` with a constant. An age is cut at `Horizon[t]`; `HorizonAssumption`
demands that this be no less than anything the code compares it with, so that
the cut changes no comparison. TLC evaluates the assumption on every run.

Two stamps are not set by a fresh process before their first use; the first
`do_action()` sets them to its own `now`, which the model does at the end of
the first read.

### 2.2 `PowerEvents`

The promise to the script for a UPS without self tests, calibrations and
masters: POWEROUT opens an outage, at most one ONBATTERY confirms it, the mains
return with OFFBATTERY exactly when it was confirmed and then MAINSBACK; a
shutdown is announced by its reason and ordered once, only in an outage unless
the master asked for it; between the reason and the order nothing is said but
KILLPOWER, and the daemon may end there. `ApcAction` implements it with `told` as it
is, `begun` mapped to the bit `UPS_shutdown` of `Status`, `ordered` to that of
`PrevStatus`, and `said` to `out` (`OutageProtocol`).

### 2.3 `LockFile`

A process is its pid. `Check` is `open()` and `read()`, `Judge` is `kill(pid, 0)`,
`Unlink` the removal of a stale file, `Create` the `open()` with `O_EXCL`, `Write`
the pid (or a full disk), `Remove` the removal of one's own file. The file is
its maker and whether the pid has been written. `Die` may take a process
anywhere, and `Reuse` gives its pid to another program. `Alone` says whether at
most one process at a time is between `Check` and `Remove`, as when an init
system starts one daemon after the other.

### 2.4 `BrazilDriver`

The device thread calls the driver and nobody else does, so the model has one
thread, `pc`, and an environment that may act between any two of its steps: the
mains change, the UPS falls silent or speaks again, the plug is pulled and put
back, a byte is lost or garbled.

| variable | code |
| --- | --- |
| `pc`, `op`, `tries`, `todo` | where the thread is, on whose behalf `ReadData()` was called, the counter `whait`, the calls its caller still has to make |
| `model` | the object `model`, as the last report given to `setBuffer()`; `Null` for 0 |
| `buffer` | `_buffer`, `_buffst`, `_bufnxt` |
| `age`, `late` | `time() - _received`, and its comparison at the top of `ReadData()` |
| `commlost`, `online` | `UPSINFO` |
| `fd`, `device` | the descriptor (usable, on a device that went away, -1) and the device node |
| `claim` | `programmation()` has answered that the schedule is set |
| `ups`, `wire`, `silent` | the UPS, the rest of the message it is sending |

A message has four bytes instead of 25: the model number, one byte for the whole
report, a pad that may look like a model number (so that the start of a message
is not evident), and the end byte. `ReadByte` adds a byte to the ring and does
what `testBuffer()` says: wait for more, drop the first, or take the message.
`ReadFails` is a dead port; one step stands for the calls of a second, each of
which fails after 10 ms. `Return` goes back to the caller: to `fillUPS()`, to the
loop of `setup()`, or to a command that looks at the model and sends again.
What the UPS makes of a command is `Obey`: it may obey, or the command is lost.

The ring holds at most a message although it has 200 slots: that it never holds
more is part of `TypeOK`, not an assumption (`Append` is unbounded).

To `ApcAction` this driver is what its `Read` assumes, a report or a read that
changes nothing, except for the two ways it may hold up the loop that the runs
below show.

### 2.5 `NetSlave`

One thread; the master changes its mind, and the connection fails, between any
two steps. A report comes in three parts, the values, `STATFLAG`, the rest:
`poll_ups()` receives any number of them before the connection fails, or is
closed, which `net_recv()` reports like the end of the report. The buffer is
fetched again when it is two seconds old, and read by four passes, each of which
finds what it finds.

| variable | code |
| --- | --- |
| `pc`, `caller` | where the thread is, and for whom it fills the buffer (at the start, in `fillUPS()`, in `check_state()`) |
| `statbuf`, `since`, `filled` | `_statbuf`, the time since `_last_fill_time`, the result of the last fill |
| `got_caps`, `got_static_data`, `battlev`, `comm_err`, `comm_loss` | the members of the same names, `UPS_Cap[CI_BATTLEV]` |
| `ups`, `prev`, `heeded` | the bits of `Status` the driver writes, of `PrevStatus`, and that `do_action()` has acted on a shutdown of the master |
| `master`, `link` | what the master says of itself; whether the connection may fail, never does again, or always does |

`missed` and `cut` are histories the properties use. Of the core only
the treatment of `shut_remote` and `fastpoll` is there; the events it makes of
the rest are those of `ApcAction`, to which this driver is one more source of
reports.

### 2.6 `NisServer`

A step is what a thread does between two of its system calls or mutex calls.
The device thread is what a driver's use of the lock comes down to: `prep_device`
fills `UPSINFO` for the first time without the lock, as `read_static_data()` of the
smart driver does; then it writes the fields of a reading one by one under the lock.
`driver` says which driver is configured. `Giving` are those that give the lock up in
the middle of a reading: `apcsmart` when the link is lost (`LinkLost`, `LinkBack`),
`net` between the values and the status word. `Locking` are those whose `Close()`
takes the lock: `device_close` waits for it, and `Error_abort()` under the lock waits
for itself (`Abort`), with which the device thread is `Hung`.

A client thread attaches, takes the static mutex, writes the report line by line
under the mutex of `UPSINFO`, gives that back, and sends line by line under the
static mutex. `cl[c]` is the peer: it reads, has stopped reading, or has left.
The signal thread ends the threads, closes the driver, destroys the mutex and exits,
whatever the others do; `clean_threads()` cancels the server only, since the loop of
`do_device()` is `main()` itself. `pthread_create()` may fail.

Readings carry 1 and 2 by turns, so that a torn report shows. `AnswerIntact` demands
one reading; of two successive ones, the later first, when the driver is one that
gives the lock up; fields not yet read at start-up are blank in any case.

### 2.7 `EventLog`

`log_event()` is two writes through one descriptor opened with `O_APPEND`;
`trim_eventfile()` is `lseek()` and `read()`, `ftruncate()` and `write()` on the
same descriptor, whose position both move; `output_events()` reads through its
own descriptor, character by character as far as lines go, into a ring. A date
and a message have length one, so that a line may be cut in two. `mixed` records
that a write met a line of another thread half written, or a trim, or a failing
disk: `EndKept` promises the end of the log otherwise, and `EventTrim` shows what
happens then.

### 2.8 `SmartDriver`

| variable | code |
| --- | --- |
| `job`, `todo` | what the device thread is at (`setup()`, `get_capabilities()`, `read_static_data()`, the reads and the passes of the loop, `check_state()`), and the commands it still has to send there |
| `pc`, `tries`, `sm`, `turns` | where it is in `smart_poll()` and `UPSlinkCheck()`, the `retry` counters, the time in the waiting loop |
| `cap`, `onbatt`, `selftest`, `commlost`, `announced` | `UPS_Cap`, the bits of `Status`, `lastxfer`, COMMFAILURE without COMMOK |
| `mutex`, `reader` | the lock of `UPSINFO`, and another thread inside it |
| `fd`, `wire`, `asked`, `battery`, `link` | the port and what waits in it, commands the UPS has still to answer, the UPS, the line |
| `astray`, `late` | histories: the lock was given up by a job that did not have it (`SmartStray`); an answer came after its second |

Three commands stand for the forty of the protocol: `Y`, whose answer `SM` the
link is judged by, the status byte, and one for all other values. `UPSlinkCheck()`
is called inside `smart_poll()`; `Checked` is what happens there when it returns.
The line may lose what is written, be cut, or lose its device, at any moment, and
the UPS may be one or two answers behind.

## 3. The runs

Directives and delays are scaled down to a few seconds each, so that every
delay both expires and does not, in every order; the real values differ by a
factor, not in which of two delays can expire first within one run.

| run | question | size |
| --- | --- | --- |
| `ActOutage` | a UPS that knows line, battery (worn out, absent), charge and runtime, all five shutdown limits, `--kill-on-powerfail`, a disk that may fail: `TypeOK`, `FastWhileOnBattery`, `TimeoutBounded`, `LoginsAllowedOnMains`, `PowerfailFileLeft`, and the refinement `OutageProtocol` | 3 740 000 states |
| `ActSmart` | self tests, calibrations, battery low with the line good, a master that goes down, alerts in the middle of a pass, a disk that may fail, `--term-on-powerfail`: `RemoteHeeded`, `OffbatteryPaired`, `ShutdownIsFinal`, `KillPowerGuarded`, and under fairness `LowBatteryHalts`, `OnBatteryAnnounced` | 400 000 |
| `LockAlone` | three pids, one at a time inside the lock code: `LockHeld` | 35 000 |
| `BrazilTalk` | one model number, the pad byte equal to it, one byte garbled or dropped, one unplugging, silence, `open()` failures: `TypeOK`, `DereferenceSafe`, `SetMeansSet`, and under fairness `StatusCatchesUp`, `LoopGoesOn` | 1 900 000 |
| `NetSlave` | four masters (on mains, without its UPS, on batteries, shutting down), every request may fail or be cut short: `TypeOK`, `CapsComplete`, `RemoteJustified`, and under fairness `MasterFollowed` | 570 000 |
| `NisServer` | two clients that stall and leave, two fields, a driver that gives `UPSINFO` up in mid-reading and one whose `Close()` takes it, a signal at any time: `TypeOK`, `AnswerIntact`, `RefcntExact`, and under fairness `CoreNotHeldUp`, `ClientsServed`, `Terminates` | 174 000 |
| `EventLog` | five events of two threads, a limit of five chunks cut to four, a ring of two lines, a disk that may refuse: `TypeOK`, `EndKept`, `NothingTwice`, `LastLines` | 6 900 000 |
| `SmartDriver` | a UPS up to two answers behind, every state of the line, another thread that takes the lock: `TypeOK`, `AnswersMatch`, and under fairness `Served`, `LineFollowed` | 1 060 000 |

Bounds. `Reports` are chosen so that each combination of bits and readings that
a state or a limit of `do_action()` distinguishes occurs; a charge or runtime
is at or above its limit, or below. Nothing else is bounded: outages, restarts
and shutdown attempts may be of any number and length, because ages saturate
and the battery counter is reset by the code. Three pids are the least with
which a stale file can be removed while two others look at it.

In `BrazilTalk`, five seconds without a message are one, 60 tries of `setup()`
and ten of a command are two: the first and the last try, one of them too few.
One lost byte leaves the ring at every place of a message, and the pad byte
makes the wrong start plausible; more noise only comes before the properties
begin to bind, since they ask for what holds in the end. One unplugging is
enough to lose the model inside each of the calls, because it may happen in any
state; the reopened port then stays up.

`PlainReports` includes a worn-out battery and one that is away, which CHANGEME and
BATTDETACH are about; `SmartAlerts` is one report for each call, of the line as the pass
has not found it.

In `NetSlave` the four lost passes the driver puts up with are two: one pass below
the limit, one at it, and the one after. A fill time of two seconds lets a pass
find the buffer young and old. Connections and masters change without bound.

Two clients are the least that can hold each other up, and two fields with room
for two lines make a report that does not fit. Each client connects any number of
times. With one field in hand and one to come the lock can be given up between two;
the two drivers of the run are one that does so and one whose `Close()` takes the lock. Five events reach the limit of the file twice, which is once more than a
wrong position needs to do harm, and two slots make the ring of lines wrap.

In `SmartDriver` five tries of `setup()`, three of a command and five of the
status byte are two each: the first and the last. Two answers behind is what a
command needs to be answered by the answer to the last but one; with three the
status byte is taken from such an answer, too. One alert character waits in the
port at a time. A turn of the waiting loop stands for the 20 seconds after which
communication counts as lost.

Each property is backed by a deliberate fault: operators named `Fault...` are
the definition that follows them with one plausible bug, and with it in place
the run finds the property violated.

### Runs that show a disagreement

| run | what it shows |
| --- | --- |
| `ActPcnet` | `RemoteHeeded` fails: the shutdown order of the card, arriving while a self test result is awaited with the lock released, is copied to `PrevStatus` unseen and never acted on |
| `LockRace` | `Exclusive` fails: two daemons that start together after a crash both remove the stale file, one of them the other's new one |
| `EventTrim` | `LastKept` fails: another thread logs between the `lseek()` and the `read()` of `trim_eventfile()`, nothing is read, and all of the log is truncated away, the last event included |
| `SmartStray` | `LockSound` fails: `UPSlinkCheck()` "MUST be called with the UPS write lock held" (`smart.c:338`), but `read_static_data()` and `prep_device()` (`device.c:151-162`) do not hold it. When the link is lost there, the lock is given up under the client thread that holds it. When the link is back the lock is taken and given back by nobody: the device thread then waits for itself, and with it every client (`Stuck`, which `Served` excepts) |

Noted while modelling, without a run:

* `initiate_hibernate()` reads a simple signaling UPS under the lock the read
  takes (`dumboper.c:116`): the daemon hangs before it kills the power
  (`KillPowerFails`, `pc = "stuck"`); no run has such a UPS.
* `Close()` of `pcnet` takes the lock of `UPSINFO` (`pcnet.c:690`), and so do those of
  `snmplite` and `test`. An `Error_abort()` inside `do_action()`, as that of
  `kill_power()` without user and password (`pcnet.c:798`) or of a missing powerfail file,
  therefore hangs with the lock, and a SIGTERM later waits for ever: `Hung`, which
  `Terminates` and `ClientsServed` except.
* An alert that says what the pass did not find is copied to `PrevStatus` and never
  acted upon: after a `$` in `CHECK_SELFTEST` (`action.c:446`) no MAINSBACK follows the
  POWEROUT, and after a `!` in `GET_SELFTEST_MSG` no POWEROUT begins the outage, which
  ONBATTERY then announces all the same (`OnBatteryAnnounced`). A `$` while the UPS is
  told to cut its power leaves logins prohibited. These are what the assumptions
  `SteadyLine`, `NoOutageHeard` and `NoMainsInKill` of the theorems keep out.
* With `--kill-on-powerfail` a powerfail file that cannot be made ends the daemon before
  `doshutdown` is run (`device.c:96`): the machine is not shut down. `PowerEvents` lets the
  daemon end between the reason and the order.
* An answer to a NIS client may hold values of two readings with a driver that gives
  `UPSINFO` up in the middle of one, and values that were read before others while the UPS
  is being set up, without the lock: `OfOneReading` says which.
* A calibration that follows an outage is counted as time on batteries from the
  beginning of that outage on: `st_Calibration` stamps nothing, and the mains that
  come back after it add `now - last_onbatt_time` (`action.c:633-638`, whose comment
  and test only have the stamp that was never set in mind). CUMONBATT may then
  exceed the time since the start, although it is the "Total (cumulative) time on
  batteries in seconds since apcctrl startup" (`manual.rst:5552`). TLC finds it with
  the constants of `ActSmart` and horizons of 5 for `start` and 3 for `onbatt`, which
  the runs cut shorter. `CumulativeTimeSane` is therefore a property of no run;
  `TimeOnBatteries` proves it of a UPS without calibrations.
* The bits `shut_load` and `shut_ltime` outlive the outage that set them: only a pass
  on batteries clears them (`action.c:518`, `action.c:530`), the mains do not. In an
  outage soon after, with the charge still below BATTERYLEVEL, LOADLIMIT follows at
  once, without the debounce of five seconds (`action.c:540-547`).
* CHANGEME is announced six times, the comment says five (`action.c:380`), since
  the counter is compared after it was incremented in the pass before.
* An outage first taken for a self test has ONBATTERY without POWEROUT
  (`action.c:467`), which `apccontrol.in:77` describes as always in that order.
* A Brazilian UPS that goes silent on an open port keeps the loop inside `ReadData()` for
  ever, where it acts on no outage: `SilenceHoldsUp` says so, and `ReadReturns` that
  nothing else does. A schedule left from before confirms a new shutdown command
  (`brazildriver.c:303`); `SetMeansSet` only says that there is one.
* `net.c:358` says that the fourth lost pass in a row orders the shutdown; `_comm_loss++
  == 4` (`net.c:365`) holds on the fifth (`GivesUp`).
* `net_recv()` says -1 on a hard EOF and returns 0
  (`apclibnis.c:127`). `net_open()` returns `-errno` where its callers test for -1.
* The comment at `apcstatus.c:41-49`, that a client may hold up the driver, is no
  longer true: `CoreNotHeldUp`. A connection is leaked when `pthread_create()`
  fails (`apcnis.c:213`).
* A late `SM` is read as the reason of the last transfer, whose first letter says
  self test (`smart.c:116`): a real outage is taken for a self test until the
  reason is read again. `AnswersMatch` says that this takes a late answer.
* An answer to the status byte that is missing or no number counts as zero, which
  is neither on line nor on batteries, that is as mains.
* Three lost answers while the capabilities are read cost the driver the status
  byte for its life (`smartsetup2.c:133`, `Deaf`); a UPS that is silent during
  `setup()` ends the daemon (`smartsetup.c:150`).

`OutageProtocol` is checked for a UPS that makes no self test and whose driver hears
nothing inside a pass: with them an outage may have ONBATTERY without POWEROUT.
`RemoteHeeded` is checked in `ActSmart` with the alerts of the smart driver inside a
pass, none of which is an order of a master; with `pcnet`, where one is, it fails.
`StatusCatchesUp` asks for a UPS
that does not stay silent and a descriptor that is not -1: after a failed
`open()` inside `ReadData()` the loop polls descriptor -1 for ever
(`brazildriver.c:555`). `StatusCatchesUp` and two parts of `LoopGoesOn` allow `crashed`, the
null model of `DereferenceSafe`: a command whose own read reopens a dead port.

### Fairness

In `NetSlave` the device thread is weakly fair; nothing is assumed of the master or
the connection. In `NisServer` the threads are weakly fair in what they can do on
their own and strongly fair in taking a mutex, as a lock that others use by turns
requires; nothing is assumed of clients. The device thread ends a reading it has begun
once the UPS is set up, which the driver's own module is about (a Brazilian UPS that
goes silent keeps `ReadData()` from it); that a link comes back is not assumed, since
the lock is free while it is away. `EventLog` states no liveness. In
`SmartDriver` the device thread is strongly fair: alert characters do not come so
fast that `getline()` never has its second of silence, nor do other threads take
the lock each time it is free; such a thread gives it back, and gets it in the
end; a UPS that has heard a command answers. Nothing is assumed of the line.

In `BrazilDriver` the device thread is weakly fair: it takes a step whenever it can,
and a wait is a step. Nothing is assumed of the UPS, the line or the plug.

`FairSpec` assumes weak fairness of `do_device` (the loop is a thread; whatever
it can do next it does) and strong fairness of a sleep that lasts at least a
second: `device_check_state()` may return early when the UPS reports, but not
every time at once, or no time would pass. Nothing is assumed of the UPS, of
the length of an outage, of signals, crashes or restarts; the liveness
properties are about an outage that does not end (`<>[]Enduring`), in a process
that lives.

## 4. The proofs

All theorems hold for every value of the constants that satisfies the four
named assumptions of `ApcAction`, or the assumption of their own module
(`LockAssumption`, `BrazilAssumption`, `MasterAssumption` and `LimitAssumption`,
`NisAssumption`, `EventAssumption`, `SmartAssumption`). The assumptions say that
delays are numbers, that `--kill-on-powerfail` is dropped for simple signaling
(`apcctrl.c`), that reports have the form of reports, that horizons cut no
comparison, and of the Brazilian driver that a single byte is not a report. What a
theorem assumes besides is about what the UPS reports (`PlainUps`: no calibration
and no shutdown of a master) and about what its driver hears in the middle of a pass
(`NoOrderInPass`: no order of a master; `NoMainsInKill`: no return of the mains while the
UPS is told to cut its power; `NoOutageHeard`: no outage while the result of a self test
is fetched; `SteadyLine`: nothing of the line that the pass has not found; `LineOnly`:
`PlainUps`, `SteadyLine`, no self test), and is named in the table. Drivers that write
nothing inside a pass (all but `apcsmart` and `pcnet`) meet the latter always; a smart
UPS meets `NoOrderInPass`, and the others as long as the line does not change during the
call.

| theorem | property |
| --- | --- |
| `TypeCorrect` | `TypeOK` |
| `ShutdownOnce` | `ShutdownIsFinal` |
| `PowerfailStays` | `PowerfailFileLeft` |
| `KillPowerSafe` | `KillPowerGuarded` |
| `OffbatteryPairs` | `OffbatteryPaired` |
| `FastPolling` | `FastWhileOnBattery`, assuming `PlainUps` |
| `LoginsComeBack` | `LoginsAllowedOnMains`, assuming `PlainUps` and `NoMainsInKill` |
| `MasterHeeded` | `RemoteHeeded`, assuming `NoOrderInPass` |
| `TimeOnBatteries` | `CumulativeTimeSane`, assuming `PlainUps` and `NoOutageHeard` |
| `OutageAnnounced` | `AnnouncedInTime`, assuming `PlainUps` and `SteadyLine` |
| `TimeoutInTime` | `TimeoutBounded`, assuming the same |
| `LimitsInTime` | `BatteryLimitsInTime`, assuming the same |
| `NeverTooSoon` | `NotTooSoon`, assuming the same and that the age of an outage is counted at least as far as that of `last_time_on_line` |
| `ImplementsPowerEvents` | `OutageProtocol`, the refinement of `PowerEvents`, assuming `LineOnly` |
| `RunnerHoldsLock` | `LockHeld`, assuming `Alone` |
| `BrazilTypeCorrect` | `TypeOK` of the driver |
| `CrashOnlyAfterReopen` | `DereferenceSafe` |
| `ScheduleIsSet` | `SetMeansSet` |
| `TypeCorrect` (slave) | `TypeOK` |
| `CapabilitiesComplete` | `CapsComplete` |
| `RemoteJust` | `RemoteJustified` |
| `NisTypeCorrect` | `TypeOK` |
| `AnswersIntact` | `AnswerIntact` |
| `ReferencesCounted` | `RefcntExact` |
| `HeldBriefly` | `HeldForAReading`, and of every step `ReadingGoesOn` |
| `EventTypeCorrect` | `TypeOK` |
| `StoredOnce` | `NothingTwice` |
| `EndOfLogKept` | `EndKept` |
| `LastEventKept` | `LastKept` while no write was mixed with another or with a trim, assuming `Keep >= 3`; `EventTrim` is what happens otherwise |
| `ClientGetsLast` | `LastLines` |
| `SmartTypeCorrect` | `TypeOK` |
| `AnswersInTime` | `AnswersMatch` |

* **Types.** `TypeOK` is inductive. `ApcActionProofs` first shows what each
  operator returns (`StampAges`, `ElapsedAges`, `PassTypes`, `HaltTypes`...), then
  goes through the actions; the delicate part is that every age stays within
  its horizon and `ChangeBattCounter` at six.
* **`ShutdownOnce`, `PowerfailStays`, `KillPowerSafe`.** Action properties, from what each
  way through a pass does to the local bits (`HaltsHow`, `EndPassBits`, `InstallBits`) and
  who may give the order (`WhoOrders`). `Phase` ties the place to the bits: inside
  `do_shutdown()` the bit is set and not yet in `PrevStatus`, elsewhere in the loop both
  say the same; `ShutdownKept` is that no step of a living process clears it. `Marked`
  goes through the steps of a shutdown: what `MakeFile` left, `Prohibit` finds, and it goes
  on to `Order` with `--kill-on-powerfail` only with the file in place. Nothing is
  assumed of where the process ends in between. `Justified` is what the kill needs: up to
  there an outage, or the master, brings the system down.
* **`OffbatteryPairs`.** The property speaks of the history `told`, the code of
  the bit `UPS_onbatt_msg`. The invariant connects the two: when the bit is set,
  ONBATTERY is in `told`.
* **`FastPolling`, `LoginsComeBack`.** Neither is inductive: that a pass which
  sees no outage ends it, and one that sees it has set the fast poll, needs
  that no pass is a calibration or a shutdown order of a master. `Plain` says
  that of the state, `PlainUps` of the reports, and `PlainStays` keeps it. The
  restriction is needed: during a calibration the code polls slowly, and after
  a shutdown order of the master it looks at nothing else. For the logins, `Excused`
  also says that a shutdown which has begun is one of an outage that still lasts, which
  is what `NoMainsInKill` keeps while the UPS is told to cut its power.
* **`MasterHeeded`.** `RemoteHeeded` says at the end of a pass what `Heeded` says
  everywhere: the order is in `PrevStatus` only with the shutdown under way.
  `NoOrderInPass` (nothing that a driver hears in the middle of a pass is the order)
  is needed: `ActPcnet` is what happens without it.
* **`TimeOnBatteries`.** `Spent`: what is counted, and during an outage also its age,
  is no more than the age of the process, unless that age is saturated. A UPS
  that calibrates is left out because it breaks the property (see "Noted" above),
  and so is an outage that is first heard of while the result of a self test is fetched
  (`NoOutageHeard`): it is copied to `PrevStatus` there, and no pass stamps its beginning.
* **`OutageAnnounced`, `TimeoutInTime`, `LimitsInTime`.** What the code promises for
  some time (`OnBatteryAnnounced`, `LowBatteryHalts`), and TIMEOUT, with the time.
  The properties speak of the age of the outage; the code compares that of
  `last_time_on_line`, which the first pass of an outage sets, and that of the self
  test it takes the outage for. `Timed` relates the three (`OutageTimed`): before
  ONBATTERY the outage is at most as old as the confirmation delay or the longest
  self test allows, and no older than the stamp while the delay runs
  (`Unconfirmed`); during what is taken for a self test it is no older than that
  (`Testing`); after ONBATTERY it is at most two polls and the delay older than the
  time counted for TIMEOUT (`Confirmed`). That these polls are fast ones needs
  `FastPolling`, which the proof cites; that the stamps are of the outage, `SteadyLine`.
  `Lag` and `ConfirmedBy` are the bounds, for
  every setting of the delays. For the battery limits it remains that the only pass
  that leaves a confirmed outage with the system up is `KeepWaiting`
  (`PassLeavesUp`), and that it found each limit unreached or reached for less than
  `Debounce` (`WaitingIsSafe`). The status is that of the end of the pass; the next
  read may already show more. TLC agreed on all three with self tests on and off
  before they were proved; the first and the last are no property of a run.
* **`NeverTooSoon`.** The other direction: no ONBATTERY before ONBATTERYDELAY, no
  TIMEOUT before TIMEOUT. The code compares `last_time_on_line` with both, the
  property the outage itself; `Since` says that during an outage the former is never
  the older of the two, and `WhoSays` which passes say the two words. The ages are
  cut off at their horizons, so the outage must be counted at least as far. TLC
  agreed on it with the constants of `ActOutage`; it is no property of a run.
* **`ImplementsPowerEvents`.** `Told` says that the bits `UPS_onbatt` of `PrevStatus`
  and `UPS_onbatt_msg` say what the script was told. Each kind of step
  of `do_action()` (`PassKinds`: resting, beginning, confirming, waiting, deciding on a
  shutdown, obeying it, ending, giving up) maps to the action of `PowerEvents` of that kind
  or to a stutter, each of the steps outside `do_action()` to a stutter or `Restart`. `LineOnly` is what
  `PowerEvents` is about: an outage first taken for a self test has ONBATTERY
  without POWEROUT.
* **`RunnerHoldsLock`.** `LockHeld` says nothing of what a process on its way through the
  lock code may do to the file of another; `Progress` says, step by step, what that
  process has read and may rely on, and with `Alone` there is one such process, so that
  nothing comes between. What is proved is that crashes, full disks and reused pids do no
  harm in sequence. That daemons which start at the same time exclude each other is not
  claimed: it is false (`LockRace`).

* **`BrazilTypeCorrect`.** Inductive as it stands. The part that is not typing is
  the ring: `testBuffer()` decides about every buffer as long as a message, so
  that one shorter than a message stays shorter.
* **`CrashOnlyAfterReopen`.** That a step does not follow a null model needs that
  there is one where commands are given: `ModelKnown` says that with a command
  to give, to send or to read back there is a model, and it is kept because
  only a reopened port takes the model away, and the read it happens in
  returns to a caller that looks.
* **`ScheduleIsSet`.** A command may be judged by a report older than itself, so that
  the model may be wrong about the schedule. `Scheduled` says how far. `InFlight`:
  a report in the ring is true of the schedule, and one on the wire is, or it is
  the rest of a message that begins nowhere and will be dropped byte by byte; a
  command leaves with nothing in the ring, or on a port that does not work.
  `Judging`: the driver clears the schedule only when the model shows none and is
  right, and programs one only with a model that is right if it shows one; with
  the mains on no model shows a schedule that is gone. `Pressing`: a command
  that was decided upon by the model is the next one given. The proof uses that
  the other bytes of a message are not reports, which `BrazilAssumption` says.

* **Slave.** `RemoteJust` and the others need what each place of the loop knows: `Places`
  (what has been read there), `Known` (nothing is said of the line before the first
  report), `Orders` (an order to shut down is in `ups` or was heeded), `Counts` (the
  driver has counted no more lost passes than there were).
* **NIS server.** `NisInv` is, besides types, who owns which mutex at which place
  (`Owners`), the references as the sum of their holders (`Refs`), that the
  reading in progress is written up to `changed` (`Reading`), and what an answer
  that is being sent is made of (`Answers`). `Refs` needs facts about the
  cardinality of the set of attached threads when one comes or goes. `HeldBriefly`
  is the safety `CoreNotHeldUp` rests on: the holder of UPSINFO waits for nobody, and
  each of its steps brings it nearer to the end of one reading.
* **Event log.** `NothingTwice` needs that what a trim has in its buffer is in the
  file or was truncated from it, and no event not yet written is in either
  (`Pending`, `Trimming`). `EndKept` needs `Orderly`: until a write is mixed with
  another or with a trim, one thread at a time is inside a line, of the last
  event, and none during a trim (`Alone`), and the file, or what is being read
  or was read from it, is an end of the log that begins with a whole line and
  is as long as what is kept (`Kept`); it rests on where in the log a chunk of
  the file stands (`Piece`, `Stretch`). `LastLines` needs what each slot of the ring holds,
  before it wraps and after (`Ring`). `LastEventKept` follows from `EndKept`: with room
  for three chunks the whole lines that are kept are at least one.
* **Smart driver.** `InTime` says that without a late answer there is at most one line
  in the port or one command at the UPS, never both, only at a place that waits
  for it, and of the command waited for there. Alert characters may be anywhere
  between, so that it speaks of every index of the port (`OneLine`, `NoLine`). Of the
  lock nothing is proved: `LockSound` is false.

Every safety property of the passing runs is proved. Only model-checked is every
liveness property (`LowBatteryHalts`, `OnBatteryAnnounced`,
`StatusCatchesUp`, `LoopGoesOn`, `MasterFollowed`, `CoreNotHeldUp`,
`ClientsServed`, `Terminates`, `Served`, `LineFollowed`), since fairness and
ENABLED are beyond the prover; of two of them the core's theorems state the bound
in time, and of `CoreNotHeldUp` the safety it rests on.

## 5. What is not modelled

* ShareUPS masters and slaves in `initiate_hibernate()`, and the one-shot modes
  `--killpower` and `--power-off`.
* DATATIME and STATTIME, which can only shorten the sleep.
* The log: wording, and repetitions every ten minutes.
* The time a driver call inside a pass takes, and a link lost in one: `UPSlinkCheck()` may
  hold up `do_action()` there as it does a read (`SmartDriver`), with the lock given up.
* A wall clock that steps. Every delay in the code is a difference of `time()`.
* Status bits no branch of the core looks at (boost, trim, overload, plugged,
  slavedown), and `UPS_fastpoll` set on a slave by its master, which only polls
  faster.
* `powerfail(3)` in `do_shutdown()`: unreachable, since its only caller passes
  CMDDOSHUTDOWN.
* In `LockFile`: network UPSes, which have no lock; the pid of the parent taken
  for one's own; errors of `open()` other than a missing file; the signal thread
  deleting the file while the main thread does.
* In `BrazilDriver`: event logs of the UPS (`getEventsStr()`, called by `apctest`
  only), the one-shot `shutdown()`, ports without `select()`, what the model
  classes compute from a report other than the mains, the output and the
  schedule. The checksum is taken to be perfect. The kernel holds at most the
  rest of a message and part of the next.
* In `NetSlave`: the self test calls of `entry_point()`, the message that repeats
  COMMFAILURE every ten minutes, the limits of `do_action()`.
* In `NisServer`: tcpwrappers, the retries of `socket()` and `bind()`, the build
  without threads, the wording of the report, and status bits that some drivers change one
  at a time between two readings.
* In `EventLog`: lines longer than MAXSTRING, writes of `log_event()` that fail, an
  `ftruncate()` that fails (its result is ignored, `apcevents.c:89`), syslog.
* In `SmartDriver`: lines broken off in the middle, the EEPROM, `kill_power()` and
  `shutdown()`, answers "NA" (this UPS supports every command),
  slaves. The UPS makes no self test, so that every one the driver sees is wrong.
* Components listed as not modelled in `PROJECT.json`: the clients of the NIS
  server and the user interfaces keep no state of the UPS; the tables of the
  SNMP driver are generated; `apctest` is an interactive program. They are most
  of the lines of the repository. The USB, Modbus and SNMP drivers have state
  worth a model, of which there is none yet.

## 6. Plan

Done: the core, the lock file, the Brazilian driver, the slave, the NIS server, the
event log, the smart driver. Left, in this order:

1. `kill_power()` of the smart driver, which speaks to the UPS without retries,
   composed with the shutdown of `ApcAction`.
2. The Modbus driver: requests, answers, timeouts and resynchronisation over a
   serial line, and the packets of the `pcnet` driver.
3. The `usb` driver: unplugging and reattaching while reports arrive.
4. Proofs: an abstract promise of the lock file (one holder) that `LockFile`
   implements under `Alone`; the bounds in time with calibrations, during which the
   code counts nothing.
5. An abstract driver (a report or a failure, in bounded time), which is what
   `ApcAction` assumes, implemented by `BrazilDriver` where the port does not stay
   silent. Its status then replaces the free `Reports` of the core in one
   composed module.
