# A TLA+ model of MacroMicroAPI_lib

This directory is kept beside the library: TLA+ modules that model its stateful parts, TLC
configurations that check them on small instances, and TLAPS proofs of the properties that matter
most, for every value of the constants. `PROJECT.json` ties each definition to the lines it models
and lists the runs, the hazards of the code and the findings.

The library runs on megaAVR-0 and newer AVR chips with one CPU. Its difficulty is not size: it is
that the program shares registers and buffers with interrupts, with counters that run by themselves,
with a host at the other end of a wire, with a clock chip that goes on ticking, mostly without locks;
and that a memory or a bus transfer may stop half way. That is what the models are about.

## 1. Inventory

Paths are relative to `src/src/`.

| Part | State | Operations | Who else touches it | Hard behaviour | Correct means |
|---|---|---|---|---|---|
| **TimeoutTimer** (`TimeoutTimer.h`, `cpp/TimeoutTimer.cpp`) | the RTC registers; `__worker` (high word, active `jmp_buf`); a `__before` in the frame of each open block | `begin`, `end`, `ticks_left`, `delay_ticks`, `sleep_cpu_ticks`, `TIMEOUT_BLOCK` (`__setup`, `__cleanup`), `abort` | the counter, which moves inside atomic sections too; `RTC_CNT_vect`, which may leave by `longjmp` | overflow between two reads; compare passed unseen; nesting; a flag of an earlier compare; leaving an interrupt without RETI | a block ends, in time and not early, one level at a time; the clock loses and repeats nothing; a delay is not short |
| **TaskChanger** (`TaskChanger.h`, `cpp/TaskChanger.cpp`) | `__worker.stack[4]`, `current`; a saved frame on each stack | `yield`, `attach_task`, `detach_task`, the stub a task function returns into | the PIT interrupt, which may call `yield`; TimeoutTimer, whose compare interrupt forbids a switch and whose cleanup executes RETI | preemption inside the switch code; dead entries; interrupt level | tasks run in turn and go on where they stopped, unless the interrupt revives an ended one |
| **ReadUART** (`ReadUART.h`, `cpp/ReadUART.cpp`) | ring buffer, `_top`, `_end`; USART registers | `begin`/`initiate`, `end`, `read`, `peek`, `available`, `readBytes`, `find`, `write`, `flush` | the receive interrupt, between any two loads of the program | unlocked two-byte index; overrun in the middle of a read; polling with interrupts off | bytes are read in order, each once; none waits for ever |
| **USB::CDC byte streams** (`USB/CDC/cpp/interface.cpp`) | two 64-byte buffers, `SENDCNT`, `RECVCNT`, endpoint table, SOF countdown | `write_byte`, `write_flush`, `write_available`, `read_byte`, `read_available`, `read_clear`, `peek_byte`, `read_bytes`, `find_byte` | the USB controller and the host; the SOF interrupt; bus reset and SetConfiguration | a buffer changes hands in the middle of a call; a reset between two steps; the tail of a message | bytes arrive in order, each once; nothing stays in the buffer |
| **USB::CDC control** (`USB/CDC/cpp/control.cpp`, `endpoint.cpp`, `callback.cpp`) | `USBSTATE`, endpoint 0, address, line state, break count | `handling_bus_events`, `handling_transaction_events`, standard and class requests, `start`, `stop` | host | handlers that wait for the host; requests out of order; flags cleared by read-modify-write; buffers that share memory | every request is answered or stalled; the device comes up again after whatever happened on the bus |
| **USB descriptors** (`descripter.cpp`, `define.h`) | none | table look-up | control | lengths and counts inside packed structures | the host reads a configuration it can use |
| **FlashNVM**, **UrowNVM** | flash, boot row, user row; page buffer; NVM controller | erase, update, save, load, verify, for three kinds of controller | reset in the middle | updates across pages, partial pages, unerased bytes, a torn record | what is outside the range stays, what is inside is the data; a torn record is known for one |
| **bcddatetime** | none | conversions between packed BCD, MJD, epoch, 12 and 24 hours | XRTC, GPS | carries, leap years, ends of ranges | round trips; agreement with the calendar |
| **XRTC_PCF85063A** | the chip's registers and a shadow of them | time, alarm, countdown timer, settings; a 400-year calendar on two digits of the year | the chip, which ticks and rings between and inside calls | a stale shadow sent back; a transfer that breaks off; the chip's own idea of leap years | a call disturbs nothing that is not its own; a period is covered; the century is known |
| **GPS_RMC** | the last position and time | `update`, `parseNMEA` | the GPS stream | sentences cut short, without a fix, with empty columns; data kept from an earlier sentence | what is called new is of the last sentence |
| **OLED_SH1106, OLED_SSD1306** | cursor, scroll line, the display's memory and start line | `write`, `newLine`, `setPosition`, `clear` | the display | line counters that overflow; a ring of memory under a fixed window | it shows what a terminal shows, and no old text on the way |
| SerialUSB (`SerialUSB.h`, `cpp/SerialUSB.cpp`) | none of its own | passes on to USB::CDC | | none of its own | |
| SoftwareUART | none kept | bit-banged `write`, `readBytes` | | counted instructions | |
| FontSets, examples | data; sketches | | | the sketches are the programs of four runs | |

Interactions: TimeoutTimer's waiting loops call `yield`, which TaskChanger provides; TaskChanger looks
at `RTC_INTCTRL` and does nothing inside a `TIMEOUT_BLOCK`; SerialUSB is a front of USB::CDC, whose
bus reset and SetConfiguration both halves share; UrowNVM is FlashNVM's sequence with another address
range; the sketches read GPS, compare with the clock chip and set it, all in the packed times of
bcddatetime.

## 2. Plan

Order of work, the most important behaviour first. 1 to 9 are done.

1. `TimeoutTimer`: the core. Everything else waits with it, and its interrupt does not return.
2. `TaskChanger` against the abstract `RoundRobin`.
3. `ReadUART`, receive side, against the abstract queue `ReadBuffer`.
4. `CDCStream` against two abstract pipes `BytePipe`.
5. `FlashNVM` and `UrowNVM` over `NVMCTRL`, against `NorMemory`, with the sketches' boot counter.
6. `bcddatetime` and the 400-year calendar, against `WallClock`.
7. `XRTC_PCF85063A` over the chip, with a program that calls anything; `GPS_RMC` and the sketch that
   sets the clock by the receiver.
8. `OLED` against `Terminal`.
9. `CDCControl` and its host, against `USBDevice`.
10. Left: ReadUART's transmitter, `read_bytes` and `write_available` of the byte streams,
    TimeoutTimer's interval checks and millisecond conversions; `CDCControl` and `CDCStream` in one
    module, sharing the reset.
11. Proofs: every safety property of a passing run has its theorem; what is under fairness stays with TLC.

## 3. Modules

| Module | Role |
|---|---|
| `TimeoutTimer` | model of the RTC clock and of `TIMEOUT_BLOCK` |
| `TimeoutTimerProofs` | types, the blocks: armed, on time, one level at a time; the clock, `ticks_left` and `delay_ticks` |
| `RoundRobin` | abstract: what TaskChanger promises |
| `TaskChanger` | model; `RoundRobin` is its refinement, until an ended task is revived |
| `TaskChangerProofs` | types, the table agreeing with the CPU, the refinement |
| `ReadBuffer` | abstract: a queue that an overrun empties |
| `ReadUART` | model; `InOrder == RB!Spec` |
| `ReadUARTProofs` | types, the refinement, no early end |
| `BytePipe` | abstract: one direction of a serial port |
| `CDCStream` | model; instantiates `BytePipe` twice, `ToHost` and `FromHost` |
| `CDCStreamProofs` | no access beyond a buffer, the two refinements |
| `NVMCTRL` | the memory and its controller, external to the library |
| `FlashNVM`, `UrowNVM` | the scripts of the two libraries, as steps on the controller |
| `NorMemory` | abstract: a call changes what it is about and nothing else |
| `NvmSample` | the programs: the sketches' record with its boot count, and any calls |
| `NvmProofs` | the memory from the scripts, the torn record, the comparison |
| `bcddatetime` | the conversions, as operators |
| `WallClock` | abstract: the Gregorian calendar and the time of day |
| `CenturyDays` | the 400-year calendar on the chip's two digits |
| `PCF85063A` | the clock chip, external |
| `XRTC_PCF85063A` | the driver and its shadow |
| `XrtcProgram` | any calls, while the clock ticks and rings and transfers break off |
| `GPS_RMC` | the parser, as operators on sentences |
| `XRTC_GPS_Adjust` | the sketch: receiver, parser, driver and chip together |
| `ClockProofs` | the conversions, the chip's calendar, the calls of the driver, the sketch |
| `OLED` | text on either display |
| `Terminal` | abstract: lines, a cursor, scrolling |
| `OledProofs` | `Terminal` from `OLED`, nothing old in view |
| `USBDescriptors` | the descriptors byte by byte, and the host's reading of them |
| `CDCControl` | the control side of USB::CDC |
| `UsbHost` | the host: enumeration, requests, polls, reset, suspend |
| `USBDevice` | abstract: the device states of USB |
| `UsbHostProofs` | the address after the status stage, the device states |
| `MC...` | instances for TLC |

Each `MC` module has a `.cfg` of its name; `MCXrtcAlarm.cfg` and `MCControlShared.cfg` are second
configurations of `MCXrtc` and `MCControl`.

### TimeoutTimer

`cnt, cmp, ovf, match, irqOvf, irqCmp, running` are the RTC registers, `hi` and `context` the two
fields of `__worker`, `before[d]` the `__before` of the block at depth d. A `jmp_buf` is named by the
depth of its block, so that a jump is good exactly when its target is at most `depth`; a jump
anywhere else goes to `crashed`, then `Reset`. `ATOMIC_BLOCK` keeps out the interrupt and not the
counter: `__setup`, `__cleanup` and `ticks_left` are cut at each access to a register that moves
(`SaveOuter`/`Arm`/`SetCmp`, `Cleanup`/`RestoreCmp`/`LeaveBlock`, `ReadHi`/`ReadLo`/`ReadFlag`).
`ISR` is the whole of `RTC_CNT_vect`, both flags and the jump. `__before` of an outermost block is not
written by the code, and is read as any value.

Time: `Tick` is the counter. `slack` says that the program's own code has run since the last tick:
a tick lasts 976 us and the library's sections and the interrupt a few us, so two ticks never fall
into one section. Without that no property of time could hold for the code.
`budget`, `entered`, `asked` and `waited` are history variables.

### TaskChanger

A stack pointer is the stack it points into and the depth (`deep` or not) of the call that pushed.
Two frames on one stack overlap, so the last pushed alone is whole, and resuming another is
`crashed`. `Yield` and `Preempt` are the whole of `yield`, which runs with interrupts off; the end of
a task runs with them on and is cut into `Mark`, `Pick` and `Load`, where an interrupt can tell.
`lvl0` is the interrupt level: taken by the PIT interrupt and given back only by a RETI.
`EnterTimeout` and `LeaveTimeout` are the part of TimeoutTimer that TaskChanger looks at.
A frame is gone once popped (`Popped`): what lies below the stack pointer is written over.
`CrossFrom` says where a 256-byte page ends in the table; `N` is "nowhere". `revived` is a history variable:
the PIT interrupt fell between `Mark` and the end of `Load`, where `Preempt` stores a pointer to the ended task
again, in its own entry or in that of the next task. `OwnEntry`, `RoundRobin` and `EveryTaskRuns` hold
until then; an interrupt between `Return` and `Mark` does them no harm.

### ReadUART

Each load and store of `_top`, `_end` and `_work` by the program is a step, and `_top` is two loads,
as in the AVR's code. `Interrupt` is a round of `interrupt()`; while one is pending and enabled the
program stands still. `readBytes` is `Call("wait")`, `Counted`, `LookAtFlag`, `Drain` and the reads it
makes; how long it goes on is left open, so the clock may end it in any round. `SizeAssumption` says
that the buffer is one page at most, the default: both bytes are then as good as one.
`lx` says whether the chip is an AVR_AVRLX, where `initiate` enables the receive interrupt; a run has chips of both kinds.

The refinement maps the unread bytes to the queue of `ReadBuffer`. The subtle point is that equal
indices mean *empty*, but once a read has found them different and an overrun then makes them equal,
its fetch and its advance treat them as *full* (`Decided`).

### CDCStream

`sNak` and `rNak` are BUSNAK of the two endpoints: set, the buffer is the program's. Each function is
cut at its waits, its atomic sections and the setting of BUSNAK. `PollIn` and `PollOut` are the host.
`Sof` is `cb_event_class_sof`; `BusReset` is `bus_reset`, which clears `USBSTATE` and not the endpoints;
`SetConfiguration` may come with or without a reset before it. The buffers and the endpoint table are
NOINIT and start as anything.

Both interrupts come between any two steps. In two places the code is not made for them: a SOF
interrupt that sends after `write_byte` has seen its buffer and before it stores, or before a flush
counts (`Windows`), and a `SetConfiguration` between the test of `read_byte` and what it takes. The
history variables `cut` and `astray` record that it has happened; from there on, until the device is
configured anew (or `read_clear`), the pipe is not promised (`Writes`, `Reads`), and section 5 says what
the program sees. One assumption is named: `KeepsUp`, the host polls once in every frame.

`BytePipe` takes in bytes only where its `giving` falls (the store of `write_byte`; a packet taken), lets
out only the front of its queue, and loses something only by `read_clear`, a reset, a
configuration, or when the pipe is no longer promised. So a byte sent twice, read twice, dropped or changed breaks it.

### NVM

A byte is the set of its bits that are 1: erasing gives `Bits`, programming intersects. `NVMCTRL` has
the two kinds of controller: versions 2 and 4 act on each store by the command in force, versions 0, 3
and 5 collect stores in a page buffer until a command. Where the library's code for two versions is
the same text the model has one `ver` for both (0; 2 and 4; 3 and 5).

A call is a *script* of steps: each is one access of the C++ code to the controller (a command, a wait,
the dummy store that names the page, a round of the store loop), run once for each page. The scripts
(`EraseDx`, `Update0`, `BootSaveEx`, `UserClear3` ...) are the code's order of accesses per version.
`want` is the call's promise, for each address the bytes it may leave there; with it `NorMemory` says
that a call changes only its own addresses, each once and to the data, all by the time it returns, and
that a reset leaves every byte as it was or as asked. Version 0's `page_update` stores half as many
bytes as the page has (the loop counts words); `Takes` says what fits into what is written.
Once a call, or the record of a sketch, does not fit, the history variable `past` is set, and `Matched`, `TornIsSeen`
and `AsAsked` promise nothing more.

`NvmSample` has two programs. `"sample"` is what the sketches `FlashNVM_sample`, `FlashNVM_fillspace`,
`BOOTROW_sample` and `USERROW_sample` do: load, check the magic, count up, clear, save, verify, once per start. `"api"` makes
any calls. `Reset` may fall between any two steps. A record lies in one page, or at the start of its
row (`NvmSampleAssumption`): the sketches place it with `PGM_ALIGN`, and `FlashNVM_sample` asks in its README
for one element per page.

### Dates and the century

`bcddatetime` translates each conversion of the C++ file to an operator on packed numbers, with the
widths and the arithmetic of the code (MJD from the March-based year, epoch in 32 bits as far as TLC's
integers go). `CenturyDays` is a state machine around them: a day goes by, the chip counts its two-digit
date and its weekday as `PCF85063A` does (every fourth year a leap year, 2100 too), the program looks at
the clock with `update` and `getCenturyDateTimeNow`, which tells the century from the weekday and puts the chip right when it
shows a 29 February that is none (`Poll(n, k)`: of the date's four registers n are read, into the shadow `held`, and k are
written; 4 is a transfer that got through). `Look` is a pass with any n and k, as many passes a day as one likes (`pass`
is the best of them). A correction cut in two sets the history variable `slipped`, after which `CenturyKept` promises nothing. `WallClock` is the calendar written the schoolbook way;
`Calendar == Wall!Spec` says that the days and the seconds the conversions show go forward as on a wall.
Between two days lies at least one pass, whole or broken off; `Midnight` is a day skipped, `Second` a second on a watched day.

### The clock chip

`PCF85063A` has the eighteen registers, flags as sets, time with 12 and 24 hours, the alarm comparison
and the countdown's flag; writing 0 to an event flag clears it and writing 1 leaves it (`Latch`).
`XRTC_PCF85063A` is the driver: `shadow` is `_xrtc_register`, and each call changes it and sends a stretch
of it. `_write_register(s, a, n)` and `_read_register(a, n)` are the transfers: whole, or broken off after any
number of registers (`Sent`), in which case the call returns false and the shadow keeps what was meant.
`XrtcProgram` calls everything in any order, with `Tick` and `Expire` between the calls and between the two
transfers of `activeAlarm` (`more`). `Owned(c)` lists the registers a call is about.

### GPS and the sketch that sets the clock

A sentence is a record of its columns, an empty column is `None`; `Parse` is `parseNMEA`, `Updated` is
`update`. `XRTC_GPS_Adjust` is the sketch of that name: read and parse (`ReadAny`), `update` (`Fetch`),
`Compare`, `Stop`, `adjustEpoch` (`Set`), `Start`, `update` again (`Refresh`), each a step, with seconds that begin
(`SecondBegins`) and transfers that break off between any two. The receiver sends `Sentence(on, place)`, with the columns
`on` filled (`Shapes`) and any of `Places`. At the start `reset()` has reached the chip, or it is one that a battery has `Kept`,
in whatever mode. `heard`, `timed` and `sure` are history: the position in the sentence last parsed, as far as it has one; that this pass's
sentence has a time; and that the pass saw the clock to be right, whole and in 24 hours, or set and started it. A run is of `Seconds` seconds from `Epoch0`;
when they are over it starts again with a clock that is wrong, which keeps it finite and gives
`ComesRight` something to do.

### OLED

One module for both displays, which differ in how they address memory (`chip`). A call is a sequence of
transfers (`wire`), sent one by one by `Transfer`. `screen` is what the calls ask for when all transfers have
been made; `Prints` says that it is what `Terminal` shows, and `NoGhost` that nothing old comes into view
between two transfers. `Width` is the number of values of the line counters, 256 in the code and 8 in the
run, so that they overflow. The memory cell is half a letter: upper or lower page of a line. `After` says
what a row of transfers leaves at each place: the last byte that comes to lie there, or what was there.

### USB control

The device (`CDCControl`) is cut where its handlers wait for the host and nowhere else: a packet takes
microseconds and a handler less. `pc` is where the handler is: `main`, `bus`, `serve`, `addressing`,
`complete`, `counting`, `breaking`, `off`. `area` is what the first bytes of `EP_BUFFER` are, since setup packet,
answer and notification lie over each other: reading it as something else is `AsSetup`, `AsLine`.
`UsbHost` composes it with the host: packets of control transfers (`Setup`, `DataOut`, `DataIn`, `Status`,
`Refused`), the enumeration (`Order`, `Asks`), class requests of an open port, `Poll` of the notification
endpoint, resets, suspend and resume, and `GiveUp`, the reset by a host that gets no answer. What
it reads of the configuration it parses (`Known`, `Sound` in `USBDescriptors`).

`State` maps address, configuration and attachment to the device states of `USBDevice`.

## 4. Runs

| Run | Result | Shows |
|---|---|---|
| `timer` | pass | two nested blocks on a 6-count RTC, all interleavings of counter, interrupt and program; safety, clock and `BlockEnds` |
| `tasks` | pass | three entries; refinement of `RoundRobin` and every task runs, until the interrupt revives an ended task |
| `uart` | pass | ring of 3, two frames in the USART, bad frames, interrupts on and off, both kinds of chip |
| `usb` | pass | both pipes, and `Sent`, with buffers of 2 |
| `nvm` | pass | three kinds of controller, both programs, resets before and after every access; for version 0, until it is asked for more than half a page |
| `dates` | pass | conversions and the century, around the turns of four centuries, with a transfer that breaks off, and in the hours where digits carry |
| `xrtc` | pass | any three calls at the turn of a year, with a transfer that breaks off after any register |
| `xrtc_alarm` | violation | an alarm that rings after the last `update()` is cleared by calls that are not about it |
| `gps` | pass | the sketch against any sentences; in 24 hours and by a sentence with a time, a wrong clock comes right and one seen right is right |
| `oled` | pass | any letters and controls, and placements on a console that has not scrolled; what a terminal shows |
| `usbctl` | pass | enumeration, any two requests, two resets or suspensions; the device comes up again |
| `usb_shared` | violation | a request overwrites the notification that waits to be polled |

### Bounds, and why they are enough

- `timer`. `Per = 6`, `HiMod = 2`: a lap of the counter, and of the clock, happens many times over; 6 is the
  least that `TicksAssumption` allows with one nested block of 2 ticks and a margin. `MaxDepth = 2` gives an
  outermost block and one whose outer block must be put back; `MaxReentry = 1` bounds the blocks opened
  one after the other in one block, each of which costs the outer one up to a tick. The proofs are for every
  `MaxDepth`, and for every `MaxReentry` that leaves the ticks of a block below a lap of the counter; the code
  has no such bound, and without one neither `NeverLate` nor `BlockEnds` would hold (section 5).
- `tasks`. `N = 3`: the loop function, one task beside the switch and one to pass over. The real table has 4.
  A state in which an ended task was revived is checked and not followed (`Followed`): only the type invariant
  goes on there, and `TypeCorrect` proves it.
- `uart`. `Size = 3`, `Depth = 2`, two byte values: a ring that fills, wraps and overruns with a byte to spare
  in the USART; two values are enough to tell an exchanged or repeated byte.
- `usb`. `Max = 2`, `SofStart = 2`, `SofMod = 3`: a buffer half full and full, a countdown that runs out and one
  that wraps after a reset.
- `nvm`. Two pages of 8 bytes, rows of 4, bytes of two bits, data of 1, 3 and 5 bytes, addresses at the start,
  the middle and the end of a page: updates inside a page, up to its end and across. Two calls, so that one
  writes over what the other left; counts of 4 values, so that the boot count wraps.
- `dates`. 1890 days, a little over five years, from each of 1900-01-01, 1999-01-01, 2099-01-01 and 2199-01-01, and the last 1890
  days of 2299: every kind of turn of a century and of leap year, and the three 29 Februaries the chip makes up; within
  a 4-year cycle the calendar repeats. One transfer breaks off, after any of the date's four registers. Hours 0, 9, 11,
  12, 19 and 23 are those in which a digit, noon or midnight carries.
- `xrtc`. Three calls: one that leaves the shadow stale, one that sends it, one that shows the damage. The clock
  starts two seconds before a new year, so that two ticks carry through every time register. Periods at each
  limit of `startCountdownTimer` (0, 255, 256, 15301). One transfer breaks off, after any register; the proofs have any number.
- `gps`. Three seconds across the end of a year, one transfer that breaks off after any register. The chip is reset, or one of
  four a battery has kept: right and running, right and stopped, in 12 hours, and in 12 hours half a year behind. Sentences of
  nine shapes: all columns, no columns, no fix with the old position or without it, not the start of a second, and a fix that lacks
  its latitude, longitude, time or date. Two positions, one north and one south of the equator, so that a sign left from
  before can be told.
- `oled`. Two by two letters, two letters, counters of 8 values (the code's 256 are, as 8, a multiple of the
  lines): every counter wraps, several times. The state space is closed without a bound on calls.
- `usbctl`. Breaks of none, 7 and endless milliseconds at a poll every 5; two requests of twelve kinds; two
  events on the bus. A request meets what one before it left; an event meets the recovery from one.

`CHECK_DEADLOCK FALSE` is set in `dates`, `xrtc`, `xrtc_alarm`, `usbctl` and `usb_shared`: there the bounds (the last
day, the calls, the requests) run out and the system stops; `usbctl` may also stop in a handler that waits
for a host that is gone (`Hung`, section 5). It is on in all others.

### Fairness

- `timer`: the oscillator runs (`Tick`), interrupts are served, the library's sections, polls and sleeps
  proceed: weakly. `Work`, the body's own code, strongly: it is disabled whenever an interrupt is due.
  Nothing makes a body end.
- `tasks`: cooperative tasks leave their blocks and the end stub proceeds, weakly; each goes on calling
  `yield`, strongly, since entering a block disables it.
- `uart`: the interrupt and the body of a call, weakly; the program goes on asking (`Call("read")`),
  strongly, since calls take turns.
- `usb`: the host polls, frames go on, and a call once begun goes on: weakly. Nothing makes the program
  call `write_byte` again.
- `nvm`: the code's steps go on and the controller ends what it is doing, weakly. Nothing makes a program
  start or call, and nothing keeps resets away: `Returns` is about a call that goes on.
- `gps`: a pass of `loop()` goes on and seconds go by, weakly; a sentence with time and date is read again and again
  (`TimeRead`), strongly, because other sentences take turns with it. No more transfers break off than `Breaks`.
- `usbctl`: handlers run (`Dev`), the host goes on with what it began (`Host`) and polls (`Poll`), weakly;
  `NoticeBus`, the bus-event interrupt, strongly, since the other handler takes turns with it. Nothing makes
  a port ask, reset or suspend.

## 5. Findings

Two runs show the code doing other than what its own text says; `PROJECT.json` quotes it.

- `xrtc_alarm`: an alarm that rings after the last `update()` is cleared by any call that sends Control_2
  from the shadow (`saveSettings`, `clearTimerFlag`, the timer calls): the shadow's AF is 0, and 0 clears.
  An alarm that `update()` has shown is safe, which is what `SeenAlarmKept` says and the proof holds for.
- `usb_shared`: setup packet, answers and notification share their memory; the request after
  SetConfiguration overwrites the notification before it is polled.

What else the models met, each at its line. The models have these cases; where a property does not hold after one, a history
variable marks it (`revived`, `astray`, `cut`, `past`, `slipped`, `sure`), the property says so in its text, and without that
condition TLC finds the counterexample in the same run (`TornIsSeen` apart, which holds in the run's instance even so).

- **TimeoutTimer**: a nested block puts the end of the outer one off by up to a tick, whatever time it took itself (the `+ 1`
  of TimeoutTimer.cpp:34). A body that loops over nested blocks need therefore never end, as its README says
  for nested blocks that loop (restriction 4); the loop may even be faster than the counter, and
  put the compare off until it wraps. `BlockEnds` and `NeverLate` are of bodies that nest finitely
  often: at most `MaxReentry` times, for every value that `TicksAssumption` allows. A CMP flag left from an earlier compare ends the next block at once; an overflow that
  finds the flag set jumps to the `jmp_buf` of a block that is gone.
- **TaskChanger**: the switch out of the PIT interrupt leaves by RET, so that no further PIT interrupt
  comes until a RETI. The example says that a task which has returned is out of the table until it is registered
  again (TaskChanger/README.md:56, 215). The stub it returns into runs with interrupts on (TaskChanger.cpp:124):
  a PIT interrupt after the entry is cleared puts the task in the table again, where `joined_task` never sees
  it end; once the next index is stored (cpp:82), it goes over the entry of the next task, which is then lost. `OwnEntry`,
  `RoundRobin` and `EveryTaskRuns` hold until then (`revived`). `CrossFrom < N` breaks `OwnEntry` and the refinement: `ADC ZL, XH` loses the carry of a
  table across a page.
- **ReadUART**: outside AVR_AVRLX, and so on every chip the example names (ReadUART_Echo/README.md:7), `initiate`
  sets CTRLA to 0 (ReadUART.cpp:56) and nothing enables the receive interrupt. `available()` stays 0, and the loop of the
  example (README.md:36) never reads; `readBytes` ends at the first frame flagged, with interrupts on. `Heard` and `NoEarlyEnd` are
  of the other chips, `NoEarlyEnd` also of these with interrupts off: `readBytes` then takes the frames in itself (cpp:171),
  although the example says that it does not work then (README.md:45).
- **CDCStream**: the SOF interrupt may send after `write_byte` has waited for BUSNAK (interface.cpp:377) and
  before it stores, although "This is only possible if BUSNAK is set" (cpp:378): the byte overwrites the
  first one of a packet that is the host's, and is sent again with the next. Before a flush counts (cpp:159), the
  count of the packet becomes 0 and its bytes are lost. `WritesArrive` and `Sent` hold until then. A SetConfiguration between the
  test of `read_byte` (cpp:401) and what it takes clears CNT under it: RECVCNT passes CNT, and `read_byte` goes
  on with what lies behind the buffer until its 16 bits come round, the next SetConfiguration or `read_clear`. `TypeOK` and
  `ReadsArrive` hold until then. `peek_byte` of a buffer that is the host's returns a stale byte.
- **NVM**: on version 0 `nvm_write` stores PROGMEM_PAGE_SIZE / 2 bytes where it counts words (FlashNVM.cpp:334), and `page_update`
  does not move on to the next page (cpp:363): a record beyond the first half of a page does not compare equal, and the rest of
  a long write goes over its beginning. Without `past`, `Matched` and `AsAsked` fail. `BOOTROW_sample.ino:58` loads
  `BOOTROW_SIZE` bytes into a structure of 32. `bootrow_load` and `bootrow_verify` take 0 for 256.
- **bcddatetime**: `bcdTime24to12` (cpp:171) tests bit 7 of the hour, which no packed hour has, so that PM is
  never set; `dateTimeToEpoch` (cpp:253) counts the days twice. Both are outside `RoundTrip`.
- **XRTC**: the correction of a 29 February that was none (cpp:103, 135) is one transfer of four registers. Broken off
  after the day and before the month it leaves 1 February, which is never corrected: 1 March
  1900, 2100 or 2200 reads as 1 February, and the clock is a month behind for good. `update()` read in part may make it correct a 29 February that is one; and when
  all passes of that day break off, the chip goes on to 1 March a day late, where its weekday names another century. `CenturyKept` holds until then (`slipped`).
  `getCenturyEpochNow` (cpp:76) converts 12 to 24 hours a second time, and is modelled for 24-hour mode. `reset()` does not
  refresh the shadow, so that the next settings are those of before.
- **XRTC_GPS_Adjust**: a `reset()` that fails (.ino:57) leaves a chip with a battery in 12 hours. `adjustEpoch` then goes
  through `bcdTime24to12` (bcddatetime.cpp:171), which never marks PM: in the afternoon the clock is twelve hours wrong, and is
  set again every second for ever. `Synced` and `ComesRight` are of a chip in 24 hours. A transfer that breaks off may leave a date
  that does not exist, as 31 April; its epoch is that of 1 May, so that the comparison (.ino:71) takes it for right, and
  the chip goes on to days that do not exist. `Synced` asks that what was read is the date itself. A sentence with a date and no time is
  good, and sets the clock by the time of the sentence before; `Synced` asks for a time (`timed`).
- **GPS_RMC**: a sentence without a fix but with S or W negates the coordinate kept from before
  (GPS_RMC.cpp:79); `newCoordinate` is FALSE then, and `FixIsCurrent` speaks of coordinates called new. A sentence with status A and an
  empty latitude or longitude calls the old number new (GPS_RMC.cpp:65, 75), with this sentence's sign; `FixIsCurrent`
  speaks of the columns that are filled.
- **OLED**: `setPosition` on a console that has scrolled (SH1106 cpp:124, SSD1306 cpp:117) cuts `_cy` to a
  line of the memory, while `newLine` goes by the equality of `_cy + 1` and the 8-bit `_cz`: the console no
  longer scrolls. `Place` is modelled where it is documented, and on a console that has not scrolled.
  `drawTestPattern` of the SSD1306 (cpp:126) sends its window without the control byte.
- **USB control**: a RESET raised since the flags were read is acknowledged with them (control.cpp:134): the model
  has it, and the host's `GiveUp` is what recovers. A handler that waits for a packet of the host hangs when
  the host resets instead (interface.cpp:259, endpoint.cpp; `Hung` in `MCControl`). `bus_reset` restores the 1200 bps
  touch, so that `set_use1200touch(false)` is lost (define.h:367). RESUME is served as a reset and discards the
  address (control.cpp:176); the host then resets. Strings have bLength 2 where 4 bytes follow, and 64 where 66
  do (descripter.cpp:62, 235, 262). The notification names interface 0, not the CCI (interface.cpp:241).
  SetConfiguration(0) is obeyed and stalled (interface.cpp:231).

## 6. Proofs

All from the assumptions the modules name (`SizesAssumption`, `TicksAssumption`, `TasksAssumption`,
`SizeAssumption`, `BuffersAssumption`, `NvmAssumption`, `NvmSampleAssumption`, `CenturyAssumption`,
`XrtcAssumption`, `GpsAssumption`, `RequestsAssumption`, `OledAssumption`), for every value of the constants.

- **TimeoutTimer**: `TypeCorrect`, `ArmedAlways`, `NeverLateAlways`, `OneLevelAlways`. `InnermostArmed` and
  `NeverLate` speak of bodies only and are not inductive: the invariant adds what each open block
  saved of the one outside (`Chain`), how much time it can have (`Budgets`), what holds at each step of
  `__setup` and `__cleanup` (`Phases`, `Switching`), where the compare lies or is about to be put
  (`Compare`), and that a saved counter of 1, which leaves no tick to spare, is put back in the
  same tick (`Prompt`). `DelayIsLongEnoughAlways`, `TicksLeftExactAlways` and `ClockStepsAlways` take the time
  as one number (`Index`): no overflow waits where time can go on (`Served`), sleep's compare comes
  before a lap (`Alarm`), what `ticks_left` has read is the time or one tick ago (`Reading`), and the
  ticks that passed are never behind those counted (`Counted`).
- **TaskChanger**: `TypeCorrect`, `OwnEntryAlways` and `Refinement`, where the table does not
  cross a page, the latter two until the interrupt revives an ended task. Every task off the CPU lies whole
  where its entry points to (`Suspended`), table and CPU agree (`Agreed`), and the registers of the end
  stub stand for what they were loaded from (`EndOfTask`). That the search finds the *next* entry in
  use rests on the least element of a set of naturals.
- **ReadUART**: `TypeCorrect` and `Refinement`, for every buffer of one page. The invariant adds which calls
  can be at which step (`Stage`); the argument is about `Count` and `Content`, the length and the bytes of
  the queue, under each store of interrupt and program. `NoEarlyEndAlways`, where somebody takes the frames in (`Served`): once a
  `readBytes` has seen a frame waiting, the frame or a reason to stop stays until the call reads
  (`Something`).
- **CDCStream**: `TypeCorrect`, that no count leaves its buffer although `write_byte` and `read_byte` do not
  look, with interrupts between any two steps and, for the reads, until a SetConfiguration cuts
  `read_byte` in two (`astray`). It rests on `Room` (a full buffer is on its way out)
  and `Within` (the program is inside what was received, and at the start while the host fills it).
  `ReadPipe` and `WritePipe`, the refinements of `BytePipe`, add whose each buffer is: the host fills an
  empty one (`Receives`), and the program holds the one it fills or gives away (`Sends`). Each is of
  a pipe that is promised until an interrupt falls in one of the places above (`Writes`, `Reads`), with no
  hypothesis on when interrupts come.
- **NVM**: `TornRecordsAreSeen`, `RecordsMatch` and `MemoryIsAsAsked`, the refinement of `NorMemory`, for bytes of
  any width, any size and number of pages, any row, any place of the record within a page, any data. A
  step's place in the script says what memory and page buffer hold and what may still change: what is
  left of an erase (`Clearing`), of a page update (`Updating`), of a row (`Saving`). That `NorMemory` holds is
  then about addresses: an erase takes a page at once (`Sweeps`), a write goes up by address
  (`InOrder`), so no byte is programmed twice. The magic is the record's last word: with the page it goes
  together with the count, and written in order it comes after it, so a reset leaves no wrong
  count with a right magic (`Kept`). `NvmInv` puts these together with where the program is. All four
  hold until version 0 is asked for more than the first half of a page (`past`).
- **Dates**: `CenturyIsKept`, `RoundTrips` and `CalendarIsWall`, for every day of the four centuries to begin
  with, any number of days, the seconds of any hours. They rest on the arithmetic of the MJD: `DateParts`
  (the divisions by 1461 and 153 give an existing date, whose day it is), the lemma `Unique` (no other date has
  that day), `Tomorrow` (the next day's date is the next of the calendar), each from bounds on the
  divisions. `CInv` is inductive: unless `slipped`, the chip shows the day (`ShowsDay`), with the right weekday and either the
  right date or a 29 February that does not exist, and the right date once a pass has got through. A correction that stops
  within the date's registers shows the day as before (none written) or with all of day, weekday and month put right (three written, the year
  being the same in both); one cut after the day is what `slipped` leaves out.
  `Reads` says what the weekday tells of the century, `ShownNext` what the chip makes of the next day.
- **USB control**: `StatusFirstAlways` and `LawfulAlways`, for any requests of an open port that are not the
  enumeration's own, any number of them, of resets and of suspensions. A handler may wait for the
  status stage of a SetAddress that a reset has cut off, while the host begins anew and its next setup
  packet comes to lie where the address is read. `Asked` says why no other address is taken: the
  host has to ask for the device descriptor first, and is answered only after the handler is done.
- **XRTC**: `OnlyItsOwnAlways`, `SeenAlarmKeptAlways` and `PeriodCoversAlways`, for any dates, alarms and
  periods, any number of calls and of broken transfers. A transfer writes what `From` names, and nothing
  else (the lemmas on `Written`); the one call of two transfers needs an invariant of its own: between
  them only the clock goes on, and the shadow has no AF (`Halfway`). `PeriodCovers` is inductive with the
  domains of chip and shadow (`Filled`), as every call that could change the timer's registers says so in
  `asked`, and the arithmetic of rounding up to minutes is a lemma.
- **The sketch and the receiver**: `SyncedAlways`, for any beginning and length of a run within 2000 to 2099, any
  sentences, any chip a battery has kept, seconds between any two transfers and any number of transfers that break off
  after any register; leap days included. What a transfer cut in two leaves in the chip may be no date at all, so
  nothing is claimed of a chip that is not `sure`, but that its registers are in their domains and that it is in 12 hours if
  the shadow is (`GChip`). A pass whose sentence has a time has the stamp of the second it began in (`GStamp`); what a whole
  `update` has read is the chip as it is or as it was a second ago (`GShadow`), so that a comparison which finds the date and time
  themselves says that the chip shows a time that exists, from where it goes on as a clock (`StampHeld`, `SecondOn`); and `GSure` is
  what is known between the steps that set it. `GInv` is their conjunction and has `Synced` in it. `FixIsCurrentAlways`: the numbers a
  sentence tells of a coordinate called new are those held, signs included, whatever the sentences were.
- **OLED**: `PrintsAlways`, the refinement of `Terminal`, and `NoGhostAlways`, for either display with any number of
  lines and columns and line counters of any width that is a multiple of the lines (256 in the code). `OInv`
  says that the transfers still to be made end with the first line the counters stand for (`OBase`) and with
  the text announced (`OScreen`); that on a console the lines from the cursor to the last one are those in
  view, counted through an overflow (`OCursor`: `_cy` and `_cz` alone, being counters of the same width,
  would not say which of them is ahead); and that a page comes into view only after it was erased or while the
  display is off (`OOrder`). `AfterBoth` cuts a row of transfers in two, so `newLine`, `drawChar` and `clear` are
  each shown to erase, write or leave a place by themselves; `TextUp` and `TextWiped` turn that into what is
  read from the first line on, and `Onward` is the arithmetic of the counters at a new line.

Only model-checked: everything under fairness (`BlockEnds`, `EveryTaskRuns`, `Heard`, `Sent`, `Returns`,
`ComesRight`, `BreakEnds`, `ComesUp`) is beyond the prover. Every other property of a passing run has its
theorem.

## 7. Not modelled

- TimeoutTimer: conversions between ticks and milliseconds, `time_left`, `interval_check_ticks`, sleeps of
  more than 16 bits of ticks (a slower prescaler).
- TaskChanger: `attach_task` of the running task over its own live stack; stacks too small for a frame.
- ReadUART's transmitter, `find`, buffers of more than a page, the option `ENABLED_WRAP_READUART`.
- USB byte streams: `stop`, `read_bytes` and its clock, `write_available`, `peek_byte`, `find_byte`. USB control: the
  bytes of the streams, `stop` called by the program.
- NVM: errors that the controller reports; the library does not look at them. EEPROM, which the library
  leaves to the chip's own mapping.
- Dates: epochs of 2^31 and more, which TLC's integers do not hold.
- GPS: the characters of a sentence and its checksum; a sentence that fails it is one that is not there.
- OLED: `setFlip`, `setRevesible`, `drawTestPattern`, `setExtFont`.
- SerialUSB passes calls on; SoftwareUART is timing by counted instructions, below what the source says;
  fonts are data. The other examples use one call of the library each, or none.
