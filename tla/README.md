# A verification project for the h001-yika sources

The repository holds what was added to a MediaTek MT6572 Android tree for one
product: the driver stack of a QN8006 FM chip, the driver of a BT803 Bluetooth
module, and a library with a Bluetooth relayer and serial port test functions.
This directory holds TLA+ models of that code, TLC configurations that check
them on small instances, and TLAPS proofs of some of their properties for every
instance. `PROJECT.json` is the index: components, runs, the source lines each
definition translates, hazards, findings and theorems.

Paths below are relative to `src/sw/`; `qn8006/` and `bt803/` stand for
`mediatek/platform/mt6572/kernel/drivers/qn8006/` and `.../bt803/`.

## 1. The system

| Part | Source | State it keeps | Operations |
|---|---|---|---|
| FM driver API | `qn8006/qndriver.c`, `.h` | `qnd_AutoScanAll`, `qnd_ChList`, `qnd_ChCount`, `qnd_PrevMode`, `qnd_CH_START/STOP/STEP`, the noise floors `qnd_RSSIn*`, `qnd_ClearCh`, flags of the first scan; the chip's registers | tune, seek one, seek all, clear-channel scan, RSSI, mode, RDS, audio, country, modulation options |
| FM character device | `qn8006/qn8006_driver.c` 616-1034 | what `probe` has registered with the kernel | `open`, `release`, one `ioctl` that dispatches to the API without a lock; `probe`, `remove` |
| FM register access | `qn8006/qn8006_driver.c` 239-565 | two GPIO lines | read and write of one register, bit by bit, with retries |
| BT803 wake-up | `bt803/bt803_driver.c` 298-393 | `cur_bt803_status`, `bt803_key_event`, `send_event_flag`, EINT mask and polarity | interrupt, tasklet, key thread, sysfs file |
| BT803 platform device | `bt803/bt803_driver.c` 395-585 | what `probe` has registered, `g_bt803_first` | `probe`, `remove` |
| BT803 pins | `bt803/bt803_driver.c` 125-292 | `g_ctrl_pin`, three outputs | read and write of `/proc/bt803` |
| Bluetooth relayer | `bt_test_jni/bt_relayer.cpp`, `bt_em.c` | `uart_fd`, `fExit`, two threads, the chip's library and descriptor | `RELAYER_start`, `RELAYER_exit`, two monitor threads |
| UART listener and senders | `bt_test_jni/bluetooth_bttest.cpp`, `bt_relayer.cpp` | `uart_fd`, `mOpen`, the registered listener, reader threads | `RELAYER_open`, `RELAYER_close`, `native_uartEvent`, `native_listenUart`; `BtTest_sendstr`, `senddata`, `sendbin` through `send` |
| FM HAL, JNI, service, application | `hardware/`, `frameworks/`, `package/` | the system server's pointer to the open device | one call per driver operation; `onCreate` of the application is a sequence of eight |
| Board files, platform copies | `mediatek/.../mt_devs.c`, `L_PROJECT/` | none of their own | registration, configuration |

**Interaction.** An application calls the FM service, which calls JNI, the HAL
and then the ioctl; the ioctl calls the API, which reads and writes registers
through the bit-banged bus. Nothing on this path takes a lock. The BT803's
line raises a level interrupt, which schedules a tasklet, which wakes a kernel
thread, which reports a key. The relayer's two threads share only `fExit` and
the two descriptors with the thread that starts and ends them; the UART
listener shares `mOpen` and `uart_fd` with its reader and with the threads that
send packets. The BT803's `probe` registers the interrupt and drives the reset
pin beside the writers of `/proc/bt803`.

**What is hard.** Four things, and the models are built around them.

- *Concurrency without locks*: interrupt, tasklet, thread and sysfs writers of
  the BT803 driver; writers of `/proc/bt803`; relayer threads that look at a
  flag another thread sets and clears; a reader that `RELAYER_close` gives two
  seconds; packets sent while the port is closed or opened; clients of the FM
  service, whose calls meet on the bus lines and in `qnd_AutoScanAll` and
  `qnd_ChList`.
- *Long stateful sequences*: `QND_RXSeekCHAll` is a loop of calls to
  `QND_RXSeekCH` under a global flag, each of which may first measure the noise
  floor of six bands; modes are saved and restored around it.
- *Partial failure and timeouts*: scans of the chip that do not end, addresses
  that are not acknowledged, packets that are cut off or do not fit, a `probe`
  that stops halfway.
- *Narrow integers*: 8 and 16 bit frequencies, channel numbers spread over
  registers, a status that passes through a byte.

**What makes each part correct.**

- Arithmetic: a channel is tuned exactly and the scan covers what was asked; a
  channel belongs to the band whose floor was measured for it.
- Seek: a call lists exactly the receivable channels of its range, in order,
  up to the capacity of the list; it ends; the output is muted meanwhile and
  audible and tuned afterwards; it never judges by an outdated noise floor.
- Several seeks at once: the flag that keeps a single seek quiet always belongs
  to a full one, which still gets its own list and leaves the output audible.
- Modes: seeking and tuning keep a receiver a receiver and end audible; RDS is
  switched by nothing but its own call; waking up restores what sleeping
  interrupted.
- Stack: whatever the radio was before, and whichever calls of others came
  before, `onCreate` leaves it receiving 91.5 MHz with RDS, and returns.
- Registers: an acknowledged write changes its register and no other, an
  acknowledged read returns it, and every access, failed or not, frees the bus.
- Wake-up: the interrupt is armed for the level opposite to the status, one
  change of the line is one toggle, the status ends up agreeing with the line,
  and a key is sent for the event.
- Pins: an output changes only to what a write asked of it, or a probe's reset.
- Driver life: unbinding and a failing probe leave nothing behind beyond what
  is accounted for; the interrupt never comes before what its work needs.
- Relayer: threads never outlive the devices; only whole packets pass; failure
  of one direction ends both; exit returns and leaves everything off.
- Listener: one reader at a time, on an open port, with its own listener.
- Sender: what `send` returns is what reached the port.

## 2. Modules

State variables keep the names of the source where there is one; each action
is one handler, or one step of a handler between two accesses to shared state.
The line ranges are in `PROJECT.json` under `map`. Definitions of the form
`Name_Something` stand before the definition `Name` they vary: they are
deliberately wrong versions of it, which show that a property notices the
difference, and are used by nothing else.

**`QnTables`** translates the driver's pure
arithmetic: `FREQ2CHREG` and back, `QNF_SetCh` and `QNF_GetCh` over the split
registers, `QNF_ConfigScan`, the band edges of `QNF_InitRSSInBB`, the band
index of a channel, and the options of `QND_ConfigFMModule`, all with C's
widths and C's division. `ScanFrom` and `ScanTo` say how the chip reads its
scan registers and are external. `InItsBand` says that a channel lies in the
band its floor is taken from. `UINT8_MAX` and `UINT16_MAX` are named because
the types of the seek use them and its proofs need no more of them than their
value. `QnSeek` runs on these operators; `QnSeekProofs` proves what they compute.

**`QnScan`** is the abstract promise of the two seek functions: a set of wanted
channels and a direction, a list that takes the first one left at a time, an
answer. It knows nothing of steps, ends of the range or counters.

**`QnSeek`** (checked through `MCQnSeek`) translates `QND_RXSeekCH`,
`QND_RXSeekCHAll`, `QND_UpdateRSSIn(0)` and `QNF_UpdateRSSIn` step by step:
`Call`, `Update`, `MeasureBand`, `Enter`, `Probe`, `Poll`, `Judge`, `Advance`,
`CollectCH`, `AnswerOne`, `Finish`. Between calls `SetCountry` may change the
range and `QND_Init` reset the chip and recompute the bands. What the chip
reports on each channel, and the noise floor of each band, are chosen afresh at
each call. `Scan` is the refinement mapping to `QnScan`: the wanted channels are
those on the `Raster` of the request that are `Receivable`. `Servable` says for
which requests that can be expected: the 16-bit counter must not wrap one step
past the end of the range, 0 must not be a channel of it (it is the answer
`none`), and the end must not be clamped to below the start of a sweep that
goes up, since the direction is decided before the clamping. `MCQnSeek` assumes
it of its requests. `measuredFor` and
`settled` are history variables: for which country's bands the floors were
measured, and whether the last call still determines where the chip is tuned.

**`QnShared`** is the same two functions under any number of callers, as the
binder threads of the service make them: a step is one access to
`qnd_AutoScanAll`, `qnd_ChCount`, `qnd_ChList`, `qnd_FirstScan`, the mode bits of
`SYSTEM1` or the mute bits. `QNF_SetRegBit` on `SYSTEM1` is two steps
(`qndriver.c` 93 and 97): `ReadSYSTEM1` keeps what it reads in `read`, and the
action of the place writes it back with its own bits changed, over whatever
others have written meanwhile. What is received is left open, so that every
channel may be accepted or not. The driver starts before or after its first
noise measurement. `own`, `alone` and `disturbed` are history variables: what a
full scan found, whether another one overlapped it, and whether two noise
measurements did or an update wrote back a `TXREQ` that had been cleared since
it read the register.

**`QnApi`** is one level up: an ioctl is one action, `SYSTEM1` is the set of
its bits that are 1, and a seek leaves the registers in one of the ways its
loop can. It covers what `QnSeek` takes for granted, the mode the calls run in.
`QND_Init` and a power cycle of the chip keep the driver's variables.

**`QnI2c`** runs register access bit by bit against a model of the chip's
receiver, which samples SDA when SCL rises and takes its turn when SCL falls;
any address byte may be left unanswered. A step is one routine of the driver
(start, one bit written or read, an acknowledgement, stop) as the composition of
the line changes it makes in their order; nobody but the chip, which reacts to
each change, can come between two of them. `check_ack` polls SDA: its two halves are
before and after the poll, which ends low or times out high. `was` is a history
variable, the registers when the access began.

**`Bt803Key`** has four processes: the line and its controller, sysfs writers,
`bt803_eint_handler`, `sendKeyEvent`. Every access to shared state is a step.
The thread's two comparisons of the non-volatile `bt803_key_event` may use one
read or two, so the second comparison chooses. `written` and `clean` are
history variables of the properties.

**`Bt803Pins`** has any number of writers of `/proc/bt803`. The switch and the
level read `g_ctrl_pin` separately, as the code does; `ResetPin` is the end of
`bt803_probe`, which drives the reset pin past the file. `raced` remembers
whether any of these overlapped, `reprobed` whether a probe came after the last
write. It is a component without a specification of its own:

**`DriverLife`** (checked through `MCDriverLife`) extends it with the life of
either platform driver: `Probe` starts a probe, each of its registration calls
is an action that succeeds or fails the way the code handles it, `Remove` is
the driver's `remove`. `held` is what the driver's pointers name, `leaked` what
an earlier probe left and nothing names any more. The first steps are the same
lines in both drivers; `PROJECT.json` maps each to one of them. `failed` and
`removed` are history variables.

**`BtRelayer`** has the application thread and both monitor threads, with the
packet types, header lengths and length fields of `RELAYER_read` and
`EM_BT_read`; every read may fail at every point, and either thread may not be
created, in which case its `pthread_join` returns at once. `cause` is a history
variable.

**`UartListener`** has the application thread and reader threads. The constant
`Prompt` says whether a reader always ends within the two seconds
`RELAYER_close` sleeps. Sending threads run beside it: `SendChecks` is the test
of `uart_fd` in `send`, and `SendWrites` and `SendRefuses` read it again. The
port is non-blocking, so a write may take all, a part or nothing of a packet.

**`QnStack`** is the path from the application to the chip: the server process
and its pointer to the device, the calls of the application and of `Others`,
the ioctl. A call is between its client and the ioctl, or in the ioctl; `Enter`
and `Leave` are the two ends of the ioctl, `Fails` is a call without a device or
with an argument that cannot be copied, which every layer only logs. `Effects`
says what a call does to the parts of the chip the sequence is for, `Registers`
which of those need a supplied and selected chip. The bus lines are driven by
whichever call is running, so calls that `overlapped` may leave any contents in
the registers. `clean` is a history variable. The HAL is taken with the
`powerEnable` function that its copy under `L_PROJECT/` has and the service
needs. The modes sleep and wake-up are left to `QnApi`.

**`QnSeekProofs`, `QnSharedProofs`, `QnRegisterProofs`, `QnStackProofs`,
`Bt803KeyProofs`, `DriverLifeProofs`, `BtRelayerProofs`, `UartListenerProofs`**
hold theorems and proofs (section 5).

`QnSeek` extends `QnTables` and instantiates `QnScan`; `DriverLife` extends
`Bt803Pins`. The other modules are
separate because the code they model shares no state with the rest: the FM
driver reaches the registers only through the two functions `QnI2c` shows to be
whole, so the modules above it take one access to a register as one step; `QnStack`
takes from `QnApi` only what a whole call leaves; `QnShared` takes a seek apart
where others can see it, and leaves to `QnSeek` what it does by itself; and the
relayer and the listener are alternative uses of the same port.

## 3. Runs

| Run | Shows | Result |
|---|---|---|
| `QnSeek` | up to two seek calls, mixes of signals, a changing noise floor and country; refinement of `QnScan`; termination | holds |
| `QnShared` | two seeks by two callers or one, every interleaving, updates of `SYSTEM1` torn or not | holds |
| `QnApi` | any sequence of calls | holds |
| `QnI2c` | register accesses with unanswered addresses | holds |
| `Bt803Key` | line, interrupt, tasklet, thread, sysfs writes | holds |
| `Bt803LostKey` | every signalled event is sent | violated |
| `DriverLife` | both drivers bound, unbound, failing halfway; two writers of `/proc/bt803`, overlapping or not | holds |
| `BtRelayer` | sessions with every failure | holds |
| `BtRelayerRestart` | a started session relays | violated |
| `UartListener` | open, close, reopen with prompt readers and a sender | holds |
| `QnStack` | `onCreate` with another client, failures, a server that dies | holds |
| `QnStackRds` | the RDS registers hold the uploaded values | violated |

**Bounds.**

- `QnSeek`: `ChMax` = 2 instead of 50, so that the list fills; `PollMax` = 3
  instead of 200, so that a scan may end in time, on the last poll, or never
  (300 polls, more than the byte counter holds). `MaxCalls` = 2: one call and
  one that starts from what it left, with the noise floor, the country and the
  bands the same or not; changes of the country are free. Five requests: a
  sweep down across a band edge, a single channel, one clamped at the end of
  the range, a single seek up, and one down to 0. Four signals: a weak one
  acceptable only for its ratio, a strong one with a bad ratio, one whose scan
  ends on the last poll, one whose scan never ends.
- `QnShared`: two callers and two calls of either function, with `qnd_FirstScan`
  set or not at the start, so that both, one or none of them measure; two
  channels and a list of two, which one scan can fill. What three calls may add,
  a call overlapped on both sides, is left to the proofs, which cover the three
  invariants for any number of calls.
- `QnApi` is finite without bounds; `ResetFilters` gives two settings the
  filter may have after a reset.
- `QnI2c`: two registers (the first, and one with several bits set) and two
  values with asymmetric bits. Retries are the code's ten.
- `Bt803Key`: four changes of the line and two writes of the sysfs file; the
  shortest lost event needs two changes. Numbers written are 0, 1, one that is
  neither, and the largest byte.
- `DriverLife`: three probes, so that a driver is bound again after a failure
  and after a remove; two failing steps, so that one failure meets what another
  left; two interchangeable writers, a byte for each branch of the switch.
- `BtRelayer`: `BufLen` is the code's 512; payloads put every packet type at
  0, at the largest single byte, and an ACL packet exactly at and one over the
  limit. `MaxDebug` = 1 debug event in a row.
- `UartListener`: two reader threads, two listeners; one sender, packets of one
  or two bytes and CR LF.
- `QnStack`: one other client; two channels, the one tuned to and the one after
  a reset; two RDS groups, the one uploaded and none. `OtherOps` stands for the
  rest: `SET_FQ`, `GET_RSSI` and `RXSEEKCHALL` leave what `RXSEEKCH` may leave,
  a chip that is not selected answers as little as one without supply, and the
  calls in `Quiet` only overlap with others, as `GET_ISBUFREADY` does;
  `RDSLOADDATA` is left to the application. A poll of STATUS3 takes less than the 88 ms between groups.

**Fairness.** `QnSeek` and `QnI2c`: the driver keeps running in a call; the
clear-channel scan of the chip, the only wait without a timeout, ends.
`QnShared`: the same for each caller by itself.
`Bt803Key`: a level interrupt stays asserted until it is taken, softirqs and
the thread are scheduled. `BtRelayer` and `UartListener`: threads are
scheduled, waits in a read have timeouts, and a call that has begun goes on.
`QnStack`: the application's thread runs, and a station that sends RDS goes on
sending; without one `onCreate` does not end, since its last call polls for a
group without a timeout. No other client has to call or to return.
Nowhere is the environment fair: nobody has to call, no line has to change, no
packet has to come.

**Deadlock** is checked except where the system really may stop: no call, no
change of the line. `QnShared` stops when the bounded number of calls is used
up, `DriverLife` likewise with its probes, and where a remove oopses on a
device that was never created.

## 4. Findings

Three runs show that the code does not do what it says.

1. **`Bt803LostKey`** (`bt803/bt803_driver.c` 354). The thread clears
   `send_event_flag` after it has served an event; an event notified between
   its comparison and the clearing loses its signal, and its key is never sent.
   `CleanEventDelivered` is what remains true.
2. **`BtRelayerRestart`** (`bt_test_jni/bt_relayer.cpp` 408). `fExit` of the
   session before is cleared after the new session's threads were created. A
   thread that looks first ends at once, and `RELAYER_start` reports success.
3. **`QnStackRds`** (`qn8006/qn8006_driver.c` 833). Java, JNI and HAL pass the
   RDS group as eight integers, `QND_RDSLoadData` takes a pointer to eight
   bytes, and the ioctl hands one over as the other: of 0 to 7 the chip gets
   0, 0, 0, 0, 1, 0, 0, 0.

Disagreements the models show but no run singles out: sleeping twice saves the
standby bit as the mode to wake up to, although the comment says "wake up chip"
(`qndriver.c` 487, 504; `WakeRestores` is what remains true); `RELAYER_close`
sleeps two seconds and closes the port, and a reader held up longer in its Java
callback is then still there (`bt_relayer.cpp` 429; without `Prompt`,
`ReaderHasItsOwn` fails); `onCreate` polls for an RDS group after it has
uploaded one, the reverse of the order `qndriver.c` 1184 asks for; `up` is overwritten in
both seek functions (763, 896), although the comments give it a meaning; a call
that finds nothing returns 0 where the comments say -1; `QND_MODE_FM` has the
value of `QND_MODE_SLEEP`; a status of 256 written to the sysfs file becomes 0
in the byte the handler keeps (the theorem `Armed` therefore assumes bytes);
overlapping writes of `/proc/bt803` mix pin and level (its properties
therefore except them); `qnd_RSSIns` only falls, so that after a lasting
increase of the noise every call measures all bands again; after
`QND_SetCountry` without `QND_Init` the channels are judged by the bands of the
country before, and what was measured for those (601; `FloorCurrent` excepts
it); with two full scans at once both count into one list, which the limit of
50 no longer bounds, since each tests the count before the other stores
(903-919; `OwnListWhenAlone` excepts it); two noise measurements at once may
save each other's transmit mode (309), and an update of `SYSTEM1` that has read
it during another caller's measurement writes `TXREQ` back after its end (93,
97; for example at 778): either way the last `QND_TuneToCH` finds a
transmitter and returns without unmuting (563), and when all calls have
returned the chip is muted with `TXREQ` set (`AudibleAtRest` excepts both, by
`disturbed`; without the exception TLC finds the trace); a `pthread_create`
that fails is not noticed, and the session runs with one direction or none
(`bt_relayer.cpp` 403; `StartedRelays` excepts it); the result of `device_create` is not looked at, so
that a remove after its failure oopses (`qn8006_driver.c` 960); a port opened
between the test and the return of `send` makes it return the descriptor's
number with nothing sent (`bt_relayer.cpp` 189; `SendTells` names it); after a
remove the BT803's interrupt and thread still report to the input device that
is gone (`bt803_driver.c` 552; `EintReady` ends there).

## 5. Proofs

TLAPS checks every theorem for all values of the constants.

**`Bt803KeyProofs`.** `TypeCorrect`: `Spec => []TypeOK`, with the assumption
that the numbers written are natural. `OneRun`: `Spec => []OneRunPerInterrupt`.
By itself that property is not inductive, since a run of the handler could be
scheduled while the interrupt is unmasked in the middle; `MaskInv` adds that
the EINT is masked from scheduling to unmasking. `Armed`: if only bytes are
written, `Spec => []ArmedForReturn`. The strengthening `HandlerInv` says for
each location of the handler how the status, the saved status and the polarity
relate: before the toggle the saved status is the status unless the file was
written meanwhile, after it the opposite, and after the polarity is set the
polarity is the truth value of the saved one. `Delivered`: `Spec =>
[]CleanEventDelivered`; `DeliveryInv` follows the event from its signal through
the thread to its key. Each lemma has one step per action.

**`BtRelayerProofs`.** `DevicesOutlive` and `Stopped`, for every buffer size,
every payload and any number of debug events. `DeviceInv` relates the devices
and the life of each monitor thread to the location of the application thread;
the lemma `ThreadStep` says that no step of a thread moves anything else, which
reduces the thread's nine actions to one case of the invariance proof.
`Whole`: `Spec => []RelayedWhole`, for every payload of 16 bits; `PacketInv`
bounds the packet in a thread's hands, and `Fits` is the comparison of
`RELAYER_read` and `EM_BT_read` with the size of the buffer. `TypeCorrect`:
`Spec => []TypeOK`, with `CountInv`, that a read that still waits has an attempt
left.

**`QnStackProofs`.** `TypeCorrect`, and `Establishes`: `Spec =>
[]AppEstablishes`, for any clients and any operations of theirs.
`AppEstablishes` speaks of the last calls of the sequence only. The strengthening
`CleanInv` says what each number of finished calls has established, that no
other client is in the driver, and that the application's call shares the bus
with nobody; `TurnInv` says that the application's call in progress is the one
of `onCreate` whose turn it is, and `SharedInv` that only calls in the driver
overlap. `NextCall` shows, call by call, that each of the eight keeps what the
ones before have established.

**`QnSeekProofs`.** First the arithmetic: `TunesExactly`, `ScansExactly`,
`BandsCoverRange` and `FieldHoldsOption` are facts about operators, for every
value of their arguments: all channels the ten bits can name, all contents of
the shared register, every channel of both countries' ranges, every option the
comments allow. `SplitNumber` (a channel number is put together again from byte
and two bits) and `EnclosingBand` (bands of equal width partition the range)
carry them.

Then the seek, for any requests, signals, floors, list capacity and number of
polls that fit a byte:

- `TypeCorrect`: `Spec => []TypeOK`. `TypeOK` by itself says nothing of the
  length of the list; `RoomInv` adds that a full scan that still seeks has room
  for what it may find, `CallInv` that the flag, the arguments and the end of
  the range stay those of the call.
- `EndsTuned`: `Spec => []TunedAtRest`. With `CallInv` it is inductive; the
  tuning step is `TunesExactly`, here with everything else `QND_TuneToCH` does.
- `JudgesByItsFloor`: `Spec => []FloorCurrent`. `NoiseInv` follows the
  measurement: the bands below the one being measured hold the current floor,
  afterwards all do, or the clear channel reads as recorded. That a channel
  lies in a band that was measured over it is `BandsCoverRange`.
- `Implements`: `Spec => SeekIsScan` if every request is `Servable`. The sweep
  is an induction over channels that becomes an invariant, `SweepInv`: wherever
  a call is, the channels listed so far are the wanted ones that come before
  the channel it is at (`AtChannel`), so that the next one it accepts is the
  first of those left. Its arithmetic is in `Neighbours`, `NoWrap`, `NextInSweep`:
  on a raster no channel lies between two that are a step apart, and the
  counter of a servable request does not wrap. The last leg of a full scan may
  be a single channel, on which `QND_RXSeekCH` derives the other direction;
  `AtChannel` allows for it. The simulation then goes action by action: most
  steps stutter, `Enter` is `Begin`, `CollectCH` is `ListNext`, `Finish` is
  `EndAll`, `AnswerOne` is `EndOne`.

The hypothesis of `Implements` is one the code needs: with a range that ends
within a step of 65535, or an upward sweep from above the end of the country's
range, the promise is false. A request within the range of the country in force meets it.

**`QnSharedProofs`.** `Invariance`: `Spec => []IInv`, and from it `FlagIsOwned`
and `ListIsOwn`, for any number of callers, channels and list entries.
`OwnListWhenAlone` speaks of a scan that is about to answer. The strengthening
says where a caller can be (`Placed`), that a scan with no other has nobody
beside it (`Single`), and, for each location, how far its list has come and
that it agrees with the shared one (`Listed`, `Reach`). The flag needs only that whoever
is between setting and clearing it still counts as its owner. `AudibleWhenDone`:
`Spec => []AudibleAtRest`. `BackedUp` says at which locations a measurement holds
a backup of `SYSTEM1`. As long as nothing `disturbed` the chip, `ModeInv` says that
at most one measurement is under way, that what it saved is a receiver, and that
the chip is a transmitter only while that one is between its scan for a clear
channel and its switch back (`Transmitting`). `UpdateKeepsMode` carries this
through an update: one that has not read `TXREQ` writes a receiver, one that has
finds it still set or counts as a disturbance. `MuteInv` says that a muted
output has a call that has yet to unmute it (`WillUnmute`). A seek that returns
muted because the flag is set leaves the unmuting to the flag's owner
(`FlagIsOwned`); one that finds a transmitter, to the call that measures.

**`QnRegisterProofs`**, on `QnApi`: `TypeCorrect`, `Restored`, `RdsStays`, `Wakes`, whatever
filter the chip resets to. `Keeps(c, d)` says what every helper below a call
preserves (RDS, a receiving mode, not transmitting), and is shown helper by
helper from the bottom, as the code calls them; `SetBitsIs` is the bit-mask
update. `Wakes` needs `SavedInv`, that the last sleep saved what it found.

On `QnI2c`: `AccessesWhole`, `ReturnsTheBus` and `BusTypes`, for any registers
and values of a byte. What a driver that moves bits promises is about whole
bytes, so none of the three is inductive. `BusInv` gives the whole bus at every
place of an access: the level of the lines, and the receiver with the
`Prefix` of the byte that the bits moved so far make (`AddressInv`,
`PointerInv`, `ValueInv`, `ReadInv`, `AckInv`, `EndInv`), a chip that has not
acknowledged the address being `Quiet` throughout; `DataInv` says the same of
the byte read. `PrefixGrows` is the arithmetic of one more bit. `WritesBit`,
`PollsAck`, `ReadsBit`, `SendsAck`, `Starts` and `Stops` say once what each
routine does to the lines, whatever the chip; `TakesBit`, `Acknowledges`,
`SendsBit` and `EndsSending` what a clock pulse does to the chip.

**`DriverLifeProofs`.** `InterruptReady`: `LifeInv` ties `g_bt803_first` to the
number of registrations and to the steps of the probe that can only be reached
with the input device. `NothingLeft`: `Spec => []LeavesNothing`. The property
speaks of an unbound driver only; `LeftInv` bounds what is held at every step of
a probe by what that probe has `Obtained` and what earlier failures account
for, so that a resource obtained a second time can only leak one of those.
`TypeCorrect`: `Spec => []TypeOK`, pins included. `FileTellsThePins` and `PinsFollowWrites`: `PinInv` says
that a writer that has had the file to itself is where its byte sends it
(`Follows`), a step of the probe included.

**`UartListenerProofs`.** `Typed`, and `ReadersApart` under the assumption that
readers are prompt: `ReaderInv` says that a live reader is the one started on
the port that is open now. `SendIsHonest`, prompt readers or not: `SendInv`
says that a sender refused by an open port has seen it opened.

**Only model-checked.** Liveness (`SeekTerminates`, `EverySeekEnds`,
`AccessReturns`, `StatusFollowsLine`, `FailureStopsBoth`, `ExitReturns`,
`CloseReturns`, `AppFinishes`), which is outside the prover. Every invariant of
a passing run is stated by a theorem.

## 6. Not modelled

- What the FM stack answers: the HAL returns a value nobody wrote when an ioctl
  fails, `QN8006_IOC_GET_POWER` always does, and a downloaded RDS group is never
  copied back to the Java array.
- The empty file operations of both character devices; a failing
  `input_register_device`, which is only logged, and the wake lock of
  `bt803_probe`; the outputs and the supply that `qn8006_remove` switches off.
- `BtTest_exec` in `bluetooth_bttest.cpp`: runs a command and returns its
  output, without any state.
- `bt_em.c`: `EM_BT_polling_start/stop` have no caller in the repository,
  `EM_BT_getChipInfo` and `EM_BT_getPatchInfo` are compiled out.
- Transmit power, transmit audio and the audio path pin: they touch none of the
  state the properties speak of.
- What two simultaneous callers of the FM ioctls do to each other's bits of
  `SYSTEM1` beside the mode (`RDSEN`, the analog output), to registers other than
  `SYSTEM1` and the mute bits, and what the other ioctls do beside the seeks:
  `QnShared` has the two seeks, their mode and mute bits; in `QnStack`
  overlapping calls may leave anything. Nor do two masters on the bus lines at
  once appear in `QnI2c`.
- A read of the port that fails although `select` announced data: the listener
  calls `OnEvent` with length -1 (`bluetooth_bttest.cpp` 315-319), and what a
  `memcpy` of that length does is undefined. `UartListener` takes such reads to
  succeed.
- A `pthread_join` of an id that was never assigned, or is of a thread joined
  before: `BtRelayer` takes it to return at once, as it does unless the id has
  been given to another thread.
- Board files, `L_PROJECT/` copies, resources and build files.

## 7. What could follow

1. The remaining registers and ioctls under two callers, the bus of `QnI2c` with
   two masters: nothing can be promised there without a lock, so that the useful
   form is a specification of the lock the driver lacks.
2. What is answered: the values the driver, the HAL and JNI return, with the
   failures `QnStack` already has.
3. The relayer and the listener on one port: both use `uart_fd`.

Run a model with `tlc -config <run>.cfg <module>`, a proof with
`tlapm <module>.tla`.
