# A verification project for inspur-ipmi-oem

`inspur-ipmi-oem` is a provider library for OpenBMC's `ipmid`. It registers
handlers for OEM IPMI commands: asset information kept in RAM and on an EEPROM,
raw EEPROM access, fans, SFP ports, versions, and a set of D-Bus settings.
This directory models it in TLA+, checks the models with TLC and proves
theorems about them with TLAPS. Paths below are relative to the repository.

## 1. Inventory

### How the library runs

`ipmid` loads the library, each source file's constructor registers its
handlers, and from then on `ipmid` calls one handler at a time and waits for it
to return (the build defines `BOOST_ASIO_DISABLE_THREADS`). No handler starts a
thread or suspends itself. Two requests therefore never interleave inside the
library. What makes the code hard lies elsewhere:

* every transfer on the I2C bus, every D-Bus call and every file operation can
  fail, and many results are dropped;
* the daemon can die between any two such steps (a crash, a power loss, or one
  of the library's own calls to `exit`) and is started again by systemd with
  its static variables zero, while the EEPROM, files and D-Bus services keep
  what they had;
* what one request leaves behind, in a cache, on the chip or in the process's
  descriptor table, is what the next one finds, whichever provider serves it;
* the chips and services behind the handlers have a timing of their own.

### Components

| Component (source) | State | Operations | Interacts with | Hard behaviour | What makes it correct |
|---|---|---|---|---|---|
| Asset information commands (`src/bios.cpp`) | RAM copy and valid flag for each of three types; a region of the EEPROM for each | Set: copy to RAM, flag, write loop. Get: read loop unless flagged, answer the second firmware revision | driver, shared EEPROM, descriptor table | failed transfers, restarts within a loop, leaked descriptors | RAM and EEPROM agree on flagged blocks; a torn block is a prefix; other blocks untouched; every request answered |
| Asset layout (`include/bios.hpp`) | none | offsets and sizes | all users of the EEPROM | sizes come from `sizeof`, pages were counted by hand | blocks are disjoint and in bounds |
| EEPROM driver (`src/24cXX.c`) | descriptor, address type | open, close, read byte, write byte | kernel i2c-dev, the chip | fails in three ways, one of them `exit(1)`; in-band read error; fixed sleeps in place of polling | no transfer inside a write cycle; every open closed |
| Raw EEPROM commands (`src/i2c.cpp` 88-263) | none between requests | Read span, Write span | driver, the same chip | open per byte, failed byte skipped | ok means the chip has the data; the other provider is not disturbed |
| CPLD version (`src/i2c.cpp` 306-436) | none | read two characters of sysfs, answer three bit fields | sysfs | an unreadable file leaves the buffer uninitialised, and the answer is ok | the answer is what the file says |
| VR version (`src/i2c.cpp` 440-473, 789-1101) | none | pick a table entry, look up a bus, open, check, bind, read a byte | i2c-dev, adapter table | four calls to `exit` in the daemon's own process, an index past the table | the answer is the register of that regulator; nothing is left open |
| Adapter table (`src/i2c.cpp` 474-787) | a table of adapters during a look-up | gather from /proc or sysfs, grow by a bunch, search, free | /proc, sysfs | growth at the last entry, allocation failures, directories left open | the table stays terminated; an adapter is found if it is the only one of its name |
| MAC address (`src/i2c.cpp` 1103-1152) | EEPROMs behind sysfs | path from bus and device, seek, buffered write of six bytes | sysfs, stdio | an EEPROM that cannot be opened is answered ok, so is a failed flush | only a prefix of the six bytes, only in the EEPROM named |
| Fan commands (`src/inspur_cmds.cpp`) | mode file, speed of each fan | Set Fan, Get Fan | shell, sensors of ipmid over D-Bus, fan service | status of the shell truncated to a byte; mode stored before the sensor is checked; the shell truncates before it writes | what was set stays; a speed is set in manual mode only |
| SFP commands (`src/sfpcommands.cpp`) | pins of 32 ports in three banks, their EEPROMs | presence, interrupt, low power get and set, reset, EEPROM read, count | sysfs, descriptor table | a failed transfer of a pin leaks its descriptor; unchecked index; reply lengths | a set holds; a request drives its own port's pin only |
| BMC version (`src/bmcinfo.cpp`) | none | loop over the lines of /usr/lib/os-release, two copies | file system, descriptor table | the loop ends at end of file only; the copies are bounded by nothing | the answer is the file's; nothing but a failed stream keeps the handler |
| User activation (`src/oemcommands.cpp` 604-792) | user 2 of the user manager | check channels, addresses, users; set name, password, privilege; undo | channel and user layers, other clients | four services that change in between, calls that fail before or after their effect, an undo that can fail, a restart between two calls | only on a system that allows it; an ok means all three parts; user 2 is left with the first parts of the request in the code's order, or deleted |
| D-Bus settings (`src/oemcommands.cpp`) | properties of other services | get and set of BIOS ID, power restore delay, processor errors, shutdown policy, fan profile, FSC parameters | D-Bus, other clients | two properties in two calls; conversions of width and of doubles | what is stored is legal; what is read back is what was set |
| Host serial speed (`src/oemcommands.cpp` 872-1000) | a boot loader variable | get and set through child processes | child processes, pipe | the handler reads while the child runs | however they interleave, the answer is the variable |
| LED status (`src/oemcommands.cpp` 794-870) | none | three D-Bus reads packed in a byte | LED manager | states change between the reads; a table value wider than its field | every bit of the byte follows from what was read |
| System GUID, firmware update status (`src/oemcommands.cpp`) | - | write a property; journal an event | D-Bus, journal | - | - |
| PSU commands (`src/psucommands.cpp`) | none | count (a constant); status is commented out | - | - | - |
| Device identification (`src/oemcommands.cpp`) | none | chassis identifier, AIC FRU | D-Bus | - | - |

`CMakeLists.txt` builds all of these but two files; `oemcommands.cpp` and `24cXX.c`
are not in the library's source list (the driver is called by the two EEPROM
providers all the same and must come from elsewhere in the image). The unit
test `CMakeLists.txt` names is not in the repository.

The hazards of all of these, each at its line, are listed under `hazards` in
`PROJECT.json`, with the properties that cover them.

## 2. Plan and state

| Module | What it is | Status |
|---|---|---|
| `Eeprom24c` | driver and chip as action formulas | built |
| `AssetInfo`, `AssetStore` | Set/Get System Information; what they promise a client; refinement between the two | built, safety and refinement proved |
| `AssetLayout` | real offsets and sizes | built, proved |
| `EepromWriteCycle` | the driver's sleeps against the chip's write cycle | built, safety proved |
| `SysEeprom`, `EepromDaemon` | raw commands; the two EEPROM providers composed | built, safety and refinement proved |
| `Descriptors` | the descriptor table as action formulas | built |
| `SfpPorts` | pins, EEPROMs and resets of the ports | built, safety proved |
| `BmcVersion`, `VrInfo` | os-release; voltage regulators | built, safety proved |
| `AdapterTable` | look-up of an adapter by name | built, safety proved |
| `MacEeprom`, `CpldVersion`, `FanControl` | MAC address through sysfs and stdio; CPLD version; fans | built, safety proved |
| `UserActivation`, `HostSerial`, `LedStatus`, `OemSettings` | the commands that ask other services | built, safety proved |
| `Ipmid` | SFP, BMC and VR commands over one descriptor table and one process | built, safety proved |
| `OemProviders` | the eleven command groups side by side, for one check of them all | built, safety proved from the groups' theorems |

Every invariant and every action property that a passing run checks is a
theorem of the same specification; what stays with TLC is liveness (section 7).
The theorems of the groups are in `FileProviders_proofs` (the seven that read
and write files, devices and pins) and in `OemCommands_proofs` (the four of
`oemcommands.cpp`); `OemProviders_proofs` carries them over to the process with
all groups, and `Ipmid_proofs` is about the three groups over one table. Wanted
next: in `Ipmid`, with one descriptor table and requests of the
other two in between, that a Set Low Power Mode is kept and that the answers of
the version and of the regulators are true, now proved of each group with a
table of its own.

## 3. The modules

### `Eeprom24c` - driver and chip

`mem` is the chip, a byte for each address. `fds` is the number of descriptors
the process holds on the i2c device, at most `MaxFds`. `eeprom_open` has four
outcomes, each an action formula: `EepromOpens`; `OpenRefused` (open(2) fails,
always when the table is full); `OpenAbandoned` (an ioctl fails after open(2):
the descriptor stays open, because neither the driver nor any caller closes
it); `OpenHalts` (`CHECK_I2C_FUNC` calls `exit(1)`). A failed write may or may
not have reached the chip. A failed read is -1 in band, of which both callers
keep the low byte, 0xFF. Which failures can happen is the constant `Faults`.

### `AssetInfo` - Set and Get System Information

| Variable | Code |
|---|---|
| `ram` | `cpu_infodata`, `mem_infodata`, `revision_info` |
| `got` | `asset_info_got_flag` |
| `pc`, `dev`, `pos` | where the handler is, its `DeviceType`, the loop variable |
| `reply` | completion code and data, once it has returned |

One action per stretch of code between two driver calls, because each of them
can fail and the daemon can die there: `SetSystemInfo` (RAM copy and flag),
`WriteOpens`/`WriteOpenFails`, `WriteCell`/`WriteCellFails`, `CloseAndReturn`;
`GetCached`, `GetUncached`, `ReadOpens`/`ReadOpenFails`, `LoadCell`,
`LoadLastCell` (which sets the flag, answers, and leaves the descriptor open as
the code does); `SetTooShort` and `GetWrongLength` for the early returns;
`Halt` for the driver's `exit`; `Crash` for a restart, which zeroes the statics
(`Boot`). Device types the code does not store are requests too
(`UnknownTypes`); those that index `asset_info_got_flag` past its end
(`BeyondArray`) find an arbitrary byte there. A Set carries a whole block,
because the code copies a whole structure whatever the length of the request.

### `AssetStore` - what a client may rely on

One durable block per type (`store`), the block the daemon serves (`view`) and
the request in progress. A Set changes `view` at once and `store` by its end;
while it is being rewritten nothing is promised. If failures are possible, a
Set may be answered ok although `store` kept the old block or is torn, and a
load may have 0xFF in place of any byte; without them neither can happen.
`AssetInfo!StoreSpec` is its specification under the refinement mapping `Store`
(`store` is the region of the chip, unknown while `pc` is in the write loop;
`view` is RAM where the flag is set; `Durable`, `Served` and `InProgress` name
the parts of the mapping). TLC checks it in four runs, and theorems
`ImplementsStore` and `DaemonImplementsStore` prove it.

### `AssetLayout` - real numbers

The offsets of `bios.hpp` and the sizes of its structures with their alignment
(`CPUInfoData` is 90 bytes, the two `MemInfoData` are 52). Theorems `LayoutFits`
and `RawCellsApart` discharge what `AssetInfo` (`LayoutAssumption`) and
`EepromDaemon` (`ReadsAssumption`, `WritesAssumption`) assume of their constants.

### `EepromWriteCycle` - time

The same loops over a chip that is busy for up to `MaxCycle` ms after each byte
it takes and acknowledges nothing meanwhile, and a driver that sleeps `Delay`
ms after each transfer. `Tick` lets a millisecond pass for both.

### `SysEeprom` and `EepromDaemon` - raw commands, and both providers

`SysEeprom` has the variables of one raw request (`phase`, `start`, `count`,
`done`, `buf`) and its `result`. A read opens the device once and closes it; a
write opens and closes it for every byte, and passes over a byte that fails.
`EepromDaemon` puts it beside `AssetInfo` on the same `mem` and `fds`. A request
begins only when neither provider has one in progress; the end of the process
(`Crash`, `Halt`, `RawEnds`) ends both. `strays` counts, for the properties,
the requests for a type that is not stored: `prepare_eeprom` opens the device
before the type is looked at, and none of `bios.cpp` 229-232 closes it
(`Stray`). A client can do this at will, so no bound on descriptors holds
without it: `Room` says that blocks loaded and strays together have not used
up the table, and the promises to clients are about that time.

### `Descriptors` - one table for all

`Opens`, `OpenRefused`, `Closes` and `ProcessEnds` on a number of open
descriptors, which each module below keeps in a variable of its own (`sfpFds`,
`bmcFds`, ...) and `Ipmid` makes one. A failed call is enabled when the constant
`Faults` names it.

### `SfpPorts` - transceivers

`pin` is the level of each exported GPIO, `Pin(bank, port)` the formula of
`sfpcommands.cpp`: banks of 32 counted down in blocks of eight. A request opens
one file (`OpenFile`), makes one transfer (`ReadPin`, `WritePin`, `WriteReset`,
`ReadMemory`) and closes it, each a step. `TransferFails` is the early return
that keeps the descriptor. `PinChanges` is a module that is plugged or pulled
while a handler runs. Ports are not checked against the number of ports by Set
Low Power Mode, as in the code: its index is a whole byte, and one past the
last port moves whatever pin the formula names. Mode 1 and status 1 both stand
for level 0 (see section 5 for the comment that says otherwise).

### `BmcVersion` - os-release

A file is a sequence of lines of which the model keeps what the loop looks at:
the key, whether a quote comes before the value, the length, whether the line
fits the buffer. `NextLine` is one turn of the loop. `failed` is the stream's
failbit or badbit, which a file that does not open (`OpenStreamFails`), a line
of 256 characters or more (`NextLine`) and a read that fails (`NextLineFails`)
all set; after it `Spin` is the only step there is, short of a restart. `Copy`
is the two copies into the answer; if a value is longer than its field they
overrun (`CopyOverruns`), and the fields are then anything, or the process is
gone (`BmcRestart`).

### `VrInfo` and `AdapterTable` - regulators and adapters

`VrInfo` has the steps of `read_vr_info`: the look-up of a bus by name (for an
index past the table, whose strings are not numbers), open, check of the
functions, bind to the slave address, read. `Exits` is each call to `exit`,
which ends `ipmid`. `AdapterTable` is that look-up itself: a directory of
entries of five kinds, the table with its capacity (`cap`), and the number of
allocations (`heap`) and descriptors it holds.

### `MacEeprom`, `CpldVersion` - the rest of `i2c.cpp`

`MacEeprom`: the path is built from the request by `%x`, so that bus 16 of a
request is bus 10 of sysfs (`PathBus`). `Fwrite` fills the buffer of stdio,
`Fclose` stores it, or as much as the bus takes. `CpldVersion`: the two characters
are on the heap and uninitialised, so what the file did not give (`temp`) is
any characters.

### `FanControl` - inspur_cmds.cpp

`Truncate` and `Echo` are the two moments of the shell's redirection. What
`system()` returns is kept in a `uint8_t`: `ShellFails` (no process, or one that
was killed) is seen, `ShellFailsUnseen` (an exit status) is a multiple of 256
and is not. `Regulate` is the fan service, which the code relies on and
which is not in this repository.

### `UserActivation`, `OemSettings`, `HostSerial`, `LedStatus` - oemcommands.cpp

In all of them the handler asks other services over D-Bus one call after the
other, so that each call is a step and other clients act in between (`Change`,
`OthersSet`, `OthersWrite`, `LedChanges`). `OemSettings` has one row of a table
for each setting: how a Set checks and converts its argument, which properties
it writes in which order, what a Get makes of them, and what a reply carries:
`ipmiOEMSetFanConfig` never resets the length of the request, so its answers,
the errors included, are as long as the request was (`KeptData`). `HostSerial`
has the child process as a second actor: `TestRunning` and `GetLine` of the
handler interleave with `ChildPrints` and `ChildEnds`. `UserActivation` walks
the channels, then the users, then makes the three calls with the undo. Each of
the four can fail before or after its effect; a name that failed is not undone,
as in the code. The daemon may end between any two calls (`UserCrash`), and what
the user manager was told by then stays told. `LedStatus` has the response byte
as the set of its bits, and the table of states as the code has it, with 0x10
for On.

### `Ipmid` - one process

`SfpPorts`, `BmcVersion` and `VrInfo` instantiated over one `fds`. `Dispatch`
takes a request when no handler runs (`Free`); `Ends` and `Overrun` end the
process for all three: the regulators' `exit` closes the descriptors the SFP
commands leaked. `SfpInputs`, `BmcInputs` and `VrInputs` repeat what the three
modules assume of their constants, because an instance does not bring along
its module's assumptions.

### `OemProviders` - the groups side by side

The eleven groups of commands, of which clients use one in a behaviour
(`called`). They share nothing but the descriptor table, which is `Ipmid`'s
subject; so the behaviours of this module are those of every group, with no
product of state spaces, and one run checks the groups' properties. Its
properties with several parts are conjunctions of named properties of the groups:
`NothingLeftOpen` (`NoStreamLeft`, `NoStreamHeld`, `VrHoldsNothing`, `KeepsOpen`,
`AllFreed`), `AnswersTrue` (`VersionIsFile`, `VrAnswerIsRegister`, `LookupExact`,
`AnswerDecodes`), `LowPowerKept` (`SetHolds`, `AnswerAsSet`),
`ManualMode` (`SetTakesEffect`, `ManualAnswerHolds`, `SpeedOnlyInManual`),
`ActivationGuarded` (`OnlyWhenAllowed`, `Activated`, `InOrder`),
`SerialKept` (`SetSticks`, `AnswerIsSetting`), `SettingKept` (`LegalStored`,
`GetAfterSet`), `EveryHandlerReturns` (`VersionReturns`, `VrEnds`, `FanAnswers`,
`UserAnswers`, `SerialAnswers`).

What the names stop short of saying:

* `AnswersTrue` is about versions from a well-formed os-release, look-ups
  during which nothing failed, and CPLDs whose file gave two characters. A CPLD
  that cannot be read is answered ok from an uninitialised buffer, and of that
  answer nothing is promised.
* `ShowsWhatWasRead` is exact in every bit and for every state; what it says of
  On is what the code makes of it, which is not what its comment says
  (`ShownAsCommented`, run `led_on`).
* `InOrder`: a restart, or a call that failed after its effect, can leave user
  2 with a name and no password. What cannot happen is that it is an
  administrator under an old name or password.
* `EveryHandlerReturns` exempts the loop over a failed stream, by name and only
  there.

### MC modules

`AssetInfoMC`, `EepromDaemonMC`, `IpmidMC` and `OemProvidersMC` hold the values the
configurations give to constants. Definitions whose name has a suffix after an
underscore and a comment starting `(mutant)` are plausible bugs of the
definition they are named after. No action uses them; each property is known to
fail when one of them takes the place of the original (`mutants` in
`PROJECT.json`).

## 4. The runs

| Run | Question | Answer |
|---|---|---|
| `asset_clean` | With restarts at any step, no failing transfer and requests for stored types, is anything lost? | No: RAM and EEPROM agree, at most one descriptor leaks per type, answers are what is on the chip, every Set gets its whole block there, `AssetStore` with `MayFail` false is implemented |
| `asset_faulty` | What still holds with every failure, unknown types and a full descriptor table? | Torn blocks are prefixes, other blocks are untouched, the weaker `AssetStore` is implemented, every request ends |
| `asset_read_error` | Is a flagged block the chip's? | No (finding): a failed read is kept as 0xFF and flagged |
| `delay_short_cycle` | Is a 3 ms sleep enough for a chip of at most 3 ms? | Yes: nothing is refused and every block is written whole |
| `delay_documented_cycle` | And for the 5 ms the header documents? | No (finding): the next byte is refused and the block is torn |
| `daemon_clean` | What do the two providers do to each other when no call fails, with requests for unknown types? | Open descriptors are accounted for. Until blocks loaded and requests for unknown types have used up the table, caches stay coherent beside raw writes and no raw command is refused; raw answers stay true even after |
| `daemon_faulty` | What holds with every failure in either? | Each changes only its own cells; the weaker store is implemented; every request ends |
| `daemon_write_lost` | Is a raw write answered ok on the chip? | No (finding): a failed byte is skipped |
| `providers` | Does each command group do what it promises, with every failure, other clients and, in six of the groups, restarts in between? | Yes, with the limits named in section 3: answers are what was there, what was set is kept until it is set again, half-done work is a prefix or undone, nothing is left open beyond what is counted, every handler returns but on a failed stream |
| `led_on` | Is an LED that is on shown as the comment says? | No (finding): as off, or as another LED blinking |
| `ipmid_shared` | What do three providers in one process do to each other? | Only what the table shows: the descriptors in use are the two counted leaks, and every request ends, with an empty table too, but for the version on a failed stream |
| `ipmid_starved` | Is Get BMC Version always answered? | No (finding): when the leaks have used up the table it never returns |

The state counts are 2,894 and 9,148 for the two asset runs, 171 for the
sleep, 1,912,003 and 107,040 for the two daemon runs, 216,905 for `providers`
and 440,328 for `ipmid_shared`; the longest takes about three minutes.

### Bounds, and why they are enough

* **Two asset types, one with a block of one byte and one of two.** The code
  treats the three types alike but for which structure is copied and which one
  is answered. Two types give cross-type interference; a block of two bytes
  gives a write that is torn in the middle; the two halves of it are the two
  firmware revisions. The proofs of section 6 hold for any number and size.
* **Spare cells** before, between and after the regions give an address error
  somewhere to land. That the real offsets and sizes are such a layout is a theorem
  (`AssetLayout!LayoutFits`), and TLC evaluates it too (`RealLayout`).
* **Bytes 0, 1 and 0xFF**: old, new and what a failed read leaves. The
  faulty run of `AssetInfo` has two of them and all payloads.
* **`MaxFds` 2 or 3**: in `asset_clean` one more than there are types, the
  least with which its theorems hold; in the other runs few enough that the
  table does fill up. In `daemon_clean` two blocks and one request for an
  unknown type fill it, so that raw commands are served and are refused.
* **Raw requests**: one that spans two cells, an empty one, one with a wrong
  length byte; the faulty run has one read and one write.
* **`Delay` 3, `MaxCycle` 3 or 5, blocks of 12 or 4 bytes**: milliseconds as in
  the code and the header. A longer block repeats the same loop.
* **SFP**: ports 0 and 9 lie in two blocks of eight; 73 and 100 are past the last
  port, and the formula of 73 names GPIO 185, which reports the presence of port 9. One
  pin of the bank is not exported, so that its file does not open.
* **os-release**: all files of up to three lines of seven, that differ in key,
  value and length: at, over and under each field's size, without a quote, and
  longer than the buffer. Three lines give two for one key and another
  between or behind them. `ipmid_shared` has one file with a line too long.
* **Adapters**: directories with 0, 6, 7 or 16 plain entries, which puts the table
  before, at and after its growth by eight (`BUNCH`), then two entries of every kind.
* **`MaxFds` 3** in `providers`, **2** in `ipmid_shared`: the table fills after
  two or three failed transfers.
* **Users**: two channels, at least one user other than user 2, one change by
  other clients (`MaxChanges`): each check can be outrun once.
* **Settings**: arguments at the limits of each (0, 49, 50, 65535); foreign
  values below 0, above 65535 and at a half, since the properties are doubles
  or wider integers.
* **Serial**: numbers that fit a byte, one that does not, and a line that is no
  number.
* No run needs a constraint on states, and no symmetry is used. Every run stops
  only where the real system may: none disables the deadlock check.

### Fairness

`AssetInfo!FairSpec` and `EepromDaemon!FairDaemonSpec` assume weak fairness of
the steps of a handler that has been entered, as one action: `ipmid` runs
nothing else until it returns, the handler waits for nothing but transfers, and
the kernel ends each transfer with a time-out. Nothing is assumed of requests
or restarts. `EepromWriteCycle!FairSpec` adds that time passes. The properties
that need it are `RequestsAnswered`, `SetReachesChip`, `DaemonAnswers` and
`BlockWritten`.

`OemProviders!ProvidersSpec` and `Ipmid!FairIpmidSpec` assume the same of the
handlers of their groups (`HandlerStep`, `Work`, and the `exit` of a regulator's
handler, which is a step of it), and `ProvidersSpec` also that a child process
the serial handler waits for is scheduled. No fairness is assumed of other
clients, of the fan service, of pins or of restarts. In `ipmid_starved` the
handler does run on, for ever: the counterexample is a loop of `Spin` steps.
`EveryRequestEnds` asks for no descriptor to be left: with the table full every
request still ends, by a refusal, but for the version, whose stream has then
failed. Its mutant is an SFP handler that tries again when a file does not
open.

## 5. Findings

* **A failed read is served as data** (`asset_read_error`).
  `read_asset_info_from_eeprom` (`src/bios.cpp:254`) casts the result of
  `eeprom_read_byte` to `char`. `include/24cXX.h:56` says that function returns
  the byte at the address. -1 becomes 0xFF, the block is flagged, and no later
  Get reads the chip again.
* **The sleep is shorter than documented** (`delay_documented_cycle`).
  `src/24cXX.c:63` sleeps 3 ms, the line with the 5 ms constant of
  `include/sys_eeprom.h:30` is commented out above it. On a chip that needs
  the 5 ms, a block write ends early, and `src/bios.cpp:300` does not tell.
* **A raw write that failed is answered ok** (`daemon_write_lost`).
  `write_sys_eeprom` (`src/i2c.cpp:155`) logs the byte and returns 0.
* **Get BMC Version can hang the daemon** (`ipmid_starved`).
  `src/sfpcommands.cpp:35` returns without a close when a pin cannot be read.
  When the table is full, the stream of `src/bmcinfo.cpp:21` cannot be opened and
  never reaches the end of a file, and the loop at line 26 looks at nothing
  else. One thread serves all, so nothing is answered any more. A line of 256
  characters or a failing read has the same effect.
* **An LED that is on is not shown so** (`led_on`). The table of states has 0x10
  for On (`src/oemcommands.cpp:799`) where the comment at line 842 has "10b = On":
  shifted to its field it is the low bit of another LED's field, or lost.

Met while modelling, each in the models as it is in the code, without a run
of its own:

* An error reply of the SFP commands carries one byte of data, because the
  reply's length is set before the pin is read (`src/sfpcommands.cpp:308`).
* The exit status of the shell is lost in a `uint8_t` (`src/inspur_cmds.cpp:42`):
  a mode that was not written is answered ok. `SetTakesEffect` excludes that
  case by name (`wrote`).
* The mode is stored before the sensor is known to be a fan
  (`src/inspur_cmds.cpp:64`): a request that is refused has switched all fans to
  manual or to automatic.
* Set MAC Address answers ok when the EEPROM could not be opened
  (`src/i2c.cpp:1151`), and writes the bus of the path in hexadecimal
  (`src/i2c.cpp:1122`) where sysfs has it in decimal.
* Get CPLD Version answers ok from an uninitialised buffer when the file cannot
  be read (`src/i2c.cpp:325`).
* The comment beside the low power status says "gpio value 1 : enable low power
  mode" (`src/sfpcommands.cpp:419`), and the expression it stands beside reports
  level 0 as mode 1. Set Low Power Mode drives 0 for mode 1
  (`src/sfpcommands.cpp:495`). The models follow the code, where the two
  agree with each other; which level the transceiver takes is not in the repository.
* A comment says a limit of the air flow "must be greater than 50"
  (`src/oemcommands.cpp:1232`); the code takes 50, and so does `LegalStored`.
* A user name whose call reports a failure after its effect is not undone
  (`src/oemcommands.cpp:785`), and a daemon that ends between the three calls
  (lines 759 to 781) leaves user 2 with the parts set so far.
* A request for a type that is not stored leaves a descriptor of the EEPROM open
  (`src/bios.cpp:229`), as does every load of a block. In the modelled runs of
  `EepromDaemon` a few of these make the raw commands fail until a restart.
* Set Fan Config answers with as many bytes as the request had
  (`src/oemcommands.cpp:1034`).

## 6. What is proved

All theorems are about the specifications as TLC checks them, for every value
of the constants that satisfies the named assumptions.

* EEPROM: the chip is a function from addresses to bytes, the set of types is
  finite, regions lie on the chip and apart (`LayoutAssumption`), and raw
  requests stay outside the regions (`ReadsAssumption`, `WritesAssumption`).
  `AssetLayout` proves the last two of the real numbers.
* Requests carry bytes, because IPMI data do: `PortsAssumption`,
  `RequestAssumption`, `RequestLensAssumption`, `VrInputAssumption`,
  `FanInputAssumption`, `StartsAssumption` (an address is two of them),
  `MacsAssumption`, `CpldAssumption`, and in `Ipmid` `SfpInputs`, `BmcInputs`
  and `VrInputs`.
* What is read has the shape its reader sees: lines of os-release
  (`FilesAssumption`: any number, in any order), directory entries
  (`DirectoriesAssumption`: /proc lists adapters only), characters of sysfs,
  sensors as records (`SensorAssumption`), child output as a number or none
  (`SerialAssumption`), I2C devices with a bus and a 7-bit address
  (`DevicesAssumption`), channels up to `LastChannel` (`ChannelAssumption`).
* `SettingAssumption`: arguments have the lengths the handlers check before
  anything else, and properties have the range of their D-Bus type whoever
  writes them. It does not say that an argument or a value is legal.
* Pins that can be driven are exported (`OutputsAssumption`); a table of
  descriptors has a size (`TableAssumption`).

| Theorem | Statement | Assumes besides |
|---|---|---|
| `AssetInfo_proofs!TypeCorrect` | `[]TypeOK`: every transfer is inside its block | - |
| `AssetInfo_proofs!RegionsIsolated` | `Isolation`, whatever fails | - |
| `AssetInfo_proofs!PrefixWritten` | `[]WritePrefix`, whatever fails | - |
| `AssetInfo_proofs!Coherence`, `!LeaksBounded`, `!AnswersOnChip` | `[]CacheCoherent`, `[]LeakBound`, `[]AnswerIsOnChip` | `NothingFails`, so requests for stored types only |
| `AssetInfo_proofs!ImplementsStore` | `StoreSpec`: `AssetStore` is implemented, with and without failures | if only restarts can happen, `NothingFails` |
| `AssetLayout!LayoutFits`, `!RawCellsApart` | the real layout is one the above apply to | - |
| `EepromWriteCycle_proofs!TypeCorrect` | `[]TypeOK` | - |
| `EepromWriteCycle_proofs!SleepSuffices` | `[]NeverRefused` | `MaxCycle <= Delay` |
| `EepromDaemon_proofs!DaemonTypeCorrect`, `!FootprintKept` | `[]DaemonTypeOK`, `Footprint`, whatever fails in either provider | - |
| `EepromDaemon_proofs!SharedCoherence`, `!SharedLeaksBounded`, `!RawAnswersOnChip`, `!RawRefusedOnlyWhenFull` | `[]CoherentWhileRoom`, `[]SharedLeakBound`, `[]RawAnswerOnChip`, `RawServed`, for requests of any type | `OnlyRestarts` |
| `EepromDaemon_proofs!DaemonImplementsStore` | `StoreSpec` with raw commands on the same chip | if only restarts can happen, `NothingFails` |
| `FileProviders_proofs!LeakIsFailures`, `!SfpTypeCorrect` | `[]LeakPerFailure`, `[]SfpTypeOK`, whatever fails | - |
| `FileProviders_proofs!SetsAreKept` | `LowPowerKept`, for any ports, in range or not | - |
| `FileProviders_proofs!AlwaysTerminated`, `!GrowsByBunch`, `!TableTypeCorrect` | `[]Terminated`, `GrowthMatches`, `[]TableTypeOK`, for any directory | - |
| `FileProviders_proofs!NothingLost`, `!LeavesOpenExactly` | `[]AllFreed`, `[]KeepsOpen` | - |
| `FileProviders_proofs!LookupFindsTheOne` | `[]LookupExact`: the one adapter of that name, or that there is none or are several | - |
| `FileProviders_proofs!OnlyItsPrefix`, `!StreamIsClosed`, `!MacTypeCorrect` | `[]LeavesPrefix`, `[]NoStreamHeld`, `[]MacTypeOK`, whatever fails | - |
| `FileProviders_proofs!FieldsDecode`, `!CpldTypeCorrect` | `[]AnswerDecodes`, `[]CpldTypeOK` | - |
| `FileProviders_proofs!AnswerIsFile`, `!StreamsAreClosed`, `!BmcTypeCorrect` | `[]VersionIsFile`, `[]NoStreamLeft`, `[]BmcTypeOK`, for files of any length | - |
| `FileProviders_proofs!AnswerIsRegister`, `!VrFilesAreClosed`, `!VrTypeCorrect` | `[]VrAnswerIsRegister`, `[]VrHoldsNothing`, `[]VrTypeOK` | - |
| `FileProviders_proofs!ManualModeKept`, `!FanTypeCorrect` | `ManualMode`, `[]FanTypeOK`, for any sensors and failures | - |
| `OemCommands_proofs!ActivationIsGuarded`, `!UserTypeCorrect` | `[]ActivationGuarded`, `[]UserTypeOK`, for any number of channels and of changes by others | - |
| `OemCommands_proofs!SerialIsKept`, `!SerialTypeCorrect` | `SerialKept`, `[]SerialTypeOK` | - |
| `OemCommands_proofs!LedsAreShown`, `!LedTypeCorrect` | `[]ShowsWhatWasRead`, `[]LedTypeOK` | - |
| `OemCommands_proofs!SettingIsKept`, `!FailedSetsArePrefixes`, `!SettingTypeCorrect` | `SettingKept`, `FailedSetPrefix`, `[]SettingTypeOK`, for every argument and every foreign value | - |
| `OemProviders_proofs!ProvidersTypeCorrect`, `!HandlersGiveBack`, `!AnswersAreTrue`, `!GroupsKeepTheirState`, `!SetsStayInForce` | the same of all groups in one process | - |
| `OemProviders_proofs!TablesAndBits` | `GrowthMatches` and `[]ShowsWhatWasRead` of the groups in one process | - |
| `Ipmid_proofs!TableAccounted` | `[]DescriptorsAccounted`, whatever fails | - |
| `Ipmid_proofs!IpmidTypeCorrect` | `[]IpmidTypeOK`: the table is neither overrun nor taken below zero | - |

`OnlyRestarts` says that no call fails, though the daemon may die at any step.
`NothingFails` adds that requests name stored types, which `ipmid` does not see
to, and that the process may hold more descriptors than there are types: the
theorems that need it are about clients that keep to the stored types.
`EepromDaemon` needs it for the refinement only.

**The argument for `AssetInfo`.** `TypeInv` adds to the types that a loop starts
at its first byte and that a descriptor is open while one runs, without which
`eeprom_close` could take `fds` below zero. `WriteInv` adds to `WritePrefix`
that no reply stands while a handler runs. `CacheCoherent` is not inductive:
that a Get finds the chip agreeing with RAM at its last byte needs `Serving`
(the bytes read so far are what the chip returned), that a Set completes its
block needs `WritePrefix`, and that neither open fails needs `LeakBound`, since
a full table would end a Set between flag and chip. `LeakBound` in turn holds
because a type is loaded only while its flag is clear and loading sets it, so
that the leaked descriptors are counted by the set of flagged types. Their
conjunction is `CleanInv`.

**The argument for `EepromDaemon`.** `DaemonInv` keeps `TypeInv`, `WriteInv` and
`Serving` and replaces `LeakBound` by `SharedLeakBound`, which also counts `strays`
and the descriptor of a raw command in progress. `DescriptorsMove` says
what a step does to that account: an open descriptor more is a flag set, a
handler that holds it, or a stray. `CoherentWhileRoom` follows from it, because
while there is room an open is not refused, and room once lost comes back by
a restart only, which clears the flags. `RawInv` adds that the bytes a raw
command has transferred are the chip's, which needs no room: an open that is
refused ends the command with an error. A step of one provider keeps the invariant
of the other because the cells are disjoint (`BlockCellsUsed`,
`RawWriteSpares`, `SpansUndisturbed`) and because a raw command gives back every
descriptor it takes (`RawStepGood`). The lemmas of `AssetInfo_proofs` about its
steps are reused as they are.

**The argument for `EepromWriteCycle`.** `Covered`: what is left of the write
cycle is never more than what is left of the sleep, so that a driver that is
awake faces an idle chip.

**The argument that `AssetStore` is implemented.** `Serving`: whatever fails, a
Set in progress has flagged its block and a load has not, and what a load has put
in RAM is what its reads returned (the byte of the chip, or 0xFF). With it every
action maps to one of the store or to a stutter: a Set begins and ends where the
handler does, a failed cell ends it with the store torn, `LoadLastCell` is the
store's `EndLoad`, a restart empties `view`. If only restarts can happen
the store has no failing steps, so it must also be shown that no open is refused
(`NeverRefused`, from `LeakBound`). For the daemon, `SafeInv` is
what remains of `DaemonInv` when anything may fail: types, spans in the free cells,
one handler at a time, and a descriptor for whoever closes one. Raw steps change
no cell of a region and are stutters of the store (`DaemonTypeOK` and
`Footprint` follow from the same invariant).

**The argument for `SfpPorts`.** `LeakPerFailure` needs only that failures are
counted in `Nat`. `LowPowerKept` needs `Driven`: a port on record has a pin that
user space can drive, so that `PinChanges` does not move it; and `PinInjective`:
two ports of a byte never have one pin in the same bank, also past the last
port, so that setting one does not undo another. `SfpReplies` is the shape of
every answer.

**The argument for `AdapterTable`.** `Terminated` is not inductive, because the
table is full for a moment while it grows. `Room` says for each step how much
room there is: the capacity is a multiple of the bunch and at most one bunch
ahead of the table, exactly one entry ahead where it has to grow, and two
where an entry is about to be added. `Walk` has the types it needs; `Owned`
counts allocations as one for the table and one for each name in it; `Open`
counts descriptors as those kept plus the directory being walked. That a look-up
is exact needs `Complete`: there is an injection from the table to the entries
passed that meets each adapter among them (`ComesFrom`), so that the number
of matches in the table is 0, 1 or more exactly when it is in the directory.

**The argument for `MacEeprom`.** `Buffered`: until the stream is closed no byte
has reached an EEPROM, and there is a stream only for a path that names one.
A prefix of length 0 is then what a crash leaves (`StoreNothing`).

**The argument for `BmcVersion`, `VrInfo`, `CpldVersion`.** `Scan` is the loop
invariant: what has been found for a key is cut from the last line read that has
it, or empty if none has (`LastRead`); at the end of the file that is the
answer. `Streams` ties the descriptor to the loop. `VrHandled` says that the slave
bound is the regulator of the request from `bind` on, so that the byte read is
its register. `Read` says that characters not given by the file make the answer
exempt, and the fields are then arithmetic over two digits.

**The argument for `FanControl`.** `Under`: nothing is on record while a Set is
under way, and a Get past its mode test holds the speed of now.

**The argument for `UserActivation`.** What the handler checked is true of a moment
that has passed. The history variable `throughout` holds the obstacles that have
stood ever since the request came; `Current` says that they stand now,
and `Scanned` that none of them is one the handler has already looked for. At
the first write nothing is left in it that forbids it: had an obstacle stood
all the time, the handler would have met it. `Halves` says how far user 2 has
been changed at each call, in the order of `Stages`, unless somebody else
touched it; a restart finds it at one of them (`InOrder`).

**The argument for `HostSerial`.** `FromChild`: whatever the pipe and the
handler's buffer hold is what the variable was when the child read it, or
nothing yet. `SetUnderWay`: a child that has ended has set the variable, unless
another client has written since.

**The argument for `OemSettings`.** `Progress` is what each phase knows: the
argument was accepted, `got` is what has been read so far and has its type.
`FirstWritten`: the first `Len(got)` properties of the Set have their new values
and the others the old ones. `InPlace`: while nobody else writes, each property
holds the stored form of the argument last set. A Get then reads these, and
`AnswersTo`, applied to stored forms, gives the argument back: this is where the
conversions count (bytes of a word, doubles, offsets), by lemmas on
words for every argument rather than the five of the run.

**The argument for `LedStatus`.** `ReadSoFar`: the response byte is the union of
the shifted codes of what was seen, with an LED not read yet as Off; when all three
have been read, each field is decoded from it, the stray bit of On included.

**The argument for `OemProviders`.** A step of the process is a step of one group
and a stutter of the others (`EachSteps`), so each group's
specification holds of the whole (`EachRuns`), and with it its theorems.

**The argument for `Ipmid`.** `OneAtATime`: at most one handler is in progress,
since a request is taken only when none is, and each step belongs to the handler
in progress. `Accounted`: while the loop over os-release has not failed, the
open descriptors are the two leaks plus one if the handler in progress holds a
file (`Holds`). In a loop that has failed nobody knows whether there is one, and
the only way out of it is the end of the process, which sets all three numbers
to 0. The lemmas `Stays`, `Takes`, `GivesBack` and `Restarts` are the ways a
step moves that account. `IpmidTypeOK` needs the bounds of `fds`. `Accounted`
gives the lower one, except in a loop that has failed, and there nothing but the
loop moves and it takes at most one more (`Bounded`, `Moves`). The types of the
rest are `SfpPart`, `BmcPart` and `VrPart`, each kept by the steps of its own
provider and by the steps of the others, which leave it alone (`Views`).

## 7. What is only model-checked, and what is not modelled

* Liveness under fairness (`RequestsAnswered`, `SetReachesChip`, `DaemonAnswers`,
  `BlockWritten`, `EveryHandlerReturns`, `EveryRequestEnds`) is beyond the
  prover, as is `ENABLED`; TLC checks it on the bounds of section 4. So is that
  a handler of a group is not blocked: the deadlock check of the runs.
* Induction over data is beyond the prover too. Where the code loops over data,
  the loop is in the state and an invariant does the induction over
  steps (`Scan`, `Complete`, `Progress`). No module declares a recursive operator.
* `Ipmid` has the three providers that meet in the descriptor table and in the
  life of the process. The EEPROM providers, which meet on the chip as well,
  are `EepromDaemon`'s. All of them in one model would multiply the states and add no
  interaction that one of the two does not have.
* Not modelled: PSU commands and device identification, which answer constants
  or one property and keep no state; Set System GUID, one property that no
  command reads; the firmware update status, one message to the journal; the
  build files.
* Left out of what is modelled: the SMBus framing of a byte
  (`include/i2c-dev.h`), the driver's variants for chips with 8-bit addresses and
  `eeprom_read_current_byte`, which no provider reaches, log texts, and what an
  error reply carries beside its completion code and length.
* `set_slave_addr`, `check_funcs` and `confirm` are in `VrInfo` the ways in which
  they fail; `parse_i2c_address` is the number it returns for the strings that
  occur.
* Restarts are modelled in the EEPROM providers, SFP, version, regulators, fans,
  MAC address and user activation. A restart under a Set of `OemSettings` leaves
  a prefix of its properties, as a write that fails does; `LedStatus`,
  `CpldVersion` and `AdapterTable` keep nothing between requests. In
  `HostSerial` a restart while the child runs, and a child that cannot be
  spawned at all, are not modelled.
