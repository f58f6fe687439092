# OpenSeaMapLogger: models and proofs

The OpenSeaMap logger is an ATmega328 program that records two serial inputs
(NMEA 0183 or SeaTalk on port A, NMEA on port B), a gyro and its own supply
voltage into files on an SD card, on a boat, for days, with a gold cap that
keeps it alive for some seconds when the supply goes. This directory holds TLA+
models of it, the TLC runs that check them and the TLAPS proofs about them.

All paths below are relative to the repository; *the sketch* is
`SketchBook/OpenSeaMap/OpenSeaMap.ino`.

## 1. Inventory

| Component | State | Operations | Talks to | What is hard | What makes it correct |
|---|---|---|---|---|---|
| Main loop and data files (sketch: `setup`, `loop`, `newFile`, `stopLogger`, `flushFile`) | the open file and its name, last file number, hours counted, minute of the last flush, last second, error | wait for card, start, rotate, flush, stop, halt | ports (polls them), SdFat, clock, switch, voltage | time arithmetic in mixed widths; the card is exchanged, the supply drops or the card is full at any point | a record waits at most a minute for its flush; files span an hour; every file has head and end; a finished file is never touched; recording resumes, with the next file of the hour at the latest |
| USART receiver (`cores/oseam/HardwareSerial.cpp`) | ring, ninth bits, head, tail, overflow, mode | receive interrupt, `available`, `read`, `begin`, `end` | the USART, `testSerialA` | interrupt between any two accesses; ninth bits packed eight to a byte | bounded queue: first in first out, loss only when full |
| USART transmitter (same file) | ring, `transmitting` | `write`, `flush`, data register interrupt | USART | flag order between `write`, interrupt and `flush` | everything written is sent in order, `flush` returns |
| Input framing (sketch: `NMEAInputA/B`, `SeaTalkInputA`, `writeDatagram`, `checkNMEAData`) | two line buffers, their indices, expected length | one call per character | ports, data file | lines longer than the buffer, a buffer with old contents, first datagram | a record is the characters of one line or datagram, in order |
| Configuration (sketch: `getParameters`, `outputParameter`, `initSerials`) | EEPROM cells, the active parameters | read EEPROM, parse `config.dat`, write back, open ports | EEPROM, SdFat, ports | partial or malformed files, values out of range, interrupted writes | the ports are opened as the last complete configuration says; a second start changes nothing |
| Software serial (`libraries/AltSoftSerial`) | ring, bit state of receiver and transmitter | capture and two compare interrupts, `read`, `available`, `writeByte` | timer, `testSerialB` | two interrupts end a byte | bounded queue again |
| FAT file system (`libraries/SdFat`) | FAT, directory, block cache, file position | `open`, `write`, `sync`, `close`, `exists`, `freeClusterCount` | the card | what is on the card when the power goes; failing blocks | what `sync` covered survives; no cluster in two files |
| Gyro (`libraries/Wire`, `I2Cdev`, `MPU6050`) | transfer state, buffers; the sensor's registers | `initialize`, `testConnection`, `getRotation`, `getAcceleration`, some 250 accessors of register fields | two-wire interrupt, sensor, `writeGyroData` | a blocking call waits for an interrupt routine without a timeout; fields are set by reading and writing back; a byte that is not acknowledged | a call returns; it reads or sets its own field exactly and nothing else |
| Boot loader (`bootloader/avr_boot-master`) | flash, version in EEPROM | find a file (`pff.c`, `mmc.c`), flash it page by page, start it | card, the program's `setup` | several candidate files; power cut half way; failing sectors | a program that starts is one complete file; the newest is reached |
| WebConfig (`config.php`) | | makes `config.dat` of a form | `getParameters` | | the logger reads it as it was meant |
| Card driver (`SdFat/Sd2Card.cpp`) | kind of the card, what it is in the middle of | `begin`, blocks and sequences of blocks, `erase`, `cardSize` | the card, `SdVolume` | a card that is pulled, exchanged, slow, or refuses | a call that answers true has done what it says, to those blocks |
| Formatter (`examples/SdFormatter`) | geometry, layout, the sectors it writes | erase, format | the card; `SdVolume::init`, `pf_mount` | tables by size, 8 and 16 bit arithmetic | the logger and the boot loader mount the card and agree on it |
| Streams (`SdFat`: `ios`, `istream`, `ostream`, `SdStream`, `bufstream`) | state, flags, position | put, get, `getline`, `ignore`, seek | `SdBaseFile`, memory | the end of the file or of the buffer, numbers too large | what is written reads back; what is not asked for stays |
| Arduino core: memory and texts (`malloc.c`, `realloc.c`, `WString.cpp`, `Print.cpp`, `Stream.cpp`) | free list; strings; none | `malloc`, `free`, `realloc`; all of `String`; `print`, `parseInt`, `find`, ... | sketch, ports | exhausted memory in the middle of an operation; pauses in the middle of a number | blocks do not meet; a string holds its text; parsed is what came |
| `SoftwareSerial` (library, not used by the sketch) | who listens, one ring, overflow flags | `begin`, `listen`, `read`, `write`, ..., pin change interrupt | pins | the interrupt stays for a whole frame, `write` keeps it off | who listens gets what comes; what is written arrives |
| Arduino core: clock, pins, USB; MCStools, test sketches | | | | | not this project's logic |

Interaction: `loop()` is the only thread. The USART and timer interrupts fill
rings; `loop()` polls them, assembles records and writes them through SdFat. The
environment (card slot, stop switch, supply) is only seen where the code looks:
the voltage and the switch once per turn, the card when an operation fails.

The boot loader and the sketch meet in one EEPROM word, the version, and in the
flash.

`PROJECT.json` lists the hazards at their lines with the properties that cover
them; a hazard without a property has a note that says why.

## 2. Modules

| Module | Models |
|---|---|
| `SerialQueue` | what a buffered receiver promises: a bounded queue with loss when full |
| `HardwareSerial` | the receiving half of the USART driver; refines `SerialQueue` |
| `MCHardwareSerial` | values for TLC |
| `RingLemmas` | arithmetic of `%` and `\div`: ring positions, a clock that comes round; the least number of a set; proved once |
| `HardwareSerialProofs` | inductive invariant and refinement proof |
| `Logger` | main loop, data files, card, supply, clock |
| `MCLogger` | instance for TLC |
| `LoggerProofs` | types, handle, finished files, head and end of files, shutdown on the cap, time bounds |
| `Framing`, `MCFraming` | both ports: characters to lines, datagrams and records |
| `FramingProofs` | buffers, indices, lines and datagrams |
| `Heap`, `Strings` | `malloc.c` and `realloc.c`; class `String` on that heap |
| `Streams` | the formatted and unformatted streams of SdFat, over files and buffers |
| `PrintStream` | `Print`, `Stream`, and what SdFat prints of fields, dates and directories |
| `SoftwareSerial` | ports in software that listen in turn |
| `Config`, `MCConfig` | EEPROM, parser of `config.dat`, `oseamlog.cnf`, opening of the ports |
| `ConfigProofs` | the parser on what `config.php` sends, and the three properties of the configuration |
| `AltSoftSerial`, `MCAltSoftSerial` | the receiver of port B with its two interrupts; refines `SerialQueue` |
| `SoftSender`, `UsartSender` | the transmitters of port B and of port A, with their interrupts |
| `PortProofs` | port B assembles every frame, and the refinement; what is written to either port is sent once and in order; that `flush()` can return |
| `SdFile`, `MCSdFile` | block cache, FAT, directory and file position under the calls of the sketch |
| `FileTree` | what the calls of class `SdFat` promise: an abstract tree and the outcomes of a call on it |
| `SdTree` | all calls of class `SdFat` that change the card, with subdirectories, down to entries and clusters |
| `SdCard`, `SdDriver` | the driver `Sd2Card.cpp` and a card as it uses it; the same with constants and state of its own, for `MCSdFile` and the proofs |
| `CardProofs` | a call of the driver does what it says; a card that is laid out is mounted |
| `Formatter` | `SdFormatter.ino`, and `SdVolume::init()` and `pf_mount()` on what it wrote |
| `TwoWire` | `twi.c` as a master, the bus, the sensor |
| `MPU6050Registers` | the register map and, for each accessor of `MPU6050.cpp`, the field it reads or sets |
| `Gyro`, `MCGyro` | `I2Cdev`, `Wire` and the sketch on top of `TwoWire`, driven by `MPU6050Registers` |
| `PetitFat` | `mmc.c` and `pff.c` as operators on a medium |
| `BootLoader`, `MCBootLoader` | `main.c` of the boot loader with flash, power and card; uses `PetitFat` |
| `BootLoaderProofs` | a program that is started is whole |

`Logger` treats the file system as files that keep what was synced, and the ports
as sources of records. `SdFile` is the detail behind the first (`SavedIsKept` is
the promise `Logger` relies on when it counts records at `sync()`), `Framing`,
`HardwareSerial` and `AltSoftSerial` are the detail behind the second. They are
checked apart: the product of their states is far out of reach.

Three MC modules are sums: a variable `part`, chosen in the initial state and never
changed, says which of several independent specifications is run, and each property
speaks of its part. `MCFraming` has the parts framing, heap, strings, print and library
(`SoftwareSerial`); `MCSdFile` the parts file, tree, card, format and streams;
`MCAltSoftSerial` the parts receiver, soft and usart. The parts share nothing; a state of
the sum is a state of one part. `MCSdFile` takes its part card from `SdDriver` and its part
format from `Formatter`, so that the proofs about the two do not meet the recursive
operators of the other parts.

### HardwareSerial

One action per access of the sketch to a variable the interrupt also uses:
`AvailableLoadsHead` and `AvailableAnswers` are the two loads of `available()`;
`ReadFindsNothing`/`ReadByte`, `ReadNinth`, `MoveTail`, `ClearOverflow` are the
steps of `read()`. `ReceiveInterrupt` is the whole interrupt (it cannot be
interrupted), with `StoreChar` or `DropChar` for `store_char()`. `nrx_buffer` is
a set of bit numbers per byte. `accepted`, `delivered` and `lost` are history
variables; `promised` remembers that `available()` answered more than 0.

Simplifications: the USART FIFO keeps the ninth bit and the parity flag with
its byte, as the data sheet says. The indices are 16 bits wide and loaded
in two halves, but for a ring of up to 256 slots the high half is always zero,
which is why `RxSize <= 256` is assumed. Reordering of the non-volatile buffer
accesses by the compiler is not modelled. `peek()` and `overflow()` are not
called by the sketch and left out.

### Logger

`pc` is the place in `loop()` or in the function it calls. `Top` is the top of
`loop()` (clock, voltage and switch are read there and only there);
`ShutdownReason`, `stopLogger` and `HaltEnds` are the shutdown branch; `Begin`,
`Search`, `StartRecords` are `newFile()` after its `stopLogger()`; `testSerial`
stands for both ports; `NotYet`, `NewFileByTime`, `FlushByTime`, `NothingDue`,
`Count`, `FlushClose`, `FlushOpen` are the part that runs once a second.

A record is known by its kind. `unsynced` holds what was written to the open file
since it was opened, `disk` what a reader of the card would find: SdFat writes the
size into the directory entry in `sync()`, so only then do the records count. A
directory entry is on the card as soon as `open()` made it. `mounted` says that
`sd.begin()` has initialised the card that is in the slot: pulling it ends that,
and putting it back does not restore it.

SdFat reads through a cache of one block (`SdVolume::cacheFetch`), and a block it holds is
read without the card. `held` is what `open()` finds in it alone: the files whose entries
(`FirstBlock`) are in the first block of the root directory, where every search begins,
while that block is held. `exists` answers from the card if it is mounted and from `held`
if not. A `close()` that had something to write leaves the block of the file's entry, a
`write()` replaces it by a block of data if there is one to be had, a card that is pulled
within the search or within the `close()` of `flushFile()` may leave a directory block
(`CutShort`), an `open()` that makes a file while the card goes may leave an entry that is
on no card (`MadeInCache`), and `sd.begin()` forgets it all.
Hence **`flushFile()` may open a file whose card is gone**, or was put back and not
initialised: what is written to it fails, closing it writes nothing, and the next flush
finds it again, until `loop()` makes the new file of the hour. A logger whose card was
exchanged at that moment records nothing for up to an hour. `stale` remembers that it
happened, and `ResumesSoon` gives such a logger the hour instead of the minute. No
document of the repository says how soon recording resumes, so this is no finding; but
it is what the code does.
Left out: whether the block in the cache is waiting to be written (a step that replaces
it may therefore fail or not), and a pull within another call, which counts as before or
after it.

Time is in ticks. A turn of `loop()` takes less than a tick; time passes where the
code waits (top of the loop, waiting for a card, `delay(10000)`). `clock`, `now`
and `lastMillis` are unsigned numbers modulo `ClockMod`; `now` is read as a signed
long where the code divides it; the minute and the hour are cut to `ByteMod` and
`WordMod` as the casts do.

`HandleInv` says why the properties hold, part by part: `FileInv` (handle and card
agree), `RecordsMatch` (head and end of the files), `ShutdownInTime` (the order of cap,
file and turn), `TimesMatch` (the times, as long as `CountersFit`). A turn that sees
no new second keeps less than a minute (an hour, for a file) since the second it saw
last; that is what is carried over a tick.

History variables: `finished` (closed with everything on the card),
`interrupted` (card or supply went while in use), `exhausted` (no free number was
found), `age`, `fileAge`, `idle`, `rotated` (ticks since something),
`lostByPower`, `stale`.

The environment: `SwitchMoves`, `SupplyMoves`, `CardPulled`, `CardInserted` (the
same card), `SpaceRunsOut`, `PowerCut` (only after `CapTicks` on the cap),
`PowerOn`. `setup()` is one action: the clock starts after the cap has loaded.

### Framing

One action per character: `NMEAInput` and `SeaTalkInput` are the whole of
`NMEAInputA/B` and `SeaTalkInputA` with the `writeData()` they end in; `ReadChar`
and `NothingAvailable` are what `testSerialA/B` do in a turn. What is written is
compared with a reference that is defined on the characters alone
(`ExpectedLines`, `ExpectedDatagrams`): it has no index, no buffer and no state. It says
at which positions of the input lines end, where the buffer was full by then
(`LineEnds`, `Fills`), which characters are text since the end before, which commands
open a datagram and what length the next one announced; `InOrder` puts what belongs to
these positions into a sequence. So it is no second reading along the input.
`checkNMEAData()` is left out: its answer only lights an LED.

### Heap, Strings

A heap is a record: the end, the list of the free chunks, the length of every chunk and
the bytes, of which headers, links and what nobody wrote are `Garbage`. `malloc`, `free`
and `realloc` are operators on it; lengths and addresses are modulo `HeapWord` as a
`size_t` is. The stack is where the caller's is: a limit of a set. `HeapSound` follows the
bytes of each caller and asks that a refusal is justified. `Sane` leaves out two calls
`realloc()` does not survive: a block cut to less than a link (2 bytes), and a length
that comes round (`reserve(65535)`).

In `Strings` every operation of class `String` that changes a string is an action with all
its calls of the heap; those that ask are operators, compared with the text in
`AnswersOf`. `val` is the text a caller of the operations expects, and whether the string
is valid. `replace()` by a longer text counts the matches from the left and writes from
the right, so where matches overlap (`Overlaps`) it is not asked for anything. A string
appended to itself is not asked for either: `concat(s)` with `s` itself copies until the
0 it overwrites.

### Streams, PrintStream

A stream is a record, an operation takes it and returns it with what it read. Numbers keep
their width (`Bits`, `ShortBits`); a floating point number is a number of thousandths with
exact arithmetic, so rounding errors of the machine are not modelled. `StreamsAreExact`
reads back what was put, under every flag, and follows every character a read takes.
The code has its own idea of three things, and the properties leave them to it: a word
that is read into a width loses the character behind it (`istream.cpp:327`);
`Stream::findUntil()` does not see a terminator that begins within a match that failed,
and a 0 ends the search (`Stream.cpp:97`); `parseFloat()` reads `.5` as 5. A negative
number printed in hexadecimal cannot be read back with its sign. Read errors of the card
below a stream, and the memory of `readString()`, are left out.

### Config

`ReadEEPROM`, `OpenConfig`, `LineEnd` and `ConfigChar` (one character of
`config.dat`, the vessel number as a line), `CloseConfig`, `Outputs`, `RemoveCnf`,
`WriteCnf`, `OpenPorts` follow `getParameters()`, `outputParameter()` and
`initSerials()`; `EEPROMWrite` writes one cell, so that the power can go between
two. `Download` is what `config.php` makes of a form, as characters; the
properties are stated on the form.

`OpenedAsConfigured`, `ChosenOrErased` and `StartEnds` leave out one case, which the
model has (`ReadFails`): the card is pulled after `config.dat` was opened and before
its first block was read. `read()` then answers -1 while `available()` answers 1, the
start hangs, and the cell of baud rate A receives 207. A power cut between the bytes
of the vessel number leaves bytes of two numbers; `ChosenOrErased` is about cells.
The vessel number is a sequence of bytes, the lowest first; `VesselBytes` of them.
Each property is a conjunction of what holds in the middle of a start too:
`OpenedAsConfigured` of `FollowsFile` (what the parser has read so far is what the form
says up to there), `UsesParameters` and `RunsAsTheFormSays`; `RestartKeepsSettings` of
`SavesWhatItUses` (a cell holds the parameter in use, or a write to it is still to come)
and `RunsAsSaved`; `ChosenOrErased` of `CellsChosen` and `WritesChosen`.
The cell that holds the boot loader's kind and its checksum are not modelled.

### AltSoftSerial

Time runs in quarters of a bit (`Tick`), and `CaptureInterrupt` and
`CompareInterrupt` come up to `MaxLatency` quarters after their event. That this is
less than three quarters is an assumption on the sketch: nothing in it keeps
interrupts off for longer than some ten microseconds, and a bit takes 208.
A byte is a function from the numbers of its bits to the bits. `FramesAssembled` has
the reason in it: `FollowsLine` (nothing is due, or the start bit, or some bits of the
byte are, and the timer and the two compare values are where they must be then) and
`RingMatches`.

### SoftSender, UsartSender

`SoftSender` has the compare unit that sets the pin by itself and the interrupt that asks
for the next level, under the same latency; a receiver at the other end samples in the
middle of the bits. `writeByte()`, `flushOutput()`, `end()` and the interrupt are
separate steps. One situation is left out of its property (`rushed`): the interrupt that
begins the stop bit declares the transmitter idle, so a byte that is written within the
stop bit starts at once and cuts it short. A byte is a function from the numbers of its
bits to the bits, as in `AltSoftSerial`. `SenderInv` follows the frame quarter by quarter:
`RingHolds` is the ring, `BitsKept` what the interrupt has left to send, `AskedFor` the
change of level that was asked for, `Hears` the place of the receiver.

`UsartSender` has a step per access of `write()` to what the interrupt uses: the ring,
its head, UDRIE, `transmitting`, TXC. Assumed is that a frame (0.3 ms) takes longer than
`write()` needs from the head to clearing TXC; were it not so, `flush()` would wait for ever.
`SenderInv` counts: `Stored` characters have come into the ring, `Loaded` have left it;
`CharAt` is the one at a position, `FlagsTell` what the flags say to `flush()`.

### SoftwareSerial

Time runs in thirds of a bit. The delays of the table are modelled by what they are tuned
for: into the middle of the start bit, then a bit each; `recv()` and `write()` count them,
and the sketch, or the interrupt, stands still meanwhile. `due` holds a byte that came
whole to who listens until the ring takes it, `wrong` remembers that another one was
taken, or that the receiver at the other end got another one than was written.
Not promised is a frame that comes while `write()` has interrupts off or while another
port listens, and a frame in which `listen()` turned to the line. The constructor leaves
the pin high (`setTX`), which on a line with inverse logic is a start bit: the first byte
on it is not promised either. `overflow()` clears what the interrupt sets between its two
steps, as in the receiver of port A; `peek()` gives a byte as a signed `char`, so 255 reads
like no byte. Assumed: `begin()` comes once for a port, with a rate of the table and before
anything is on the lines.

### SdFile

An operation of the library is a function from the state it finds to the state it
leaves, and the number of block transfers that still succeed is part of the state:
so a power cut, a pulled card or a failing transfer hits every operation at every
block. A `late` failure is one that is reported although the block was written.
Two situations are taken out of the properties (`spoiled`), because the code
really loses there: a cut inside `remove(oseamlog.cnf)` after the chain was freed
leaves an entry whose clusters are given away later (`Torn`), and a `write()` that
fails after it took a cluster leaves a chain one longer than its position (`Skewed`).
Assumed: FAT16 with a fixed root directory, the single cache of an AVR build, blocks
written whole or not at all, no write of 512 bytes or more at once, and the card not
exchanged for another one. On a failing card `freeClusterCount()` gives a huge number,
and `exists()` says no; both are in the model.

### FileTree, SdTree

`FileTree` says what a call may leave, on a function from paths to nodes; a call that
fails may leave some of its directories, or an empty file, as the comments of the
library allow. `SdTree` is the code: entries in slots, chains of clusters, `open()` along
a path, `mkdir`, `remove`, `rename`, `rmdir`, `rmRfStar`, `truncate`, `createContiguous`,
`write`, `chdir`, `ls`. `CallsAreExact` is a step simulation: from every state that is
reached, every call leads to a state whose tree is one of the outcomes; with it,
`TreeSound` asks that chains do not meet and no cluster is lost. Faults are the
matter of `SdFile`; here the card only gets full. Where the code goes on with
something the model has no state for (a path that leads through a file, a directory that
is moved into itself, a `rename()` whose new entry took the place of the old one) the call
is marked and followed no further (`spoiled`); a cluster taken by a write that then found
no room is known (`leaked`).

### SdCard

A call of the driver is a function from a state to the set of states it may leave; the card
obeys commands in its own modes, may be slow, refuse, be pulled at any command and come
back as another kind. `BlocksAreExact` leaves out what the driver cannot see: a card
pulled within a block (`torn`; CRCs are not compiled in), and, for sequences, a card that
was busy for longer than the timeout (`slow`), whose zeros are taken for an answer.
`begin()` is a command at a time (`GoIdle`, `Version`, `Initialize`, `HighCapacity`), so
that the card can be pulled and exchanged within it; each loop goes on, or its time is up.

### Formatter

The steps of the sketch: geometry by table, layout, erase, the MBR, boot sectors, FAT and
directory, as sectors with fields. `SdVolume::init()`, `freeClusterCount()` and the boot
loader's `pf_mount()` (`PetitFat`) read them. Real sizes; 8 and 16 bit variables keep
their width. A card of 64 GB or more comes round to a small one in the 16 bits of its
megabytes and is not asked for anything.

The first boundary at which the data can begin is a search (`Fits16`, `Fits32`), bounded by
`MaxBoundaries`: 66 boundaries are enough for every card below 64 GB, which the proof
shows, and `FormatterAssumption` asks for no less. `FormatInv` goes with
`FormattedIsMounted`, so that TLC checks it before it is used in the proof.

### TwoWire, MPU6050Registers, Gyro

`TWI_vect` is the interrupt routine with one disjunct per group of status codes;
`twi_writeTo` and `twi_readFrom` are split where they wait. The bus and the sensor
are external: `BusStarts` to `BusReceives` are the byte on the wires, `BusFails` a
byte not acknowledged, a lost arbitration or a bus error. `MPU6050Registers` is a
table: a row says which register, which bits and in which way an accessor reads or
sets them, with the register numbers and bit numbers of `MPU6050.h`. `Gyro` carries
a row out through `I2Cdev` byte by byte (`readBytes` in chunks, `writeBit` and
`writeBits` as reading, changing, writing, and the same for words). `FieldsAreExact` compares the result
with the field by arithmetic, without masks. The registers are plain memory: bits
that clear themselves, and the FIFO behind one register, are not modelled.
The low byte of a word that is set is not promised: `writeWords`
(`I2Cdev.cpp:688`) sends the byte behind the word. No accessor of this kind is called
by the sketch. `getAuxVDDIOLevel()` answers 128 where its comment says 1: the
row is marked `raw`.

### PetitFat, BootLoader

The calls of `pff.c` only read, so they are operators on a medium: the card, the
type found at its initialization, and the set `bad` of what does not answer during
the call. A card is a function from sector numbers to what the sector holds; it is
built in `MCBootLoader` from a list of files, independently of the code that reads
it. Sector, directory, FAT entry and cluster numbers go through the code's own
arithmetic. A page of the flash does not cross a sector (`SectorSize % PageSize =
0`), so the loop of `pf_read()` is one pass.

In `BootLoader` a page is read, erased and written in three actions, so the power may
go between and inside them; a page or an EEPROM cell that is hit holds anything. The
program that is started is `Setup`/`SetupHigh`: it writes its version, a word, low byte
first. A mixture of programs may write the version of any of them, or hang.
The word the boot loader reads is the one the sketch writes: `(const uint16_t *)E2END -
1` is two bytes below `E2END`.

Two things the properties leave out are real: after a sector that failed in the middle
of an update (`disturbed`) the mixture is started, and if it then writes the new
version it is never repaired; and a card with both a newer numbered file and
`OSMFIRMW.BIN` (`OneKind`) has the two programmed in turn at every start.
`CardsAreSound` at the end of `BootLoader` is what the proof supposes of the cards; it is
about constants only, and TLC evaluates it for the cards of the run
(`CardsAreAsSupposed`).
`avr_boot-master/README.md` gives 12 as the version of an erased EEPROM; the code
takes 9, so that files 10 to 19 are tried.

## 3. Runs

| Run | Shows |
|---|---|
| `hardware_serial` | `InOrder`, `AvailableIsKept`, the inductive `RingInv`, refinement of `SerialQueue` (`IsQueue`), `EveryCharIsRead` |
| `logger` | `TypeOK`, `HandleInv`, `FlushedEveryMinute`, `FileSpansAnHour`, `StartsWithHeader`, `EndsWithStop`, `ShutdownKeepsRecords`, `ResumesSoon`, `FinishedIsFinal`, `TurnEnds` |
| `logger_hour_wrap` | violated: the header's new file "every hour". `fileCount` is a byte |
| `logger_minute_wrap` | violated: flushed "once a minute". The minute is a byte |
| `logger_names` | violated: "only open a new file if it doesn't exist". `flushFile()` opens the name the search left behind |
| `framing` | `FileHoldsTheLines`, `FileHoldsTheDatagrams`: the file is what the reference says of the characters that came; `LibrariesAreExact`: heap, strings, printing and parsing, ports in software |
| `config` | `OpenedAsConfigured`, `RestartKeepsSettings`, `ChosenOrErased`, `StartEnds` |
| `config_baud` | violated: "6 = 38400 Baud (only NMEA A)". `getParameters()` accepts the code, `initSerials()` opens no port for it |
| `alt_soft_serial` | `FramesAssembled`, refinement of `SerialQueue` (`IsQueue`), `SentInOrder` for both transmitters, `NothingWaits` (what comes is handled, what is written gets out) |
| `sd_file` | `SavedIsKept`, `VolumeSound` with two faults at any block; `CallsAreExact` (calls against `FileTree`; streams), `BlocksAreExact` (driver), `FormattedIsMounted` |
| `gyro` | `FieldsAreExact` for every accessor, `WritesStayInPlace` whatever fails, `EveryCallReturns` |
| `boot_loader` | `StartedIsWhole` wherever the power is cut, `BecomesUpToDate` (liveness over restarts) |

Every property of a passing run has a mutant in `PROJECT.json`: a plausible bug
of the mapped code under which TLC finds the property violated.

### Bounds

`hardware_serial`: a ring of 3 slots (one always free), 2 bits per byte of the
ninth-bit array so that the slots spread over two bytes, a FIFO of 1, two data
bytes with and without ninth bit and parity error, 4 characters handled by the
interrupt: enough to fill the ring, drop one, and go round it. The proofs
remove the bounds.

`logger`: an hour of 8 ticks and a minute of 3, housekeeping every other tick (`Second =
1`: the comparison is strict), so that the minute and the hour fall between and onto
housekeeping, and the hour is well beyond the minute: where a file was opened from the
cache, the limit of the minute is passed. 12 ticks reach into the second hour, with a
second file and its flush; 4 numbers and 3 root entries, so that the directory and the
numbers run out, two of the numbers in the first block of the directory (16 in the
code); any 2 disturbances, so that one can hit the recovery from the other; a cap of 2
ticks; the bytes and words are so wide that they do not overrun within the run
(`CountersFit` holds, so that `TimesMatch` says something). One data record: the first
one is interchangeable with any other. `CHECK_DEADLOCK FALSE`: the bound on the clock
stops the system.

The violation runs shrink the byte that overruns (`ByteMod` 2 or 3) or the range
of names (2). The real figures are 256 hours, 256 minutes and 9999 names.
`logger_hour_wrap` has no disturbance at all. With `ByteMod = 8` it passes;
with one disturbance more and `ByteMod = 8` it is violated in another way: after
hours in the shutdown branch the hours are caught up with one new file a second.

`framing`: a buffer of 5, so that a line overruns it within the 7 steps and a
datagram of 3 or 4 fits, as the longest real one (18) fits the real buffer (80); two
changes of the data file, so that it is closed and opened again within a line.
A heap of 16 bytes of which the stack may take two, with three callers, is exhausted,
fragmented and joined again; the lengths 62 and 63 come round in the word of 64. Two
strings of up to three characters on 12 bytes: some operations find room, some not, some
only for their first part. Parsers: two calls (`ParseCalls`) on all
inputs of up to four characters with a pause anywhere. `SoftwareSerial`: two ports, one of
them inverse, two data bits, a ring of two slots (one always free), an interrupt up to a
third of a bit late, and three frames or calls (`SerialEvents`), which may overlap.

`config`: three forms that differ in every parameter, five files of no form, two bytes
of vessel number, and 4 events, enough for a cut, a new card, a cut in the start from
it and a pulled card. Codes and characters are the real ones.

`alt_soft_serial`: frames of two data bits give every pattern of edges (a frame that
ends with or without one), 3 frames fill a ring of 2 slots, and the timer wraps. The
same for what is sent on port B; on port A four characters through a ring with one place.

`sd_file`: 3 clusters of 2 blocks of 2 units; FAT and directory in two blocks each, two
data files and `oseamlog.cnf`: files get interleaved chains, the card fills up, the
directory grows, and two faults can fall into one operation or into the recovery from
the first. Tree: 4 clusters, a root of 2 entries, names two deep, two calls (`MaxCalls`)
after each of four histories, and every call tried in the state they leave: root and card
are full, directories grow, nest and are moved. Driver: 3 blocks and one of each kind of
card; sequences are followed through all their states. Streams: three operations one
after the other (`StreamCalls`), over files of up to three characters with every mix of CR
and LF, over all number texts of three characters and the ends of both widths. Formatter:
the real sizes around every row of its tables, 144 sizes of SD cards and 36 of SDHC.

`gyro`: the real registers and buffer sizes; two patterns of register contents that are
complements, every accessor with few arguments, two operations, one fault.

`boot_loader`: FAT16 without and FAT32 with a partition table, clusters of one and two
sectors, out of order; a directory of two clusters, a deleted file, a label and a
directory with a firmware name; a board without a program and one with version 255,
whose successor has another high byte; versions at distance 10; any two power cuts,
failed transfers or changes of the card. The limits that tell FAT12, FAT16 and FAT32
apart are scaled down with the cards.

### Fairness

`HardwareSerial`: weak fairness of the interrupt (a pending one runs as soon as
interrupts are enabled), of the poll and of the steps of `read()` (`loop()` calls
`testSerialA()` in every turn). None on frames arriving, `begin` and `end`.
`Logger`: weak fairness of the program (the processor runs) and of `Tick` (time
passes). None on the card, the switch or the supply.
`Config`: weak fairness of the program. `AltSoftSerial`: of the timer and the line, both
interrupts and the reading in `loop()`. `SoftSender`, `UsartSender`: of time (the frames on
the line end), the interrupts, and a `write()` that waits; none on calls of `write()`,
`flush()` or `end()`. `Gyro`: of the next step as a whole: the
processor runs, and the two-wire hardware answers what it was told to do with some
status, as the data sheet says; which one is not restricted. `BootLoader`: of the boot
loader and the program (the processor runs), and of the user, who switches the logger
off and on again and again. `Framing` and `SdFile` have safety properties only.

## 4. Proofs

All theorems hold for all values of the constants that satisfy the named
assumptions (`SerialAssumption`, `LoggerAssumption`, `SoftSerialAssumption`, `ConfigAssumption`,
`FramingAssumption`, `SenderAssumption`, `UsartAssumption`, `PetitFatAssumption`,
`BootLoaderAssumption`, `SdCardAssumption`, `FormatterAssumption`), which TLC evaluates for the instances. They
give the constants their types and sizes; `LoggerAssumption` says besides that a minute is
no longer than an hour, `SoftSerialAssumption` what the latency
of the interrupts is (above), and `FramingAssumption` that every length a datagram can
announce is less than the buffer (18 and 80 in the code). A theorem that needs more says so in its statement.

* `HardwareSerialProofs`. `RingInv` is inductive: the two indices are the numbers
  of characters stored and read, modulo the size; the slots in between hold the
  characters that wait, bytes and ninth bits (`SlotsHoldWaiting`); the local `c` of
  `read()` is the next character; a head that `available()` has loaded is between
  the two counts. `InOrder` alone is not inductive: without `SlotsHoldWaiting`
  nothing says what `read()` will find. The key lemmas are `ModInj` (two counts
  less than a round apart have different positions, so the full test and the
  emptiness test are exact) and `NinthBitWritten` (writing one bit of a byte leaves
  the other positions alone). Theorems: `RingInvariant`, `DeliveryInOrder`,
  `AvailableKept`, `ImplementsQueue` (step simulation with the identity on the
  histories as refinement mapping).

* `LoggerProofs`, in four layers, each of which uses the ones before.
  `LoggerInv` (types and handle) is inductive: the type of `disk` needs that an open
  file has a name, and the handle needs the types. `NameIsFresh` carries
  `FinishedFilesKept`: at every place from which the program can write or reopen, the
  name it holds is not one of a finished file.
  `RecordsMatch` gives `HeadsOnCard` and `StopsOnCard`. The head is written in one
  piece, before anything can close the file, so that a file on the card is empty or
  has it. For the end one has to know every file that is neither in use nor ended:
  `PulledIsKnown` says that a file whose card is gone and that is open, or that the flush
  would find in the cache, has been counted as interrupted; `close()` then relies on it,
  because it writes nothing. What it needs of the cache is that writing adds no name to it
  (`WriteHeld`, `SyncHeld`) and that a pulled card leaves names of that card (`CutShortIs`).
  `ShutdownInTime` gives `RecordsSurviveShutdown`, for `CapTicks >= 2`: on the cap, a
  turn that goes on to write began before the first tick of the cap or of the file;
  the next turn sees the voltage. So no file is open for two ticks of both. With
  a cap of one tick it is false.
  `TimesMatch` gives `RecordsFlushedInTime`, `FilesSpanAnHour` and `RecordingResumes`,
  for `CountersFit` (`millis()` stays positive as a long, and the byte of the minute and
  the byte and word of the hour do not come round; without it `logger_minute_wrap` and
  `logger_hour_wrap` are counterexamples) and, for the last, a delay after a shutdown
  that is not empty. Three quantities have the same argument: what is outstanding,
  the file and the time without a recording are no older than the minute (hour) counted
  last; where the second was looked at, less than a minute (hour) older than that
  second; and a tick passes over an open file only where the second was looked at less
  than `Second` ago (`SecondIs`, `TickIs`). `NotIdle` lists the places
  where a usable logger cannot have been kept from recording. A file the flush has opened
  from the cache defeats the third of them: there the limit of `RecordingResumes` is the
  hour, and the argument is that of the file. `IdleByFile` says that the logger has not
  been idle longer than it has had its file, whose age `RotatesInTime` bounds. Both rest
  on `InFileBefore`: no step but the search brings a file into use.
  `HandleCorrect` is the invariant with all four layers.

* `ConfigProofs`. Two halves. The first is about the text: `DownloadIs` says where the
  line ends of a form's file are, `StrtoulReadsHex` that the vessel number is read as it
  was printed, `TakesInTurn` which character goes into which parameter. The second is the
  invariant `ConfigInv` over starts, cuts and pulled cards. `ReadUpTo` and `Agrees`
  follow the parser through the file; `Will` and `Saved` say that a cell holds a value or
  that a write of it is outstanding; `OnceEach`, that no cell has two. Theorems:
  `FormIsFollowed`, `SettingsAreKept`, `NothingUnchosen`; they hold for every set of forms
  and of other texts, with the exceptions the properties themselves name.

* `FramingProofs`. `FramingInv` is inductive. It says what each buffer holds below its
  index in terms of the characters that came: on an NMEA port (`LinesKept`) the text
  since the last end of a line, the index the number of its characters and the start
  time that of the first; on the SeaTalk port (`DatagramsKept`) what came since the last
  command, cut at the end of the buffer, and the length its second character announced.
  `FileHoldsTheLines` alone is not inductive: it knows nothing of the line under way.
  The lines are also cut where the buffer is full. The reference counts the text since
  the last line feed modulo the buffer, the code counts the index up, and `Collects`
  has both, for they agree only as long as every cut starts the index again. The proof
  adds one character at the end (`More`): the sets of positions grow by at most the new
  one (`EndsMore`, `FillsMore`, `CommandsMore`), nothing before it changes, and so a sequence in
  the order of positions grows by at most one element at its end (`InOrderAppend`, from
  the ranks of the positions). `LineStep` and `GathersStep` then compare the step of the
  code with that. Theorems: `FramingInvariant`, `LinesAreExact`, `DatagramsAreExact`, for
  every sequence of characters and every change of the data file.

* `PortProofs`, about the module `MCAltSoftSerial` and with its names. The receiver of
  port B: `FramesAssembled` is inductive with `Following`, which adds
  that the interrupts have not been late. A tick lets the line go
  on, and what is due grows with it (`CaptureBegins`, `CaptureGoesOn`, `LevelGoesOn`); an
  interrupt takes in as many bits as have ended since (`EdgeServed`,
  `CompareServed`). The timer comes round, so times are compared by their difference
  (`ClockInj`, `ClockAdd`, `ClockDiff` of `RingLemmas`); that a frame and a latency fit
  twice into it makes `Offset` exact. Theorems: `EveryFrameAssembled`,
  `ImplementsBoundedQueue`; and both for the composed module, `ReceiverInOrder`.
  The transmitter of port B: `SentInOrder` speaks of bytes that are through, and says
  nothing of the frame under way. `SenderInv` does. In the ring wait the last `w` bytes that were stored
  (`RingHolds`); the byte before them is in quarter `q` of its frame. The change of level
  that was asked for is the next one in that byte and still ahead, or its interrupt is
  waiting and not late by more than `MaxLatency`
  (`AskedFor`); what is left of the byte agrees with it (`BitsKept`); and the receiver is
  in the same quarter, or in the stop bit of the frame before (`Hears`). So an interrupt
  may come anywhere in its time: it counts from the compare value, not from the time it
  is. The steps of the proof are the quarter that passes (`FrameGoesOn`, `EndGoesOn`), the
  ways the interrupt ends (`FrameChanges`, `FrameIsLast`, `FrameIsFollowed`), and the
  calls of the sketch (`FrameIsFirst`). `SenderAssumption` is
  needed for two of them: a latency below a bit, so that the level that is asked for is
  never past, and a timer that is longer than a frame and a latency, so that a compare
  value stands for one moment.
  The transmitter of port A: the characters are in four places in
  the order they were written: sent, in the shift register, in the data register, in the
  ring. `FlagsTell` is the delicate part: between the steps of `write()` the flags are
  behind, and only because its frame is young can the character not have been sent
  before `write()` clears TXC. Theorems: `BytesSentInOrder`; `UsartInvariant`,
  `CharsSentInOrder`, `FlushIsAnswered`; and both together, `PortsSendInOrder`.

* `CardProofs`, about `SdDriver`. `BlocksAreExact` speaks of the calls that may come next,
  and needs what driver and card know of each other before them: `SdCard!CardInv`, which
  TLC checks with it. A card that was started has the kind the driver holds, so that both
  mean the same block by an address (`Known`); a card in a sequence is at the block the
  driver counts, unless it was busy for longer than it may be (`Sequence`); a card that
  was exchanged does nothing until `begin()` (`SoundCard`). The first part of the proof
  is about commands (`Answers`, `Commanded`): the card was not busy and obeyed (`Hears`); or
  the command failed and left the card as it was, or gone (`SameCard`, `Still`); or a card
  that was busy for too long is still so, and its zeros are taken for the answer. That last
  one is why the sequences and `erase()` need `slow`, while a single block does not: its
  `readData()` or `writeData()` finds the card busy. Then the calls one by one (`BlockRead`,
  `BlockWritten`, `Erasure`, `WriteStarted` with the blocks erased before, ...), each with
  its promise and the state it leaves (`LeavesInStep`), and `begin()` command by command
  (`Reset`, `Versions`, `Initializes`, `Capacities`): what it concludes from an answer is
  so of the card that gave it. `SizeOfCard` is the arithmetic of `cardSize()`, over all
  registers. Theorem: `DriverIsExact`, for every number and size of blocks, every erase
  sector and all cards of `CardModel`.

  The second half is about `Formatter`. All the sketch writes is a function of the type and
  the size of the card, so `FormatInv` says of each step what has been written by then
  (`AsLaidOut`), besides the ranges erased so far (`ErasedSoFar`) and that no usual card is
  refused (`Refusals`). What is left is arithmetic, for every size: a boundary fits among
  the first 66 (4 for FAT32), and the first that fits leaves room for the FATs; the number of
  clusters is between the limits at which the logger and the boot loader tell FAT16 from
  FAT32; the FAT size and the reserved sectors fit into 16 bits; the partition begins below
  cylinder 1024; cylinder, head and sector give the block number back (`Tracked`). From
  these, `Volume` and `pf_mount()` are followed through their conditions. The sizes are
  below 64 GB (`Below64GB`): above, the 16 bits of `cardCapacityMB` come round, and a card
  is laid out with the clusters of a small one or refused. Theorem: `EveryCardIsMounted`,
  from `FormatterAssumption`: a size is not 0 (`setup()` stops at 0), and an SDHC card has
  at least the 16 MB of four boundaries.

* `BootLoaderProofs`. `StartedIsWhole` alone says nothing of a flash with half a program.
  `LoaderInv` is inductive, and its point is `WillUpdate`: as long as nothing disturbed an
  update, a flash that is neither whole nor without a program comes from an update that
  was cut. Then the version in the EEPROM is still the one from before, for only a whole
  program writes it, and the card is the same, so the search from the beginning finds
  a file with a program and writes it to its end before it can reach `StartApplication`
  (`SearchIn`, `Writes`: the words below `fa` are those of the file that is open). A
  search that has already written one program may find an empty file or none
  afterwards; a card pulled in the search opens nothing more. The
  second half is `PageRead`: `pf_read()` from one page to the next along the clusters of
  a file, by the arithmetic of pages, sectors and clusters. Theorems: `LoaderInvariant`,
  `WholeProgramsStart`, for every size of the flash and all cards, under `CardsAreSound`:
  what opens under a firmware name is a file of that name whose words are in the sectors
  of its chain, and nothing opens once the card is out. The look-up in the directory is
  a recursive function, so it is in this hypothesis and not in the proof.

Only model-checked, and why:

* liveness (`EveryCharIsRead`, `TurnEnds`, `StartEnds`, `NothingWaits`,
  `EveryCallReturns`, `BecomesUpToDate`) is out of the reach of the proof system;
* `SdFile`, `SdTree`, `Strings`, `Streams` and `PrintStream` use recursive
  operators and `Gyro` bitwise ones, which the proof system cannot use either;
* what `dir_find()` of `PetitFat` finds, a recursive function (see `CardsAreSound`).

## 5. Not modelled

* LEDs, debugging output, the self test, the text of records and time stamps.
* `checkNMEAData()`: its answer lights an LED and nothing else.
* The SPI protocol of the card below commands and answers; of SdFat: FAT12 and FAT32 in
  the file system, wiping, read errors below a stream.
* The slave half of `twi.c` and the DMP memory blocks of `MPU6050.cpp` (2935-3119), which
  the sketch does not call.
* Subdirectories and the characters of names in `pff.c`.
* Of the Arduino core clock, pins, tone and USB; MCStools, MemoryFree, the
  sketches that test parts of the hardware, the
  pages of WebConfig around `config.php`.
* In `Logger`: a card that is replaced by another one, and a failing block (both are in
  `SdFile`, the first as an assumption); `sd.begin()` works whenever a card is there.

## 6. Plan

What is left, in this order.

1. `SdFile`'s `close()` and `sync()` as an abstract specification that `Logger` is
   stated over; FAT32 in `SdFile`.
2. A run of `Logger` across the wrap of the clock.
3. The DMP memory blocks in `Gyro`.
