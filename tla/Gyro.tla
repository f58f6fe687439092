-------------------------------- MODULE Gyro --------------------------------
(***************************************************************************)
(* The sensor as the sketch uses it: initGyro and writeGyroData            *)
(* (OpenSeaMap.ino), the accessors of class MPU6050 they are made of, and  *)
(* the register operations of I2Cdev below, down to the transfers on the   *)
(* bus (module TwoWire, class TwoWire of libraries/Wire).  Every other     *)
(* accessor of MPU6050.cpp is called once as well, and so are the register *)
(* operations on words that no accessor uses.                              *)
(*                                                                         *)
(* A call is a list of steps, each of which waits for the bus.  Nobody     *)
(* looks at what a step returns, but for writeBits; what is read when a    *)
(* transfer failed is whatever the buffer, or the stack, held before.      *)
(***************************************************************************)
EXTENDS TwoWire, MPU6050Registers, Bitwise, SequencesExt

CONSTANTS
  BUFFER_LENGTH,  \* of class TwoWire, 32 in the code
  Garbage,        \* what an uninitialized byte may hold
  FewAccesses     \* bound: rows of Accesses that an operation may be followed by

ASSUME GyroAssumption ==
  /\ BUFFER_LENGTH \in 1..TWI_BUFFER_LENGTH
  /\ Garbage \subseteq Byte /\ Garbage # {}
  /\ FewAccesses \subseteq Accesses

VARIABLES
  pc,         \* "idle", "between" calls of an operation, "step"
  operation, earlier,    \* the operation, and the one before it
  plan,       \* its calls that are still to be made
  call,       \* [row, arg], or NoCall
  todo,       \* steps of the call that are left
  started,    \* the first of them is on the bus
  rxBuffer,   \* bytes class TwoWire holds and read() has not returned
  data, late, \* bytes readBytes has delivered; its timeout has passed
  buffer,     \* buffer of the MPU6050 object
  answer, status,        \* of the call: its value, and writeByte's
  before, faultsBefore   \* history: registers and faults when the call began

client == <<pc, operation, earlier, plan, call, todo, started, rxBuffer, data,
            late, buffer, answer, status, before, faultsBefore>>
vars == <<wire, client>>

NoCall == [row |-> Row("none", "", 0, 0, Whole), arg |-> 0]
BufferIndex == 0..13

-----------------------------------------------------------------------------
(***************************************************************************)
(* I2Cdev: the masks, and the steps of each operation.                     *)
(***************************************************************************)
Words == {"word bit", "word bits"}
Top(place) == IF place.how \in Words THEN 65536 ELSE 256
Shift(place) == place.bit - place.length + 1
mask(place) == ((2^place.length - 1) * 2^Shift(place)) % Top(place)
Without(b, m, place) == b & (Top(place) - 1 - m)

\* readBit and readBits on the byte read, readBitW and readBitsW on the word.
Masked(b, place) == b & ((2^place.bit) % Top(place))
Extracted(b, place) == (b & mask(place)) \div 2^Shift(place)

\* writeBit and writeBits on the byte read, writeBitW and writeBitsW on the
\* word.
BitPut(b, place, value) ==
  IF value # 0 THEN b | ((2^place.bit) % Top(place))
  ELSE Without(b, (2^place.bit) % Top(place), place)
\* Mutant of BitsPut: the bits that were there are not cleared.
BitsAdded(b, place, value) ==
  b | (((value * 2^Shift(place)) % Top(place)) & mask(place))
BitsPut(b, place, value) ==
  Without(b, mask(place), place) | (((value * 2^Shift(place)) % Top(place)) & mask(place))

Transmit(bytes) == [do |-> "transmit", bytes |-> bytes, n |-> 0]
Request(n) == [do |-> "request", bytes |-> <<>>, n |-> n]
Take(n) == [do |-> "take", bytes |-> <<>>, n |-> n]
Modify == [do |-> "modify", bytes |-> <<>>, n |-> 0]

Smaller(a, b) == IF a < b THEN a ELSE b

\* The register's address is sent again for each chunk.
readBytes(regAddr, length) ==
  FlattenSeq([k \in 1..((length + BUFFER_LENGTH - 1) \div BUFFER_LENGTH) |->
    LET n == Smaller(length - (k - 1) * BUFFER_LENGTH, BUFFER_LENGTH)
    IN  <<Transmit(<<regAddr>>), Request(n), Take(length), Transmit(<<>>)>>])
writeBytes(regAddr, bytes) == <<Transmit(<<regAddr>> \o bytes)>>

\* writeWords sends the first byte of the word, and one from beyond it.
writeWord(regAddr, value, beyond) == writeBytes(regAddr, <<value \div 256, beyond>>)

ReadLength(place) ==
  IF place.how \in {"int16", "uint16", "copy"} THEN place.length
  ELSE IF place.how \in Words THEN 2 ELSE 1
Steps(c, beyond) ==
  LET reg == c.row.reg  place == c.row.place
  IN  CASE place.how = "refused" -> <<>>
        [] place.how # "refused" /\ c.row.kind = "get" ->
             readBytes(reg, ReadLength(place))
        [] c.row.kind = "set" /\ place.how = "whole" -> writeBytes(reg, <<c.arg>>)
        [] c.row.kind = "set" /\ place.how = "word" -> writeWord(reg, c.arg, beyond)
        [] OTHER -> readBytes(reg, ReadLength(place)) \o <<Modify>>

\* Operations on words, at a pair of registers that only hold a value.
WordPlaces == {Place("word bit", 9, 1, <<0>>), Place("word bit", 3, 1, <<0>>),
               Place("word bits", 15, 16, <<0>>), Place("word bits", 9, 4, <<0>>)}
WordAccesses ==
  {[Row(kind, place.how, 0, RA.FF_THR, place)
      EXCEPT !.args = IF kind = "get" THEN {0} ELSE {0, 1, 10}] :
    kind \in {"get", "set"}, place \in WordPlaces}

-----------------------------------------------------------------------------
(***************************************************************************)
(* Operations of the sketch.                                               *)
(***************************************************************************)
Called(kind, name, arg) ==
  [row |-> CHOOSE r \in Accesses : r.kind = kind /\ r.name = name, arg |-> arg]

initialize == << Called("set", "ClockSource", 1),         \* PLL_XGYRO
                 Called("set", "FullScaleGyroRange", 0),  \* GYRO_FS_250
                 Called("set", "FullScaleAccelRange", 0), \* ACCEL_FS_2
                 Called("set", "SleepEnabled", 0) >>

initGyro == initialize \o << Called("get", "DeviceID", 0),
                             Called("set", "FullScaleAccelRange", 0),
                             Called("set", "FullScaleGyroRange", 0) >>
writeGyroData == << Called("get", "Rotation", 0), Called("get", "Acceleration", 0) >>

OfTheSketch == {"initGyro", "writeGyroData"}
Plan(op) == CASE op = "initGyro" -> initGyro
              [] op = "writeGyroData" -> writeGyroData

\* testConnection: the last calls of initGyro are made for the right answer.
GoesOn == operation = "initGyro" /\ call.row.name = "DeviceID" => answer = <<52>>

-----------------------------------------------------------------------------
Init ==
  /\ WireInit
  /\ pc = "idle" /\ operation = "none" /\ earlier = "none"
  /\ plan = <<>> /\ call = NoCall /\ todo = <<>> /\ started = FALSE
  /\ rxBuffer = <<>> /\ data = <<>> /\ late = FALSE
  /\ buffer = [i \in BufferIndex |-> 0] /\ answer = <<>> /\ status = 0
  /\ before = device.registers /\ faultsBefore = 0

\* Bound: two operations, the first of them one of the sketch's.
Begins(op, calls) ==
  /\ pc = "idle" /\ pc' = "between"
  /\ operation' = op /\ earlier' = operation
  /\ plan' = calls /\ call' = NoCall

StartInitGyro ==   \* Wire.begin() comes first
  /\ operation \in OfTheSketch \cup {"none"} /\ earlier = "none"
  /\ Begins("initGyro", initGyro)
  /\ twi_init /\ rxBuffer' = <<>>
  /\ UNCHANGED <<hardware, device, faults, todo, started, data, late, buffer,
                 answer, status, before, faultsBefore>>

StartWriteGyroData ==
  /\ operation \in OfTheSketch \cup {"none"} /\ earlier = "none"
  /\ Begins("writeGyroData", writeGyroData)
  /\ UNCHANGED <<wire, todo, started, rxBuffer, data, late, buffer, answer, status,
                 before, faultsBefore>>

\* Bound: every access first, a few of them after another operation.
StartAccess ==
  /\ operation \in OfTheSketch \cup {"none"} /\ earlier = "none"
  /\ \E r \in (IF operation = "none" THEN Accesses \cup WordAccesses
                 ELSE FewAccesses) :
       \E arg \in r.args : Begins(r.name, <<[row |-> r, arg |-> arg]>>)
  /\ UNCHANGED <<wire, todo, started, rxBuffer, data, late, buffer, answer, status,
                 before, faultsBefore>>

StartCall ==
  /\ pc = "between" /\ plan # <<>> /\ GoesOn
  /\ pc' = "step"
  /\ call' = Head(plan) /\ plan' = Tail(plan)
  /\ \E beyond \in IF Head(plan).row.place.how = "word" THEN Garbage ELSE {0} :
       todo' = Steps(Head(plan), beyond)
  /\ data' = <<>> /\ late' = FALSE
  /\ answer' = <<>> /\ status' = 0
  /\ before' = device.registers /\ faultsBefore' = faults
  /\ UNCHANGED <<wire, operation, earlier, started, rxBuffer, buffer>>

EndOperation ==
  /\ pc = "between" /\ (plan = <<>> \/ ~GoesOn)
  /\ pc' = "idle"
  /\ plan' = <<>> /\ call' = NoCall /\ answer' = <<>> /\ status' = 0
  /\ data' = <<>> /\ late' = FALSE
  /\ UNCHANGED <<wire, operation, earlier, todo, started, rxBuffer, buffer, before,
                 faultsBefore>>

-----------------------------------------------------------------------------
(***************************************************************************)
(* Steps.  Each blocking call is two actions, with the bus in between.     *)
(***************************************************************************)
Doing(what) == pc = "step" /\ todo # <<>> /\ todo[1].do = what

StartStep ==
  /\ ~started /\ started' = TRUE
  /\ \/ Doing("transmit") /\ twi_writeTo(todo[1].bytes)
     \/ Doing("request") /\ twi_readFrom(todo[1].n)
  /\ UNCHANGED <<pc, operation, earlier, plan, call, todo, rxBuffer, data, late,
                 buffer, answer, status, before, faultsBefore>>

StepDone == todo' = Tail(todo) /\ started' = FALSE

endTransmission ==
  /\ Doing("transmit") /\ started /\ twi_state # "MTX"
  /\ status' = writeToReturns
  /\ StepDone
  /\ UNCHANGED <<wire, pc, operation, earlier, plan, call, rxBuffer, data, late,
                 buffer, answer, before, faultsBefore>>

requestFrom ==
  /\ Doing("request") /\ started /\ twi_state # "MRX"
  /\ rxBuffer' = readFromReturns(todo[1].n)
  /\ StepDone
  /\ UNCHANGED <<wire, pc, operation, earlier, plan, call, data, late, buffer, answer,
                 status, before, faultsBefore>>

\* The loop of readBytes takes what there is, or stops at its timeout.
TakeAll ==
  /\ Doing("take") /\ ~late
  /\ data' = data \o rxBuffer /\ rxBuffer' = <<>>
  /\ StepDone
  /\ UNCHANGED <<wire, pc, operation, earlier, plan, call, late, buffer, answer,
                 status, before, faultsBefore>>

TakeTimesOut ==
  /\ Doing("take")
  /\ IF late THEN UNCHANGED faults
     ELSE faults < MaxFaults /\ faults' = faults + 1
  /\ late' = TRUE
  /\ \E k \in (IF late THEN {0} ELSE 0..Len(rxBuffer)) :
       /\ data' = data \o SubSeq(rxBuffer, 1, k)
       /\ rxBuffer' = SubSeq(rxBuffer, k + 1, Len(rxBuffer))
  /\ StepDone
  /\ UNCHANGED <<driver, hardware, device, pc, operation, earlier, plan, call, buffer,
                 answer, status, before, faultsBefore>>

\* What readBytes returns.
count(length) == IF late /\ Len(data) < length THEN -1 ELSE Len(data)
Byte1 == IF data = <<>> THEN Garbage ELSE {data[1]}

\* What readWord returns and delivers: the high byte comes first, and is
\* stored with zeros behind it.
wordCount == IF late /\ Len(data) < 2 THEN -1 ELSE Len(data) \div 2
Word1 == IF data = <<>> THEN {g * 256 + h : g \in Garbage, h \in Garbage}
         ELSE {data[1] * 256 + IF Len(data) = 1 THEN 0 ELSE data[2]}

\* The second half of writeBit and writeBits.
ModifyByte ==
  /\ Doing("modify") /\ call.row.place.how \notin Words
  /\ LET place == call.row.place
         value == IF place.how = "not" THEN 1 - call.arg ELSE call.arg
     IN  IF place.how = "bits" /\ count(1) = 0 THEN todo' = <<>>
         ELSE \E b \in Byte1 :
                todo' = writeBytes(call.row.reg,
                          << IF place.how = "bits" THEN BitsPut(b, place, value)
                             ELSE BitPut(b, place, value) >>)
  /\ UNCHANGED <<wire, pc, operation, earlier, plan, call, started, rxBuffer, data,
                 late, buffer, answer, status, before, faultsBefore>>

\* The second half of writeBitW and writeBitsW.
ModifyWord ==
  /\ Doing("modify") /\ call.row.place.how \in Words
  /\ LET place == call.row.place
     IN  IF place.how = "word bits" /\ wordCount = 0 THEN todo' = <<>>
         ELSE \E w \in Word1, beyond \in Garbage :
                todo' = writeWord(call.row.reg,
                          IF place.how = "word bits" THEN BitsPut(w, place, call.arg)
                          ELSE BitPut(w, place, call.arg), beyond)
  /\ UNCHANGED <<wire, pc, operation, earlier, plan, call, started, rxBuffer, data,
                 late, buffer, answer, status, before, faultsBefore>>

\* buffer[0..], with what a read left in it.
Overlaid == [i \in BufferIndex |-> IF i < Len(data) THEN data[i + 1] ELSE buffer[i]]
Filled(place) ==
  CASE place.how \in {"bit", "raw", "not"} ->
         {[buffer EXCEPT ![0] = Masked(b, place)] : b \in Byte1}
    [] place.how = "bits" ->
         IF count(1) = 0 THEN {buffer}
         ELSE {[buffer EXCEPT ![0] = Extracted(b, place)] : b \in Byte1}
    [] place.how \in {"copy", "refused"} \cup Words -> {buffer}
    [] OTHER -> {Overlaid}

Truth(x) == IF x # 0 THEN 1 ELSE 0
Int16(w) == IF w < 32768 THEN w ELSE w - 65536
Answer(place, buf) ==
  LET Word(i) == buf[place.at[i]] * 256 + buf[place.at[i] + 1]
  IN  CASE place.how = "bit" -> << Truth(buf[0]) >>
        [] place.how = "not" -> << 1 - Truth(buf[0]) >>
        [] place.how = "int16" -> [i \in 1..Len(place.at) |-> Int16(Word(i))]
        [] place.how = "uint16" -> [i \in 1..Len(place.at) |-> Word(i)]
        [] place.how = "copy" -> data
        [] place.how = "refused" -> <<0>>
        [] OTHER -> << buf[0] >>

\* The caller's word; readBitsW leaves it alone if it has read nothing.
WordAnswers(place) ==
  IF place.how = "word bit" THEN {<< Masked(w, place) >> : w \in Word1}
  ELSE IF wordCount = 0 THEN {<<>>}
  ELSE {<< Extracted(w, place) >> : w \in Word1}

Return ==
  /\ pc = "step" /\ todo = <<>> /\ pc' = "between"
  /\ IF call.row.kind = "get"
     THEN /\ buffer' \in Filled(call.row.place)
          /\ answer' \in IF call.row.place.how \in Words THEN WordAnswers(call.row.place)
                        ELSE {Answer(call.row.place, buffer')}
     ELSE UNCHANGED <<buffer, answer>>
  /\ UNCHANGED <<wire, operation, earlier, plan, call, todo, started, rxBuffer, data,
                 late, status, before, faultsBefore>>

Program == StartInitGyro \/ StartWriteGyroData \/ StartAccess \/ StartCall
           \/ EndOperation \/ StartStep \/ endTransmission \/ requestFrom \/ TakeAll
           \/ TakeTimesOut \/ ModifyByte \/ ModifyWord \/ Return

Next == \/ (TWI_vect \/ Bus) /\ UNCHANGED client
        \/ Program

Fairness == WF_vars(Next)
Spec == Init /\ [][Next]_vars /\ Fairness

-----------------------------------------------------------------------------
TypeOK ==
  /\ WireTypeOK
  /\ pc \in {"idle", "between", "step"}
  /\ Len(rxBuffer) <= BUFFER_LENGTH /\ rxBuffer \in Seq(Byte)
  /\ data \in Seq(Byte) /\ (call # NoCall => Len(data) <= ReadLength(call.row.place))
  /\ buffer \in [BufferIndex -> Byte]
  /\ status \in 0..4 /\ late \in BOOLEAN /\ started \in BOOLEAN

Returned == pc = "between" /\ call # NoCall
Undisturbed == device.present /\ faults = faultsBefore

\* A field of a byte by arithmetic, without masks.
Field(v, place) == (v \div 2^Shift(place)) % 2^place.length
With(v, place, x) ==
  v + ((x % 2^place.length) - Field(v, place)) * 2^Shift(place)
WordAt(r) == before[r] * 256 + before[r + 1]

SetExactly(reg, place, arg) ==
  CASE place.how = "refused" -> device.registers = before
    [] place.how = "word" ->
         \E low \in Byte : device.registers =
                             [before EXCEPT ![reg] = arg \div 256, ![reg + 1] = low]
    [] place.how \in Words ->
         \E low \in Byte : device.registers =
           [before EXCEPT ![reg] = With(WordAt(reg), place,
                                        IF place.how = "word bit" /\ arg # 0 THEN 1 ELSE arg) \div 256,
                          ![reg + 1] = low]
    [] OTHER ->
         device.registers =
           [before EXCEPT ![reg] = With(@, place, IF place.how = "not" THEN 1 - arg ELSE arg)]

GotExactly(reg, place) ==
  /\ device.registers = before
  /\ CASE place.how = "refused" -> answer = <<0>>
       [] place.how = "raw" -> (answer[1] # 0) = (Field(before[reg], place) = 1)
       [] place.how = "word bit" ->
            (answer[1] # 0) = (Field(WordAt(reg), place) = 1)
       [] place.how = "word bits" -> answer = <<Field(WordAt(reg), place)>>
       [] place.how = "not" -> answer = <<1 - Field(before[reg], place)>>
       [] place.how = "copy" -> answer = [i \in 1..place.length |-> before[reg]]
       [] place.how \in {"int16", "uint16"} ->
            /\ Len(answer) = Len(place.at)
            /\ \A i \in DOMAIN answer :
                 /\ (answer[i] % 65536) = WordAt(reg + place.at[i])
                 /\ answer[i] \in IF place.how = "int16" THEN -32768..32767 ELSE 0..65535
       [] OTHER -> answer = <<Field(before[reg], place)>>

\* A call during which the bus did not fail sets its own field, to its
\* argument cut to the field's width, and no other bit of the sensor; or it
\* answers what the sensor's registers hold and changes none.  This is so
\* whatever failed in earlier calls and whatever they left in the buffers.
\* The low byte of a word that is set is not promised: writeWords takes it
\* from behind the word (I2Cdev.cpp:688).
FieldsAreExact ==
  Returned /\ Undisturbed =>
    IF call.row.kind = "set" THEN SetExactly(call.row.reg, call.row.place, call.arg)
    ELSE GotExactly(call.row.reg, call.row.place)

\* Whatever fails, and whatever the stack held: only a setter changes a
\* register, and only its own; and a register written as a whole holds the
\* new value if the bus reported no error, the old one if it did.  No buffer
\* overflows (TypeOK).
WritesStayInPlace ==
  /\ TypeOK
  /\ call # NoCall =>
    LET own == IF call.row.kind = "get" THEN {}
               ELSE {call.row.reg} \cup
                    (IF call.row.place.how \in Words \cup {"word"} THEN {call.row.reg + 1} ELSE {})
    IN  /\ device.registers # before =>
             \A r \in Byte : device.registers[r] # before[r] => r \in own
        /\ Returned /\ call.row.kind = "set" /\ call.row.place.how = "whole" =>
             device.registers[call.row.reg] =
               IF status = 0 THEN call.arg ELSE before[call.row.reg]

\* Every operation comes to its end: each wait of twi.c for twi_state is
\* ended by the interrupt routine, whatever the bus answers, provided that
\* it answers (none of the waits has a timeout).
EveryCallReturns == pc # "idle" ~> pc = "idle"
=============================================================================
