------------------------------ MODULE TwoWire ------------------------------
(***************************************************************************)
(* The two-wire bus as a master: the interrupt routine and the blocking    *)
(* calls of libraries/Wire/utility/twi.c.  A call starts a transfer and    *)
(* waits until the interrupt routine has put twi_state back; the routine   *)
(* is driven by the status codes of the two-wire hardware.  Every transfer *)
(* ends with a stop (twi_sendStop is always true) and the processor is     *)
(* never a slave, as the logger calls Wire.begin() without an address.     *)
(*                                                                         *)
(* External: the two-wire hardware, the wires, and the sensor behind them, *)
(* a memory of bytes with a pointer that each transfer moves on.  A board  *)
(* may have no sensor.  A fault is a byte that is not acknowledged, a bus  *)
(* error or a lost arbitration.                                            *)
(***************************************************************************)
EXTENDS Integers, Sequences

CONSTANTS
  TWI_BUFFER_LENGTH,  \* 32 in the code
  PowerOn,            \* what the sensor's registers may hold at the start
  NoAdvance,          \* registers the sensor's pointer stays at
  MaxFaults           \* bound

Byte == 0..255
devAddr == 104        \* MPU6050_ADDRESS_AD0_LOW
TW_WRITE == 0
TW_READ == 1

ASSUME TwoWireAssumption ==
  /\ TWI_BUFFER_LENGTH \in Nat \ {0}
  /\ PowerOn \subseteq [Byte -> Byte]
  /\ NoAdvance \subseteq Byte
  /\ MaxFaults \in Nat

VARIABLES
  twi_state, twi_error, twi_slarw,
  twi_masterBuffer,                    \* its first bytes, those in use
  twi_masterBufferIndex, twi_masterBufferLength,
  TWCR,     \* what the hardware was told to do: "START", "ACK", "NACK"
  TWSR,     \* the status the interrupt is raised for; None: no interrupt
  TWDR,
  bus,      \* phase of the transfer on the wires
  device,   \* [present, mode, pointer, registers]
  faults

driver == <<twi_state, twi_error, twi_slarw, twi_masterBuffer,
            twi_masterBufferIndex, twi_masterBufferLength>>
hardware == <<TWCR, TWSR, TWDR, bus>>
wire == <<driver, hardware, device, faults>>

None == "none"
NoError == "0xFF"
MT_Acks == {"MT_SLA_ACK", "MT_DATA_ACK"}
MT_Nacks == {"MT_SLA_NACK", "MT_DATA_NACK"}
Status == MT_Acks \cup MT_Nacks \cup
          {None, "START", "MR_SLA_ACK", "MR_SLA_NACK", "MR_DATA_ACK",
           "MR_DATA_NACK", "ARB_LOST", "BUS_ERROR"}

WireInit ==
  /\ twi_state = "READY" /\ twi_error = NoError /\ twi_slarw = 0
  /\ twi_masterBuffer = <<>>
  /\ twi_masterBufferIndex = 0 /\ twi_masterBufferLength = 0
  /\ TWCR = None /\ TWSR = None /\ TWDR = 0 /\ bus = "idle"
  /\ device \in [present : BOOLEAN, mode : {"idle"}, pointer : {0},
                 registers : PowerOn]
  /\ faults = 0

WireTypeOK ==
  /\ twi_state \in {"READY", "MTX", "MRX"}
  /\ twi_error \in Status \cup {NoError}
  /\ twi_slarw \in Byte /\ TWDR \in Byte
  /\ twi_masterBuffer \in Seq(Byte)
  /\ Len(twi_masterBuffer) <= TWI_BUFFER_LENGTH
  /\ twi_masterBufferIndex \in 0..Len(twi_masterBuffer)
  /\ twi_masterBufferLength \in 0..TWI_BUFFER_LENGTH
  /\ TWCR \in {None, "START", "ACK", "NACK"} /\ TWSR \in Status
  /\ bus \in {"idle", "address", "MT", "MR"}
  /\ device.mode \in {"idle", "pointer", "write", "read"}
  /\ device.pointer \in Byte /\ device.registers \in [Byte -> Byte]
  /\ faults \in 0..MaxFaults

-----------------------------------------------------------------------------
(***************************************************************************)
(* The blocking calls: their part before the wait, and what they return.   *)
(***************************************************************************)
StartTransfer(state, rw, data, length) ==
  /\ twi_state = "READY"
  /\ twi_state' = state /\ twi_error' = NoError
  /\ twi_slarw' = devAddr * 2 + rw
  /\ twi_masterBuffer' = data
  /\ twi_masterBufferIndex' = 0 /\ twi_masterBufferLength' = length
  /\ TWCR' = "START"
  /\ UNCHANGED <<TWSR, TWDR, bus, device, faults>>

twi_writeTo(data) == StartTransfer("MTX", TW_WRITE, data, Len(data))

\* The length is one less: the NACK is set up a byte ahead.
twi_readFrom(length) == StartTransfer("MRX", TW_READ, <<>>, length - 1)

writeToReturns ==
  CASE twi_error = NoError -> 0
    [] twi_error = "MT_SLA_NACK" -> 2
    [] twi_error = "MT_DATA_NACK" -> 3
    [] OTHER -> 4

readFromReturns(length) ==
  SubSeq(twi_masterBuffer, 1,
         IF twi_masterBufferIndex < length THEN twi_masterBufferIndex ELSE length)

twi_init ==
  /\ twi_state' = "READY"
  /\ UNCHANGED <<twi_error, twi_slarw, twi_masterBuffer, twi_masterBufferIndex,
                 twi_masterBufferLength>>

-----------------------------------------------------------------------------
(***************************************************************************)
(* The interrupt routine: one action per status.                           *)
(***************************************************************************)
twi_reply(ack) == TWCR' = IF ack THEN "ACK" ELSE "NACK"

\* The stop frees the bus, and the sensor waits to be addressed again.
twi_stop ==
  /\ TWCR' = None /\ bus' = "idle"
  /\ device' = [device EXCEPT !.mode = "idle"]
  /\ twi_state' = "READY"

twi_releaseBus == TWCR' = None /\ twi_state' = "READY"

Interrupt(status) == TWSR \in status /\ TWSR' = None

SentStart ==
  /\ Interrupt({"START"})
  /\ TWDR' = twi_slarw
  /\ twi_reply(TRUE)
  /\ UNCHANGED <<driver, bus, device, faults>>

SendsNext ==
  /\ Interrupt(MT_Acks)
  /\ twi_masterBufferIndex < twi_masterBufferLength
  /\ TWDR' = twi_masterBuffer[twi_masterBufferIndex + 1]
  /\ twi_masterBufferIndex' = twi_masterBufferIndex + 1
  /\ twi_reply(TRUE)
  /\ UNCHANGED <<twi_state, twi_error, twi_slarw, twi_masterBuffer,
                 twi_masterBufferLength, bus, device, faults>>

SentAll ==
  /\ Interrupt(MT_Acks)
  /\ twi_masterBufferIndex >= twi_masterBufferLength
  /\ twi_stop
  /\ UNCHANGED <<twi_error, twi_slarw, twi_masterBuffer, twi_masterBufferIndex,
                 twi_masterBufferLength, TWDR, faults>>

\* Mutant of NotTaken: the error is not kept.
NotTakenForgotten ==
  /\ Interrupt(MT_Nacks \cup {"MR_SLA_NACK", "BUS_ERROR"})
  /\ twi_stop
  /\ UNCHANGED <<twi_error, twi_slarw, twi_masterBuffer, twi_masterBufferIndex,
                 twi_masterBufferLength, TWDR, faults>>

NotTaken ==
  /\ Interrupt(MT_Nacks \cup {"MR_SLA_NACK", "BUS_ERROR"})
  /\ twi_error' = IF TWSR = "MR_SLA_NACK" THEN twi_error ELSE TWSR
  /\ twi_stop
  /\ UNCHANGED <<twi_slarw, twi_masterBuffer, twi_masterBufferIndex,
                 twi_masterBufferLength, TWDR, faults>>

\* Mutant of ArbitrationLost: the routine does not release the bus.
ArbitrationLostForGood ==
  /\ Interrupt({"ARB_LOST"})
  /\ twi_error' = "ARB_LOST" /\ TWCR' = None
  /\ UNCHANGED <<twi_state, twi_slarw, twi_masterBuffer, twi_masterBufferIndex,
                 twi_masterBufferLength, TWDR, bus, device, faults>>

ArbitrationLost ==
  /\ Interrupt({"ARB_LOST"})
  /\ twi_error' = "ARB_LOST"
  /\ twi_releaseBus
  /\ UNCHANGED <<twi_slarw, twi_masterBuffer, twi_masterBufferIndex,
                 twi_masterBufferLength, TWDR, bus, device, faults>>

Stored == /\ twi_masterBuffer' = Append(twi_masterBuffer, TWDR)
          /\ twi_masterBufferIndex' = twi_masterBufferIndex + 1

\* The case of a byte falls through to that of the address.
Receives ==
  /\ Interrupt({"MR_DATA_ACK", "MR_SLA_ACK"})
  /\ IF TWSR = "MR_DATA_ACK" THEN Stored
     ELSE UNCHANGED <<twi_masterBuffer, twi_masterBufferIndex>>
  /\ twi_reply(twi_masterBufferIndex' < twi_masterBufferLength)
  /\ UNCHANGED <<twi_state, twi_error, twi_slarw, twi_masterBufferLength, TWDR,
                 bus, device, faults>>

ReceivesLast ==
  /\ Interrupt({"MR_DATA_NACK"})
  /\ Stored
  /\ twi_stop
  /\ UNCHANGED <<twi_error, twi_slarw, twi_masterBufferLength, TWDR, faults>>

TWI_vect == \/ SentStart \/ SendsNext \/ SentAll \/ NotTaken \/ ArbitrationLost
            \/ Receives \/ ReceivesLast

-----------------------------------------------------------------------------
(***************************************************************************)
(* External: hardware, wires and sensor.                                   *)
(***************************************************************************)
Raises(status) == TWCR' = None /\ TWSR' = status

BusStarts ==
  /\ TWCR = "START"
  /\ bus' = "address"
  /\ Raises("START")
  /\ UNCHANGED <<driver, TWDR, device, faults>>

Reading == TWDR % 2 = TW_READ

BusAddresses ==
  /\ TWCR # None /\ bus = "address"
  /\ bus' = IF Reading THEN "MR" ELSE "MT"
  /\ IF device.present
     THEN /\ device' = [device EXCEPT !.mode = IF Reading THEN "read" ELSE "pointer"]
          /\ Raises(IF Reading THEN "MR_SLA_ACK" ELSE "MT_SLA_ACK")
     ELSE /\ Raises(IF Reading THEN "MR_SLA_NACK" ELSE "MT_SLA_NACK")
          /\ UNCHANGED device
  /\ UNCHANGED <<driver, TWDR, faults>>

Advanced(p) == IF p \in NoAdvance THEN p ELSE (p + 1) % 256

\* The first byte is the register's address, the others go to the registers.
BusSends ==
  /\ TWCR # None /\ bus = "MT"
  /\ device' = IF device.mode = "pointer"
               THEN [device EXCEPT !.mode = "write", !.pointer = TWDR]
               ELSE [device EXCEPT !.registers[device.pointer] = TWDR,
                                   !.pointer = Advanced(@)]
  /\ Raises("MT_DATA_ACK")
  /\ UNCHANGED <<driver, TWDR, bus, faults>>

BusReceives ==
  /\ TWCR # None /\ bus = "MR"
  /\ TWDR' = device.registers[device.pointer]
  /\ device' = [device EXCEPT !.pointer = Advanced(@)]
  /\ Raises(IF TWCR = "ACK" THEN "MR_DATA_ACK" ELSE "MR_DATA_NACK")
  /\ UNCHANGED <<driver, bus, faults>>

NotAcknowledged ==
  IF bus = "MT" THEN "MT_DATA_NACK"
  ELSE IF Reading THEN "MR_SLA_NACK" ELSE "MT_SLA_NACK"

\* The bus is idle after an error, the other master's after an arbitration.
BusFails ==
  /\ TWCR # None /\ device.present
  /\ faults < MaxFaults /\ faults' = faults + 1
  /\ \/ bus \in {"address", "MT"} /\ Raises(NotAcknowledged) /\ UNCHANGED <<bus, device>>
     \/ /\ Raises("BUS_ERROR") \/ Raises("ARB_LOST")
        /\ bus' = "idle" /\ device' = [device EXCEPT !.mode = "idle"]
  /\ UNCHANGED <<driver, TWDR>>

Bus == BusStarts \/ BusAddresses \/ BusSends \/ BusReceives \/ BusFails
=============================================================================
