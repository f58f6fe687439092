-------------------------- MODULE MPU6050Registers --------------------------
(***************************************************************************)
(* The accessors of class MPU6050 (libraries/MPU6050): for each one the    *)
(* register it reads or writes and the place of its field in it.  The      *)
(* register addresses and the bits are those of MPU6050.h, the rows those  *)
(* of MPU6050.cpp.  The module holds data only: what an access does on the *)
(* bus is in module Gyro.                                                  *)
(***************************************************************************)
EXTENDS Integers, TLC

(***************************************************************************)
(* Places.  "bit" and "bits" are read and written through a mask (readBit, *)
(* readBits, writeBit, writeBits), "raw" is a bit that its getter returns  *)
(* where it stands, "not" a bit with the opposite sense; "whole" is a      *)
(* register, "word" a pair of registers, "copy" bytes for the caller.      *)
(***************************************************************************)
Place(how, bit, length, at) ==
  [how |-> how, bit |-> bit, length |-> length, at |-> at]
Bit(n) == Place("bit", n, 1, <<>>)
Bits(n, length) == Place("bits", n, length, <<>>)
Whole == Place("whole", 7, 8, <<>>)
Raw(place) == [place EXCEPT !.how = "raw"]
Inverted(place) == [place EXCEPT !.how = "not"]

\* Arguments that setters are called with, whole ranges being too many.
Arguments(how) ==
  CASE how \in {"bit", "raw", "not"} -> {0, 1}
    [] how \in {"bits", "whole"} -> {0, 5, 255}
    [] how = "word" -> {258, 65280}
    [] OTHER -> {0}
Positions == {0, 20}
FIFOLengths == {2, 33}      \* within a chunk of BUFFER_LENGTH, and over it

(***************************************************************************)
(* Rows.  num is the slave's number, 0 for accessors without one.          *)
(***************************************************************************)
Row(kind, name, num, reg, place) ==
  [kind |-> kind, name |-> name, num |-> num, reg |-> reg, place |-> place,
   args |-> IF kind = "set" THEN Arguments(place.how) ELSE {0}]
Access(kind, name, num, reg, place) == {Row(kind, name, num, reg, place)}
Get(name, reg, place) == Access("get", name, 0, reg, place)
Set(name, reg, place) == Access("set", name, 0, reg, place)
Both(name, num, reg, place) ==
  UNION {Access(kind, name, num, reg, place) : kind \in {"get", "set"}}
GetSet(name, reg, place) == Both(name, 0, reg, place)
Command(name, reg, place) ==
  {[Row("set", name, 0, reg, place) EXCEPT !.args = {1}]}
Signed(name, reg, length, at) ==
  Get(name, reg, Place("int16", 7, length, at))
Unsigned(name, reg, length, at) ==
  Get(name, reg, Place("uint16", 7, length, at))
Copy(name, reg, length) == Get(name, reg, Place("copy", 7, length, <<>>))
SetWord(name, reg) == Set(name, reg, Place("word", 7, 2, <<0>>))

\* num > 3: the accessor returns before it reaches the bus.
Refused(kind, name, num) ==
  Access(kind, name, num, 0, Place("refused", 0, 0, <<>>))
GetSetSlave(name, reg, step, place) ==
  UNION {Both(name, num, reg + num * step, place) : num \in 0..3}
    \cup Refused("get", name, 4) \cup Refused("set", name, 4)
SetSlave(name, reg, step, place) ==
  UNION {Access("set", name, num, reg + num * step, place) : num \in 0..3}
    \cup Refused("set", name, 4)

\* The byte setMemoryBank writes.
MemoryBank(bank, prefetchEnabled, userBank) ==
  (bank % 32) + (IF userBank THEN 32 ELSE 0)
    + (IF prefetchEnabled THEN 64 ELSE 0)
MemoryBankArguments ==
  {MemoryBank(bank, p, u) : bank \in {3, 40}, p \in BOOLEAN, u \in BOOLEAN}

\* MPU6050_RA_*; EXT_SENS_DATA_01 to _23 follow EXT_SENS_DATA_00.
RA ==
  [XG_OFFS_TC |-> 0, YG_OFFS_TC |-> 1, ZG_OFFS_TC |-> 2, X_FINE_GAIN |-> 3,
   Y_FINE_GAIN |-> 4, Z_FINE_GAIN |-> 5, XA_OFFS_H |-> 6, XA_OFFS_L_TC |-> 7,
   YA_OFFS_H |-> 8, YA_OFFS_L_TC |-> 9, ZA_OFFS_H |-> 10, ZA_OFFS_L_TC |-> 11,
   XG_OFFS_USRH |-> 19, XG_OFFS_USRL |-> 20, YG_OFFS_USRH |-> 21,
   YG_OFFS_USRL |-> 22, ZG_OFFS_USRH |-> 23, ZG_OFFS_USRL |-> 24,
   SMPLRT_DIV |-> 25, CONFIG |-> 26, GYRO_CONFIG |-> 27, ACCEL_CONFIG |-> 28,
   FF_THR |-> 29, FF_DUR |-> 30, MOT_THR |-> 31, MOT_DUR |-> 32,
   ZRMOT_THR |-> 33, ZRMOT_DUR |-> 34, FIFO_EN |-> 35, I2C_MST_CTRL |-> 36,
   I2C_SLV0_ADDR |-> 37, I2C_SLV0_REG |-> 38, I2C_SLV0_CTRL |-> 39,
   I2C_SLV1_ADDR |-> 40, I2C_SLV1_REG |-> 41, I2C_SLV1_CTRL |-> 42,
   I2C_SLV2_ADDR |-> 43, I2C_SLV2_REG |-> 44, I2C_SLV2_CTRL |-> 45,
   I2C_SLV3_ADDR |-> 46, I2C_SLV3_REG |-> 47, I2C_SLV3_CTRL |-> 48,
   I2C_SLV4_ADDR |-> 49, I2C_SLV4_REG |-> 50, I2C_SLV4_DO |-> 51,
   I2C_SLV4_CTRL |-> 52, I2C_SLV4_DI |-> 53, I2C_MST_STATUS |-> 54,
   INT_PIN_CFG |-> 55, INT_ENABLE |-> 56, DMP_INT_STATUS |-> 57,
   INT_STATUS |-> 58, ACCEL_XOUT_H |-> 59, ACCEL_XOUT_L |-> 60,
   ACCEL_YOUT_H |-> 61, ACCEL_YOUT_L |-> 62, ACCEL_ZOUT_H |-> 63,
   ACCEL_ZOUT_L |-> 64, TEMP_OUT_H |-> 65, TEMP_OUT_L |-> 66,
   GYRO_XOUT_H |-> 67, GYRO_XOUT_L |-> 68, GYRO_YOUT_H |-> 69,
   GYRO_YOUT_L |-> 70, GYRO_ZOUT_H |-> 71, GYRO_ZOUT_L |-> 72,
   EXT_SENS_DATA_00 |-> 73, MOT_DETECT_STATUS |-> 97, I2C_SLV0_DO |-> 99,
   I2C_SLV1_DO |-> 100, I2C_SLV2_DO |-> 101, I2C_SLV3_DO |-> 102,
   I2C_MST_DELAY_CTRL |-> 103, SIGNAL_PATH_RESET |-> 104,
   MOT_DETECT_CTRL |-> 105, USER_CTRL |-> 106, PWR_MGMT_1 |-> 107,
   PWR_MGMT_2 |-> 108, BANK_SEL |-> 109, MEM_START_ADDR |-> 110,
   MEM_R_W |-> 111, DMP_CFG_1 |-> 112, DMP_CFG_2 |-> 113, FIFO_COUNTH |-> 114,
   FIFO_COUNTL |-> 115, FIFO_R_W |-> 116, WHO_AM_I |-> 117]

\* MPU6050_*_BIT and MPU6050_*_LENGTH, of the registers up to INT_PIN_CFG.
FieldsUpToPins ==
  [TC_PWR_MODE |-> Bit(7), TC_OFFSET |-> Bits(6, 6), TC_OTP_BNK_VLD |-> Bit(0),
   CFG_EXT_SYNC_SET |-> Bits(5, 3), CFG_DLPF_CFG |-> Bits(2, 3),
   GCONFIG_FS_SEL |-> Bits(4, 2), ACONFIG_XA_ST |-> Bit(7),
   ACONFIG_YA_ST |-> Bit(6), ACONFIG_ZA_ST |-> Bit(5),
   ACONFIG_AFS_SEL |-> Bits(4, 2), ACONFIG_ACCEL_HPF |-> Bits(2, 3),
   TEMP_FIFO_EN |-> Bit(7), XG_FIFO_EN |-> Bit(6), YG_FIFO_EN |-> Bit(5),
   ZG_FIFO_EN |-> Bit(4), ACCEL_FIFO_EN |-> Bit(3), SLV2_FIFO_EN |-> Bit(2),
   SLV1_FIFO_EN |-> Bit(1), SLV0_FIFO_EN |-> Bit(0), MULT_MST_EN |-> Bit(7),
   WAIT_FOR_ES |-> Bit(6), SLV_3_FIFO_EN |-> Bit(5), I2C_MST_P_NSR |-> Bit(4),
   I2C_MST_CLK |-> Bits(3, 4), I2C_SLV_RW |-> Bit(7),
   I2C_SLV_ADDR |-> Bits(6, 7), I2C_SLV_EN |-> Bit(7),
   I2C_SLV_BYTE_SW |-> Bit(6), I2C_SLV_REG_DIS |-> Bit(5),
   I2C_SLV_GRP |-> Bit(4), I2C_SLV_LEN |-> Bits(3, 4), I2C_SLV4_RW |-> Bit(7),
   I2C_SLV4_ADDR |-> Bits(6, 7), I2C_SLV4_EN |-> Bit(7),
   I2C_SLV4_INT_EN |-> Bit(6), I2C_SLV4_REG_DIS |-> Bit(5),
   I2C_SLV4_MST_DLY |-> Bits(4, 5), MST_PASS_THROUGH |-> Bit(7),
   MST_I2C_SLV4_DONE |-> Bit(6), MST_I2C_LOST_ARB |-> Bit(5),
   MST_I2C_SLV4_NACK |-> Bit(4), MST_I2C_SLV3_NACK |-> Bit(3),
   MST_I2C_SLV2_NACK |-> Bit(2), MST_I2C_SLV1_NACK |-> Bit(1),
   MST_I2C_SLV0_NACK |-> Bit(0), INTCFG_INT_LEVEL |-> Bit(7),
   INTCFG_INT_OPEN |-> Bit(6), INTCFG_LATCH_INT_EN |-> Bit(5),
   INTCFG_INT_RD_CLEAR |-> Bit(4), INTCFG_FSYNC_INT_LEVEL |-> Bit(3),
   INTCFG_FSYNC_INT_EN |-> Bit(2), INTCFG_I2C_BYPASS_EN |-> Bit(1),
   INTCFG_CLKOUT_EN |-> Bit(0)]

\* The same, of the registers after it.
FieldsAfterPins ==
  [INTERRUPT_FF |-> Bit(7), INTERRUPT_MOT |-> Bit(6), INTERRUPT_ZMOT |-> Bit(5),
   INTERRUPT_FIFO_OFLOW |-> Bit(4), INTERRUPT_I2C_MST_INT |-> Bit(3),
   INTERRUPT_PLL_RDY_INT |-> Bit(2), INTERRUPT_DMP_INT |-> Bit(1),
   INTERRUPT_DATA_RDY |-> Bit(0), DMPINT_5 |-> Bit(5), DMPINT_4 |-> Bit(4),
   DMPINT_3 |-> Bit(3), DMPINT_2 |-> Bit(2), DMPINT_1 |-> Bit(1),
   DMPINT_0 |-> Bit(0), MOTION_MOT_XNEG |-> Bit(7), MOTION_MOT_XPOS |-> Bit(6),
   MOTION_MOT_YNEG |-> Bit(5), MOTION_MOT_YPOS |-> Bit(4),
   MOTION_MOT_ZNEG |-> Bit(3), MOTION_MOT_ZPOS |-> Bit(2),
   MOTION_MOT_ZRMOT |-> Bit(0), DELAYCTRL_DELAY_ES_SHADOW |-> Bit(7),
   DELAYCTRL_I2C_SLV4_DLY_EN |-> Bit(4), DELAYCTRL_I2C_SLV3_DLY_EN |-> Bit(3),
   DELAYCTRL_I2C_SLV2_DLY_EN |-> Bit(2), DELAYCTRL_I2C_SLV1_DLY_EN |-> Bit(1),
   DELAYCTRL_I2C_SLV0_DLY_EN |-> Bit(0), PATHRESET_GYRO_RESET |-> Bit(2),
   PATHRESET_ACCEL_RESET |-> Bit(1), PATHRESET_TEMP_RESET |-> Bit(0),
   DETECT_ACCEL_ON_DELAY |-> Bits(5, 2), DETECT_FF_COUNT |-> Bits(3, 2),
   DETECT_MOT_COUNT |-> Bits(1, 2), USERCTRL_DMP_EN |-> Bit(7),
   USERCTRL_FIFO_EN |-> Bit(6), USERCTRL_I2C_MST_EN |-> Bit(5),
   USERCTRL_I2C_IF_DIS |-> Bit(4), USERCTRL_DMP_RESET |-> Bit(3),
   USERCTRL_FIFO_RESET |-> Bit(2), USERCTRL_I2C_MST_RESET |-> Bit(1),
   USERCTRL_SIG_COND_RESET |-> Bit(0), PWR1_DEVICE_RESET |-> Bit(7),
   PWR1_SLEEP |-> Bit(6), PWR1_CYCLE |-> Bit(5), PWR1_TEMP_DIS |-> Bit(3),
   PWR1_CLKSEL |-> Bits(2, 3), PWR2_LP_WAKE_CTRL |-> Bits(7, 2),
   PWR2_STBY_XA |-> Bit(5), PWR2_STBY_YA |-> Bit(4), PWR2_STBY_ZA |-> Bit(3),
   PWR2_STBY_XG |-> Bit(2), PWR2_STBY_YG |-> Bit(1), PWR2_STBY_ZG |-> Bit(0),
   BANKSEL_PRFTCH_EN |-> Bit(6), BANKSEL_CFG_USER_BANK |-> Bit(5),
   BANKSEL_MEM_SEL |-> Bits(4, 5), WHO_AM_I |-> Bits(6, 6)]

F == FieldsUpToPins @@ FieldsAfterPins

SetMemoryBank ==
  [Row("set", "MemoryBank", 0, RA.BANK_SEL, Whole)
     EXCEPT !.args = MemoryBankArguments]

AUX_VDDIO_accesses ==
  UNION {
    GetSet("AuxVDDIOLevel", RA.YG_OFFS_TC, Raw(Bit(7)))}

SMPLRT_DIV_accesses ==
  UNION {
    GetSet("Rate", RA.SMPLRT_DIV, Whole)}

CONFIG_accesses ==
  UNION {
    GetSet("ExternalFrameSync", RA.CONFIG, F.CFG_EXT_SYNC_SET),
    GetSet("DLPFMode", RA.CONFIG, F.CFG_DLPF_CFG)}

GYRO_CONFIG_accesses ==
  UNION {
    GetSet("FullScaleGyroRange", RA.GYRO_CONFIG, F.GCONFIG_FS_SEL)}

ACCEL_CONFIG_accesses ==
  UNION {
    GetSet("AccelXSelfTest", RA.ACCEL_CONFIG, F.ACONFIG_XA_ST),
    GetSet("AccelYSelfTest", RA.ACCEL_CONFIG, F.ACONFIG_YA_ST),
    GetSet("AccelZSelfTest", RA.ACCEL_CONFIG, F.ACONFIG_ZA_ST),
    GetSet("FullScaleAccelRange", RA.ACCEL_CONFIG, F.ACONFIG_AFS_SEL),
    GetSet("DHPFMode", RA.ACCEL_CONFIG, F.ACONFIG_ACCEL_HPF)}

FreefallDetection_accesses ==
  UNION {
    GetSet("FreefallDetectionThreshold", RA.FF_THR, Whole),
    GetSet("FreefallDetectionDuration", RA.FF_DUR, Whole)}

MotionDetection_accesses ==
  UNION {
    GetSet("MotionDetectionThreshold", RA.MOT_THR, Whole),
    GetSet("MotionDetectionDuration", RA.MOT_DUR, Whole)}

ZeroMotionDetection_accesses ==
  UNION {
    GetSet("ZeroMotionDetectionThreshold", RA.ZRMOT_THR, Whole),
    GetSet("ZeroMotionDetectionDuration", RA.ZRMOT_DUR, Whole)}

FIFO_EN_accesses ==
  UNION {
    GetSet("TempFIFOEnabled", RA.FIFO_EN, F.TEMP_FIFO_EN),
    GetSet("XGyroFIFOEnabled", RA.FIFO_EN, F.XG_FIFO_EN),
    GetSet("YGyroFIFOEnabled", RA.FIFO_EN, F.YG_FIFO_EN),
    GetSet("ZGyroFIFOEnabled", RA.FIFO_EN, F.ZG_FIFO_EN),
    GetSet("AccelFIFOEnabled", RA.FIFO_EN, F.ACCEL_FIFO_EN),
    GetSet("Slave2FIFOEnabled", RA.FIFO_EN, F.SLV2_FIFO_EN),
    GetSet("Slave1FIFOEnabled", RA.FIFO_EN, F.SLV1_FIFO_EN),
    GetSet("Slave0FIFOEnabled", RA.FIFO_EN, F.SLV0_FIFO_EN)}

I2C_MST_CTRL_accesses ==
  UNION {
    GetSet("MultiMasterEnabled", RA.I2C_MST_CTRL, F.MULT_MST_EN),
    GetSet("WaitForExternalSensorEnabled", RA.I2C_MST_CTRL, F.WAIT_FOR_ES),
    GetSet("Slave3FIFOEnabled", RA.I2C_MST_CTRL, F.SLV_3_FIFO_EN),
    GetSet("SlaveReadWriteTransitionEnabled",
           RA.I2C_MST_CTRL, F.I2C_MST_P_NSR),
    GetSet("MasterClockSpeed", RA.I2C_MST_CTRL, F.I2C_MST_CLK)}

I2C_SLV_ADDR_REG_accesses ==
  UNION {
    GetSetSlave("SlaveAddress", RA.I2C_SLV0_ADDR, 3, Whole),
    GetSetSlave("SlaveRegister", RA.I2C_SLV0_REG, 3, Whole)}

I2C_SLV_CTRL_accesses ==
  UNION {
    GetSetSlave("SlaveEnabled", RA.I2C_SLV0_CTRL, 3, F.I2C_SLV_EN),
    GetSetSlave("SlaveWordByteSwap", RA.I2C_SLV0_CTRL, 3, F.I2C_SLV_BYTE_SW),
    GetSetSlave("SlaveWriteMode", RA.I2C_SLV0_CTRL, 3, F.I2C_SLV_REG_DIS),
    GetSetSlave("SlaveWordGroupOffset", RA.I2C_SLV0_CTRL, 3, F.I2C_SLV_GRP),
    GetSetSlave("SlaveDataLength", RA.I2C_SLV0_CTRL, 3, F.I2C_SLV_LEN)}

I2C_SLV4_accesses ==
  UNION {
    GetSet("Slave4Address", RA.I2C_SLV4_ADDR, Whole),
    GetSet("Slave4Register", RA.I2C_SLV4_REG, Whole),
    Set("Slave4OutputByte", RA.I2C_SLV4_DO, Whole),
    GetSet("Slave4Enabled", RA.I2C_SLV4_CTRL, F.I2C_SLV4_EN),
    GetSet("Slave4InterruptEnabled", RA.I2C_SLV4_CTRL, F.I2C_SLV4_INT_EN),
    GetSet("Slave4WriteMode", RA.I2C_SLV4_CTRL, F.I2C_SLV4_REG_DIS),
    GetSet("Slave4MasterDelay", RA.I2C_SLV4_CTRL, F.I2C_SLV4_MST_DLY),
    Get("Slate4InputByte", RA.I2C_SLV4_DI, Whole)}

I2C_MST_STATUS_accesses ==
  UNION {
    Get("PassthroughStatus", RA.I2C_MST_STATUS, F.MST_PASS_THROUGH),
    Get("Slave4IsDone", RA.I2C_MST_STATUS, F.MST_I2C_SLV4_DONE),
    Get("LostArbitration", RA.I2C_MST_STATUS, F.MST_I2C_LOST_ARB),
    Get("Slave4Nack", RA.I2C_MST_STATUS, F.MST_I2C_SLV4_NACK),
    Get("Slave3Nack", RA.I2C_MST_STATUS, F.MST_I2C_SLV3_NACK),
    Get("Slave2Nack", RA.I2C_MST_STATUS, F.MST_I2C_SLV2_NACK),
    Get("Slave1Nack", RA.I2C_MST_STATUS, F.MST_I2C_SLV1_NACK),
    Get("Slave0Nack", RA.I2C_MST_STATUS, F.MST_I2C_SLV0_NACK)}

INT_PIN_CFG_interrupt_accesses ==
  UNION {
    GetSet("InterruptMode", RA.INT_PIN_CFG, F.INTCFG_INT_LEVEL),
    GetSet("InterruptDrive", RA.INT_PIN_CFG, F.INTCFG_INT_OPEN),
    GetSet("InterruptLatch", RA.INT_PIN_CFG, F.INTCFG_LATCH_INT_EN),
    GetSet("InterruptLatchClear", RA.INT_PIN_CFG, F.INTCFG_INT_RD_CLEAR)}

INT_PIN_CFG_pins_accesses ==
  UNION {
    GetSet("FSyncInterruptLevel", RA.INT_PIN_CFG, F.INTCFG_FSYNC_INT_LEVEL),
    GetSet("FSyncInterruptEnabled", RA.INT_PIN_CFG, F.INTCFG_FSYNC_INT_EN),
    GetSet("I2CBypassEnabled", RA.INT_PIN_CFG, F.INTCFG_I2C_BYPASS_EN),
    GetSet("ClockOutputEnabled", RA.INT_PIN_CFG, F.INTCFG_CLKOUT_EN)}

INT_ENABLE_accesses ==
  UNION {
    GetSet("IntEnabled", RA.INT_ENABLE, Whole),
    GetSet("IntFreefallEnabled", RA.INT_ENABLE, F.INTERRUPT_FF),
    GetSet("IntMotionEnabled", RA.INT_ENABLE, F.INTERRUPT_MOT),
    GetSet("IntZeroMotionEnabled", RA.INT_ENABLE, F.INTERRUPT_ZMOT),
    GetSet("IntFIFOBufferOverflowEnabled",
           RA.INT_ENABLE, F.INTERRUPT_FIFO_OFLOW),
    GetSet("IntI2CMasterEnabled", RA.INT_ENABLE, F.INTERRUPT_I2C_MST_INT),
    GetSet("IntDataReadyEnabled", RA.INT_ENABLE, F.INTERRUPT_DATA_RDY)}

INT_STATUS_accesses ==
  UNION {
    Get("IntStatus", RA.INT_STATUS, Whole),
    Get("IntFreefallStatus", RA.INT_STATUS, F.INTERRUPT_FF),
    Get("IntMotionStatus", RA.INT_STATUS, F.INTERRUPT_MOT),
    Get("IntZeroMotionStatus", RA.INT_STATUS, F.INTERRUPT_ZMOT),
    Get("IntFIFOBufferOverflowStatus", RA.INT_STATUS, F.INTERRUPT_FIFO_OFLOW),
    Get("IntI2CMasterStatus", RA.INT_STATUS, F.INTERRUPT_I2C_MST_INT),
    Get("IntDataReadyStatus", RA.INT_STATUS, F.INTERRUPT_DATA_RDY)}

ACCEL_OUT_accesses ==
  UNION {
    Signed("Motion6", RA.ACCEL_XOUT_H, 14, <<0, 2, 4, 8, 10, 12>>),
    Signed("Acceleration", RA.ACCEL_XOUT_H, 6, <<0, 2, 4>>),
    Signed("AccelerationX", RA.ACCEL_XOUT_H, 2, <<0>>),
    Signed("AccelerationY", RA.ACCEL_YOUT_H, 2, <<0>>),
    Signed("AccelerationZ", RA.ACCEL_ZOUT_H, 2, <<0>>),
    Signed("Temperature", RA.TEMP_OUT_H, 2, <<0>>)}

GYRO_OUT_accesses ==
  UNION {
    Signed("Rotation", RA.GYRO_XOUT_H, 6, <<0, 2, 4>>),
    Signed("RotationX", RA.GYRO_XOUT_H, 2, <<0>>),
    Signed("RotationY", RA.GYRO_YOUT_H, 2, <<0>>),
    Signed("RotationZ", RA.GYRO_ZOUT_H, 2, <<0>>)}

EXT_SENS_DATA_accesses ==
  UNION {
    UNION {Get("ExternalSensorByte", RA.EXT_SENS_DATA_00 + position, Whole) :
           position \in Positions},
    UNION {Unsigned("ExternalSensorWord",
           RA.EXT_SENS_DATA_00 + position, 2, <<0>>) :
           position \in Positions},
    UNION {Unsigned("ExternalSensorDWord",
           RA.EXT_SENS_DATA_00 + position, 4, <<0, 2>>) :
           position \in Positions}}

MOT_DETECT_STATUS_accesses ==
  UNION {
    Get("XNegMotionDetected", RA.MOT_DETECT_STATUS, F.MOTION_MOT_XNEG),
    Get("XPosMotionDetected", RA.MOT_DETECT_STATUS, F.MOTION_MOT_XPOS),
    Get("YNegMotionDetected", RA.MOT_DETECT_STATUS, F.MOTION_MOT_YNEG),
    Get("YPosMotionDetected", RA.MOT_DETECT_STATUS, F.MOTION_MOT_YPOS),
    Get("ZNegMotionDetected", RA.MOT_DETECT_STATUS, F.MOTION_MOT_ZNEG),
    Get("ZPosMotionDetected", RA.MOT_DETECT_STATUS, F.MOTION_MOT_ZPOS),
    Get("ZeroMotionDetected", RA.MOT_DETECT_STATUS, F.MOTION_MOT_ZRMOT)}

I2C_SLV_DO_DELAY_accesses ==
  UNION {
    SetSlave("SlaveOutputByte", RA.I2C_SLV0_DO, 1, Whole),
    GetSet("ExternalShadowDelayEnabled",
           RA.I2C_MST_DELAY_CTRL, F.DELAYCTRL_DELAY_ES_SHADOW),
    UNION {Both("SlaveDelayEnabled", num, RA.I2C_MST_DELAY_CTRL, Bit(num)) :
           num \in 0..4},
    Refused("get", "SlaveDelayEnabled", 5),
    Access("set", "SlaveDelayEnabled", 5, RA.I2C_MST_DELAY_CTRL, Bit(5))}

SIGNAL_PATH_RESET_accesses ==
  UNION {
    Command("resetGyroscopePath",
           RA.SIGNAL_PATH_RESET, F.PATHRESET_GYRO_RESET),
    Command("resetAccelerometerPath",
           RA.SIGNAL_PATH_RESET, F.PATHRESET_ACCEL_RESET),
    Command("resetTemperaturePath",
           RA.SIGNAL_PATH_RESET, F.PATHRESET_TEMP_RESET)}

MOT_DETECT_CTRL_accesses ==
  UNION {
    GetSet("AccelerometerPowerOnDelay",
           RA.MOT_DETECT_CTRL, F.DETECT_ACCEL_ON_DELAY),
    GetSet("FreefallDetectionCounterDecrement",
           RA.MOT_DETECT_CTRL, F.DETECT_FF_COUNT),
    GetSet("MotionDetectionCounterDecrement",
           RA.MOT_DETECT_CTRL, F.DETECT_MOT_COUNT)}

USER_CTRL_accesses ==
  UNION {
    GetSet("FIFOEnabled", RA.USER_CTRL, F.USERCTRL_FIFO_EN),
    GetSet("I2CMasterModeEnabled", RA.USER_CTRL, F.USERCTRL_I2C_MST_EN),
    Set("switchSPIEnabled", RA.USER_CTRL, F.USERCTRL_I2C_IF_DIS),
    Command("resetFIFO", RA.USER_CTRL, F.USERCTRL_FIFO_RESET),
    Command("resetI2CMaster", RA.USER_CTRL, F.USERCTRL_I2C_MST_RESET),
    Command("resetSensors", RA.USER_CTRL, F.USERCTRL_SIG_COND_RESET)}

PWR_MGMT_1_accesses ==
  UNION {
    Command("reset", RA.PWR_MGMT_1, F.PWR1_DEVICE_RESET),
    GetSet("SleepEnabled", RA.PWR_MGMT_1, F.PWR1_SLEEP),
    GetSet("WakeCycleEnabled", RA.PWR_MGMT_1, F.PWR1_CYCLE),
    GetSet("TempSensorEnabled", RA.PWR_MGMT_1, Inverted(F.PWR1_TEMP_DIS)),
    GetSet("ClockSource", RA.PWR_MGMT_1, F.PWR1_CLKSEL)}

PWR_MGMT_2_accesses ==
  UNION {
    GetSet("WakeFrequency", RA.PWR_MGMT_2, F.PWR2_LP_WAKE_CTRL),
    GetSet("StandbyXAccelEnabled", RA.PWR_MGMT_2, F.PWR2_STBY_XA),
    GetSet("StandbyYAccelEnabled", RA.PWR_MGMT_2, F.PWR2_STBY_YA),
    GetSet("StandbyZAccelEnabled", RA.PWR_MGMT_2, F.PWR2_STBY_ZA),
    GetSet("StandbyXGyroEnabled", RA.PWR_MGMT_2, F.PWR2_STBY_XG),
    GetSet("StandbyYGyroEnabled", RA.PWR_MGMT_2, F.PWR2_STBY_YG),
    GetSet("StandbyZGyroEnabled", RA.PWR_MGMT_2, F.PWR2_STBY_ZG)}

FIFO_accesses ==
  UNION {
    Unsigned("FIFOCount", RA.FIFO_COUNTH, 2, <<0>>),
    GetSet("FIFOByte", RA.FIFO_R_W, Whole),
    UNION {Copy("FIFOBytes", RA.FIFO_R_W, length) : length \in FIFOLengths}}

WHO_AM_I_accesses ==
  UNION {
    GetSet("DeviceID", RA.WHO_AM_I, F.WHO_AM_I)}

Offsets_accesses ==
  UNION {
    GetSet("OTPBankValid", RA.XG_OFFS_TC, Raw(F.TC_OTP_BNK_VLD)),
    GetSet("XGyroOffsetTC", RA.XG_OFFS_TC, F.TC_OFFSET),
    GetSet("YGyroOffsetTC", RA.YG_OFFS_TC, F.TC_OFFSET),
    GetSet("ZGyroOffsetTC", RA.ZG_OFFS_TC, F.TC_OFFSET),
    GetSet("XFineGain", RA.X_FINE_GAIN, Whole),
    GetSet("YFineGain", RA.Y_FINE_GAIN, Whole),
    GetSet("ZFineGain", RA.Z_FINE_GAIN, Whole),
    Signed("XAccelOffset", RA.XA_OFFS_H, 2, <<0>>),
    SetWord("XAccelOffset", RA.XA_OFFS_H),
    Signed("YAccelOffset", RA.YA_OFFS_H, 2, <<0>>),
    SetWord("YAccelOffset", RA.YA_OFFS_H),
    Signed("ZAccelOffset", RA.ZA_OFFS_H, 2, <<0>>),
    SetWord("ZAccelOffset", RA.ZA_OFFS_H),
    Signed("XGyroOffset", RA.XG_OFFS_USRH, 2, <<0>>),
    SetWord("XGyroOffset", RA.XG_OFFS_USRH),
    Signed("YGyroOffset", RA.YG_OFFS_USRH, 2, <<0>>),
    SetWord("YGyroOffset", RA.YG_OFFS_USRH),
    Signed("ZGyroOffset", RA.ZG_OFFS_USRH, 2, <<0>>),
    SetWord("ZGyroOffset", RA.ZG_OFFS_USRH)}

DMP_interrupts_accesses ==
  UNION {
    GetSet("IntPLLReadyEnabled", RA.INT_ENABLE, F.INTERRUPT_PLL_RDY_INT),
    GetSet("IntDMPEnabled", RA.INT_ENABLE, F.INTERRUPT_DMP_INT),
    Get("DMPInt5Status", RA.DMP_INT_STATUS, F.DMPINT_5),
    Get("DMPInt4Status", RA.DMP_INT_STATUS, F.DMPINT_4),
    Get("DMPInt3Status", RA.DMP_INT_STATUS, F.DMPINT_3),
    Get("DMPInt2Status", RA.DMP_INT_STATUS, F.DMPINT_2),
    Get("DMPInt1Status", RA.DMP_INT_STATUS, F.DMPINT_1),
    Get("DMPInt0Status", RA.DMP_INT_STATUS, F.DMPINT_0),
    Get("IntPLLReadyStatus", RA.INT_STATUS, F.INTERRUPT_PLL_RDY_INT),
    Get("IntDMPStatus", RA.INT_STATUS, F.INTERRUPT_DMP_INT),
    GetSet("DMPEnabled", RA.USER_CTRL, F.USERCTRL_DMP_EN),
    Command("resetDMP", RA.USER_CTRL, F.USERCTRL_DMP_RESET)}

Memory_accesses ==
  UNION {
    {SetMemoryBank},
    Set("MemoryStartAddress", RA.MEM_START_ADDR, Whole),
    Get("readMemoryByte", RA.MEM_R_W, Whole),
    Set("writeMemoryByte", RA.MEM_R_W, Whole)}

DMP_CFG_accesses ==
  UNION {
    GetSet("DMPConfig1", RA.DMP_CFG_1, Whole),
    GetSet("DMPConfig2", RA.DMP_CFG_2, Whole)}

Accesses ==
  UNION {
    AUX_VDDIO_accesses,
    SMPLRT_DIV_accesses,
    CONFIG_accesses,
    GYRO_CONFIG_accesses,
    ACCEL_CONFIG_accesses,
    FreefallDetection_accesses,
    MotionDetection_accesses,
    ZeroMotionDetection_accesses,
    FIFO_EN_accesses,
    I2C_MST_CTRL_accesses,
    I2C_SLV_ADDR_REG_accesses,
    I2C_SLV_CTRL_accesses,
    I2C_SLV4_accesses,
    I2C_MST_STATUS_accesses,
    INT_PIN_CFG_interrupt_accesses,
    INT_PIN_CFG_pins_accesses,
    INT_ENABLE_accesses,
    INT_STATUS_accesses,
    ACCEL_OUT_accesses,
    GYRO_OUT_accesses,
    EXT_SENS_DATA_accesses,
    MOT_DETECT_STATUS_accesses,
    I2C_SLV_DO_DELAY_accesses,
    SIGNAL_PATH_RESET_accesses,
    MOT_DETECT_CTRL_accesses,
    USER_CTRL_accesses,
    PWR_MGMT_1_accesses,
    PWR_MGMT_2_accesses,
    FIFO_accesses,
    WHO_AM_I_accesses,
    Offsets_accesses,
    DMP_interrupts_accesses,
    Memory_accesses,
    DMP_CFG_accesses}
=============================================================================
