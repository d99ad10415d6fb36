------------------------------- MODULE QnI2c -------------------------------
(***************************************************************************)
(* Register access of the QN8006 over two GPIO lines (qn8006_driver.c):    *)
(* qn8006_gpio_i2c_ReadReg and WriteReg, and the retries of the address    *)
(* byte.  A step is one of the routines that move the lines (a start, a    *)
(* bit, an acknowledgement, a stop), which is the sequence of the line     *)
(* changes it makes.  The chip is external: it samples the lines when SCL  *)
(* rises, takes its turn when SCL falls, starts and stops when SDA moves   *)
(* while SCL is high, and may leave an address unanswered.  In this chip's *)
(* protocol a read sends the register number after the address with the    *)
(* read bit set.                                                           *)
(***************************************************************************)
EXTENDS Integers, Sequences

CONSTANTS
    Regs,       \* registers the driver uses
    Values      \* values it writes

ASSUME RegsAssumption   == Regs \subseteq 0..255
ASSUME ValuesAssumption == Values \subseteq 0..255

QN8006_I2C_ADDR == 43
Retries == 10

VARIABLES
    access,     \* the last access, [kind, reg, value]
    at,         \* where it is
    bit,        \* bits of the current byte already moved
    succ,       \* was the address acknowledged?
    time,       \* retries so far
    data,       \* the byte read
    bus,        \* the master's outputs scl and sda, does it drive SDA?,
                \* the chip's receiver and its registers
    was         \* the chip's registers when the access began

busVars == <<access, at, bit, succ, time, data, bus, was>>

Bit  == {0, 1}
Byte == 0..255
AccessType == [kind : {"read", "write"}, reg : Regs, value : Values \cup {0}]
ReceiverType == [st : {"idle", "address", "pointer", "store", "send"}, n : 0..9,
                 byte : Byte, rd : Bit, ptr : Byte, drive : Bit]
BusType == [scl : Bit, sda : Bit, out : Bit, receiver : ReceiverType, regs : [Regs -> Byte]]

(* The k-th bit of a byte on the wire, the most significant one first.     *)
Weight == <<128, 64, 32, 16, 8, 4, 2, 1>>
BitOf(v, k) == (v \div Weight[k]) % 2

-----------------------------------------------------------------------------
(* SDA is low when either side pulls it low.                               *)
Wire(b) == IF (b.out = 1 /\ b.sda = 0) \/ b.receiver.drive = 0 THEN 0 ELSE 1

Receiver(st, n, byte, rd, ptr, drive) ==
    [st |-> st, n |-> n, byte |-> byte, rd |-> rd, ptr |-> ptr, drive |-> drive]

Quiet == Receiver("idle", 0, 0, 0, 0, 1)

(* SCL rises: one more bit is taken in.                                    *)
Rise(c, w) ==
    IF c.st = "idle" THEN c
    ELSE Receiver(c.st, c.n + 1, IF c.st # "send" /\ c.n < 8 THEN 2 * c.byte + w ELSE c.byte,
                  c.rd, c.ptr, c.drive)

(* SCL falls: after eight bits the chip acknowledges a byte (or leaves the *)
(* address alone), after nine it goes on to the next one.                  *)
NextByte(c, regs) ==
    LET sent == IF c.byte \in Regs THEN regs[c.byte] ELSE 0
    IN  CASE c.st = "address" -> Receiver("pointer", 0, 0, c.byte % 2, c.ptr, 1)
          [] c.st = "pointer" /\ c.rd = 0 -> Receiver("store", 0, 0, 0, c.byte, 1)
          [] c.st = "pointer" /\ c.rd = 1 ->
               Receiver("send", 0, sent, 1, c.ptr, BitOf(sent, 1))
          [] OTHER -> Receiver(c.st, 0, 0, c.rd, c.ptr, 1)

Drives(c, level) == Receiver(c.st, c.n, c.byte, c.rd, c.ptr, level)

Refuses(c, answers) == c.st = "address" /\ ~(answers = 1 /\ c.byte \div 2 = QN8006_I2C_ADDR)

Fall(c, regs, answers) ==
    CASE c.st = "send" /\ c.n < 8 -> Drives(c, BitOf(c.byte, c.n + 1))
      [] c.st = "send" /\ c.n = 8 -> Drives(c, 1)
      [] c.st = "send" /\ c.n > 8 -> Quiet
      [] c.st # "send" /\ c.n = 8 -> IF Refuses(c, answers) THEN Quiet ELSE Drives(c, 0)
      [] c.st # "send" /\ c.n = 9 -> NextByte(c, regs)
      [] OTHER -> c

(* A byte is stored when its acknowledgement ends.                         *)
Stored(c, regs) ==
    IF c.st = "store" /\ c.n = 9
      THEN [r \in Regs |-> IF r = c.ptr THEN c.byte ELSE regs[r]] ELSE regs

-----------------------------------------------------------------------------
(* What the bus is after one change of a line.                             *)
Bus(scl, sda, out, receiver, regs) ==
    [scl |-> scl, sda |-> sda, out |-> out, receiver |-> receiver, regs |-> regs]

SclHigh(b) ==
    IF b.scl = 1 THEN b
    ELSE Bus(1, b.sda, b.out, Rise(b.receiver, Wire(b)), b.regs)

SclLow(b, answers) ==
    IF b.scl = 0 THEN b
    ELSE Bus(0, b.sda, b.out, Fall(b.receiver, b.regs, answers), Stored(b.receiver, b.regs))

(* SDA falling or rising while SCL is high starts or stops a transfer.     *)
SdaEdge(b, m) ==
    IF b.scl = 0 \/ Wire(b) = Wire(m) THEN m
    ELSE Bus(m.scl, m.sda, m.out,
             IF Wire(m) = 0 THEN Receiver("address", 0, 0, 0, 0, 1) ELSE Quiet, m.regs)

Sda(b, level) == SdaEdge(b, Bus(b.scl, level, b.out, b.receiver, b.regs))
SdaMode(b, out) == SdaEdge(b, Bus(b.scl, b.sda, out, b.receiver, b.regs))

(* The routines.                                                           *)
i2c_start(b) == SclLow(Sda(Sda(SclHigh(SdaMode(b, 1)), 1), 0), 1)
i2c_stop(b)  == Sda(SclHigh(Sda(SdaMode(b, 1), 0)), 1)
send_ack(b, i) == Sda(SclLow(SclHigh(Sda(SclLow(b, 1), i)), 1), 1)
Write_Bit(b, i, answers) == SclLow(SclHigh(Sda(SclLow(b, 1), i)), answers)

(* check_ack reads SDA in between, until it is low or the poll runs out;   *)
(* Read_Byte reads it between the two halves of each bit.                  *)
AckHigh(b) == SclHigh(SdaMode(b, 0))
AckLow(b)  == SdaMode(SclLow(b, 1), 1)

ReadHigh(b, k) == SclHigh(IF k = 1 THEN SdaMode(b, 0) ELSE b)
ReadLow(b, k)  == IF k = 8 THEN SdaMode(SclLow(b, 1), 1) ELSE SclLow(b, 1)

-----------------------------------------------------------------------------
(* qn8006_i2c_initial leaves both lines high.                              *)
BusInit ==
    /\ access = [kind |-> "none"]
    /\ at = "idle" /\ bit = 0
    /\ succ = 0 /\ time = 0 /\ data = 0
    /\ was = [r \in Regs |-> 0]
    /\ bus = Bus(1, 1, 1, Quiet, was)

Access(c) ==
    /\ at = "idle"
    /\ access' = c
    /\ at' = "start"
    /\ succ' = 0 /\ time' = 0 /\ data' = 0
    /\ was' = bus.regs
    /\ UNCHANGED <<bit, bus>>

Start ==
    /\ at = "start"
    /\ bus' = i2c_start(bus)
    /\ at' = "address"
    /\ UNCHANGED <<access, bit, succ, time, data, was>>

(* The byte being written.                                                 *)
Slave == 2 * QN8006_I2C_ADDR + IF access.kind = "read" THEN 1 ELSE 0

Data == CASE at = "address" -> Slave
          [] at = "pointer" -> access.reg
          [] at = "value"   -> access.value

Write_Byte(answers) ==
    /\ at \in {"address", "pointer", "value"} /\ bit < 8
    /\ bus' = Write_Bit(bus, BitOf(Data, bit + 1), answers)
    /\ bit' = bit + 1
    /\ UNCHANGED <<access, at, succ, time, data, was>>

(* The acknowledgement of the address is looked at; without one it is sent *)
(* again, and in the end the transfer goes on all the same.                *)
CheckAddress_OneMore ==
    /\ at = "address" /\ bit = 8
    /\ succ' = 1 - Wire(AckHigh(bus))
    /\ bus' = AckLow(AckHigh(bus))
    /\ at' = IF succ' # 1 /\ time <= Retries THEN "retry" ELSE "pointer"
    /\ bit' = 0
    /\ UNCHANGED <<access, time, data, was>>

CheckAddress ==
    /\ at = "address" /\ bit = 8
    /\ succ' = 1 - Wire(AckHigh(bus))
    /\ bus' = AckLow(AckHigh(bus))
    /\ at' = IF succ' # 1 /\ time < Retries THEN "retry" ELSE "pointer"
    /\ bit' = 0
    /\ UNCHANGED <<access, time, data, was>>

Retry_Uncounted ==
    /\ at = "retry"
    /\ bus' = i2c_stop(bus)
    /\ at' = "start"
    /\ UNCHANGED <<access, bit, succ, time, data, was>>

Retry ==
    /\ at = "retry"
    /\ bus' = i2c_stop(bus)
    /\ time' = time + 1
    /\ at' = "start"
    /\ UNCHANGED <<access, bit, succ, data, was>>

(* Those of the other bytes are not.                                       *)
CheckAck ==
    /\ at \in {"pointer", "value"} /\ bit = 8
    /\ bus' = AckLow(AckHigh(bus))
    /\ at' = IF at = "value" THEN "stop"
             ELSE IF access.kind = "read" THEN "read" ELSE "value"
    /\ bit' = 0
    /\ UNCHANGED <<access, succ, time, data, was>>

ReadBits(last) ==
    /\ at = "read"
    /\ data' = (2 * data + Wire(ReadHigh(bus, bit + 1))) % 256
    /\ bus' = ReadLow(ReadHigh(bus, bit + 1), bit + 1)
    /\ IF bit + 1 = last THEN at' = "ack" /\ bit' = 0
                         ELSE at' = at /\ bit' = bit + 1
    /\ UNCHANGED <<access, succ, time, was>>

Read_Byte_OneShort == ReadBits(7)
Read_Byte == ReadBits(8)

Ack ==
    /\ at = "ack"
    /\ bus' = send_ack(bus, 1)
    /\ at' = "stop"
    /\ UNCHANGED <<access, bit, succ, time, data, was>>

Stop_Omitted ==
    /\ at = "stop"
    /\ at' = "idle"
    /\ UNCHANGED <<access, bit, succ, time, data, bus, was>>

Stop ==
    /\ at = "stop"
    /\ bus' = i2c_stop(bus)
    /\ at' = "idle"
    /\ UNCHANGED <<access, bit, succ, time, data, was>>

Accesses == [kind : {"read"}, reg : Regs, value : {0}] \cup
            [kind : {"write"}, reg : Regs, value : Values]

Master ==
    \/ Start \/ CheckAddress \/ Retry \/ CheckAck \/ Read_Byte \/ Ack \/ Stop
    \/ \E answers \in Bit : Write_Byte(answers)

BusNext == (\E c \in Accesses : Access(c)) \/ Master

BusSpec == BusInit /\ [][BusNext]_busVars
BusFairSpec == BusSpec /\ WF_busVars(Master)

-----------------------------------------------------------------------------
(* Types of the state.                                                     *)
BusTypeOK ==
    /\ access \in AccessType \cup {[kind |-> "none"]}
    /\ at \in {"idle", "start", "address", "retry", "pointer", "value", "read", "ack", "stop"}
    /\ bit \in 0..8
    /\ succ \in Bit /\ time \in 0..Retries /\ data \in Byte
    /\ bus \in BusType /\ was \in [Regs -> Byte]

(* A transfer happens whole or not at all.  An acknowledged write has      *)
(* changed its register to its value, and no other; everything else leaves *)
(* the registers alone, a write the chip never answered included, although *)
(* its bytes are sent all the same.  An acknowledged read returns the      *)
(* register, an unanswered one all ones.                                   *)
TransfersWhole ==
    at = "idle" /\ access.kind # "none" =>
        /\ bus.regs = IF access.kind = "write" /\ succ = 1
                        THEN [was EXCEPT ![access.reg] = access.value] ELSE was
        /\ access.kind = "read" => data = IF succ = 1 THEN bus.regs[access.reg] ELSE 255

(* After an access, failed or not, both lines are high and the chip waits  *)
(* for a start: it never holds the bus into the next access.               *)
BusReleased ==
    at = "idle" => bus = Bus(1, 1, 1, Quiet, bus.regs)

(* An access returns even if the chip never answers.                       *)
AccessReturns == at # "idle" ~> at = "idle"
=============================================================================
