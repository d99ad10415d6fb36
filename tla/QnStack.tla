------------------------------ MODULE QnStack ------------------------------
(***************************************************************************)
(* The whole FM stack from the application's onCreate down to the chip:    *)
(* the service in the system server, its JNI pointer to the HAL device,    *)
(* the ioctl.  The service takes calls of several clients on its binder    *)
(* threads and nothing below it takes a lock, so that two calls in the     *)
(* driver at once interfere on the very lines of the bus.                  *)
(*                                                                         *)
(* A call is in one of two stages: between the client and the ioctl        *)
(* ("jni"), or in the ioctl ("driver").  What it does in the driver        *)
(* happens when it leaves; module QnApi has the details of modes.          *)
(***************************************************************************)
EXTENDS Naturals, Sequences

CONSTANTS
    Others,     \* clients of the service besides the application
    OtherOps    \* the operations they use, by ioctl

App == "app"
Clients == Others \cup {App}

ASSUME OthersAssumption == App \notin Others

VARIABLES
    server,     \* the system server is "up" or "down"
    device,     \* qn8006_device, "NULL" or "open"
    chip,       \* [on, cs, mode, rds, ch, rdsd, rxupd]
    stage,      \* per client: "idle", "jni", "driver"
    call,       \* per client: its last call
    seen,       \* per client: rxupd when its call entered the driver
    overlapped, \* clients whose call has shared the driver with another
    at,         \* how many calls of onCreate are done
    clean       \* history: no failure and no other client since it began

vars == <<server, device, chip, stage, call, seen, overlapped, at, clean>>

-----------------------------------------------------------------------------
(* The chip: supply (on) and select pin (cs), mode bits of SYSTEM1, RDSEN, *)
(* the channel, the eight RDS data registers, and the bit of STATUS3 that  *)
(* changes with every received group.                                      *)
Channels == {8800, 9150}
Zeros == [i \in 1..8 |-> 0]

(* The application's array, and what QND_RDSLoadData, which takes a        *)
(* pointer to bytes, finds where the ioctl has a pointer to integers.      *)
buffer == <<0, 1, 2, 3, 4, 5, 6, 7>>
RawData(ints) ==
    [i \in 1..8 |-> (ints[((i - 1) \div 4) + 1] \div 256 ^ ((i - 1) % 4)) % 256]

Chips == [on : BOOLEAN, cs : BOOLEAN, mode : SUBSET {"RXREQ", "TXREQ"},
          rds : BOOLEAN, ch : Channels, rdsd : {Zeros, RawData(buffer)},
          rxupd : BOOLEAN]

(* The chip after it was supplied or reset; it answers when it is supplied *)
(* and selected.                                                           *)
Reset(c) == [on |-> c.on, cs |-> c.cs, mode |-> {}, rds |-> FALSE, ch |-> 8800,
             rdsd |-> Zeros, rxupd |-> FALSE]
Responds(c) == c.on /\ c.cs

-----------------------------------------------------------------------------
(* The calls of the service by the names of their ioctls; Quiet are those  *)
(* that touch nothing of `chip'.                                           *)
Call(name, arg) == [name |-> name, arg |-> arg]
NoCall == Call("none", 0)
QND_MODE_RX == 32768
QND_MODE_TX == 16384

Quiet == {"GET_FQ", "SET_POWER", "GET_POWER", "AUDIO_MODE", "AUDIO_CONFIG",
          "GET_RDSSIGNAL", "SET_COUNTRY", "CFGFMMOD", "LOADDFTSETTING"}
Scanning == {"RXSEEKCHALL", "RXSEEKCH", "TXCLEARCHSCAN"}

ServiceCalls ==
    {Call(n, a) : n \in {"POWER_ENABLE", "SET_CSPIN", "RDSENABLE", "RDSLOADDATA"},
                  a \in {0, 1}}
    \cup {Call("SETSYS_MODE", m) : m \in {QND_MODE_RX, QND_MODE_TX}}
    \cup {Call(n, f) : n \in {"SET_FQ", "GET_RSSI"}, f \in {8800, 9150}}
    \cup {Call(n, 0) : n \in Quiet \cup Scanning \cup {"INIT", "GET_ISBUFREADY"}}

(* The ioctls that do not begin with copy_from_user.                       *)
NoArgument == {"INIT", "GET_FQ", "GET_POWER", "GET_RDSSIGNAL", "GET_ISBUFREADY"}

(* MainActivity.onCreate: what the application does with the radio.        *)
Switched == <<Call("POWER_ENABLE", 1), Call("SET_CSPIN", 1)>>
Uploaded == <<Call("RDSLOADDATA", 1), Call("GET_ISBUFREADY", 0)>>

onCreate_InitAfterMode ==
    Switched \o <<Call("SETSYS_MODE", QND_MODE_RX), Call("INIT", 0),
                  Call("SET_FQ", 9150), Call("RDSENABLE", 1)>> \o Uploaded

onCreate_RdsOff ==
    Switched \o <<Call("INIT", 0), Call("SETSYS_MODE", QND_MODE_RX),
                  Call("SET_FQ", 9150), Call("RDSENABLE", 0)>> \o Uploaded

onCreate ==
    <<Call("POWER_ENABLE", 1), Call("SET_CSPIN", 1), Call("INIT", 0),
      Call("SETSYS_MODE", QND_MODE_RX), Call("SET_FQ", 9150), Call("RDSENABLE", 1),
      Call("RDSLOADDATA", 1), Call("GET_ISBUFREADY", 0)>>

-----------------------------------------------------------------------------
(* What a call that has the driver to itself may make of the chip c.       *)
(* Supply and select pin are not the chip's registers; the registers need  *)
(* a chip that responds.                                                   *)
PowerEnable(en, c) ==
    IF en = 0 THEN [Reset(c) EXCEPT !.on = FALSE]
    ELSE IF c.on THEN c ELSE [Reset(c) EXCEPT !.on = TRUE]

ModeOf(mode) == IF mode = QND_MODE_RX THEN {"RXREQ"} ELSE {"TXREQ"}

TuneTo(mode, ch, c) == [c EXCEPT !.mode = mode, !.ch = ch]

(* QND_RDSLoadData to the registers, or from them to the caller's buffer.  *)
LoadData(upload, c) ==
    IF upload = 1 THEN [c EXCEPT !.rdsd = RawData(buffer)] ELSE c

(* QND_RXSeekCH(All) ends receiving, QND_TXClearChannelScan transmitting,  *)
(* on a channel of the range.                                              *)
ScanModes(name, c) ==
    IF name = "TXCLEARCHSCAN" THEN {{"TXREQ"}} ELSE {{"RXREQ"}, c.mode \cup {"RXREQ"}}

Scan(name, c) ==
    {TuneTo(mode, ch, c) : mode \in ScanModes(name, c), ch \in Channels}

Registers(name, arg, c) ==
    CASE name = "INIT" -> {Reset(c)}
      [] name = "SETSYS_MODE" -> {[c EXCEPT !.mode = ModeOf(arg)]}
      [] name = "SET_FQ" -> {[c EXCEPT !.ch = arg]}
      [] name = "GET_RSSI" -> {TuneTo({"RXREQ"}, arg, c)}
      [] name = "RDSENABLE" -> {[c EXCEPT !.rds = (arg = 1)]}
      [] name = "RDSLOADDATA" -> {LoadData(arg, c)}
      [] name \in Scanning -> Scan(name, c)
      [] OTHER -> {c}

Effects(op, c) ==
    CASE op.name = "POWER_ENABLE" -> {PowerEnable(op.arg, c)}
      [] op.name = "SET_CSPIN" -> {[c EXCEPT !.cs = (op.arg = 1)]}
      [] OTHER -> IF Responds(c) THEN Registers(op.name, op.arg, c) ELSE {c}

(* What calls that interfere on the bus may leave in the registers.        *)
Garbled(c) == {d \in Chips : d.on = c.on /\ d.cs = c.cs}

(* QND_RDSCheckBufferReady: at once when transmitting, otherwise with the  *)
(* next group received; a chip that does not respond reads as anything.    *)
Ready(c, rxupd) ==
    \/ ~Responds(c)
    \/ "TXREQ" \in c.mode
    \/ c.rxupd # rxupd

-----------------------------------------------------------------------------
Init ==
    /\ server = "down" /\ device = "NULL"
    /\ chip = [on |-> FALSE, cs |-> FALSE, mode |-> {}, rds |-> FALSE, ch |-> 8800,
               rdsd |-> Zeros, rxupd |-> FALSE]
    /\ stage = [c \in Clients |-> "idle"]
    /\ call = [c \in Clients |-> NoCall]
    /\ seen = [c \in Clients |-> FALSE]
    /\ overlapped = {}
    /\ at = 0 /\ clean = FALSE

(* qn8006_device_open may find no memory or no device file.                *)
DeviceOpens == device' \in {"open", "NULL"}

(* The server creates the service, whose constructor ignores whether the   *)
(* HAL module was found and could open the device.                         *)
ServerStarts ==
    /\ server = "down"
    /\ server' = "up"
    /\ DeviceOpens
    /\ UNCHANGED <<chip, stage, call, seen, overlapped, at, clean>>

(* The server dies and takes the applications with it; a call that is in   *)
(* an ioctl ends first.  The chip and the driver notice nothing.           *)
Gone == /\ stage' = [c \in Clients |-> "idle"]
        /\ call' = [c \in Clients |-> NoCall]
        /\ at' = 0 /\ clean' = FALSE
        /\ UNCHANGED <<chip, seen, overlapped>>

ServerDies_KeepsDevice ==
    /\ server = "up" /\ \A c \in Clients : stage[c] # "driver"
    /\ server' = "down" /\ UNCHANGED device
    /\ Gone

ServerDies ==
    /\ server = "up" /\ \A c \in Clients : stage[c] # "driver"
    /\ server' = "down" /\ device' = "NULL"
    /\ Gone

-----------------------------------------------------------------------------
Free == \A c \in Clients : stage[c] # "driver"

(* A client calls the service.                                             *)
Calls(c, op) ==
    /\ server = "up" /\ stage[c] = "idle"
    /\ stage' = [stage EXCEPT ![c] = "jni"]
    /\ call' = [call EXCEPT ![c] = op]
    /\ UNCHANGED <<server, device, chip, seen, overlapped, at>>

AppCalls ==
    /\ at < Len(onCreate)
    /\ Calls(App, onCreate[at + 1])
    /\ clean' = IF at = 0 THEN Free ELSE clean

OtherCalls(c) ==
    \E op \in ServiceCalls :
        op.name \in OtherOps /\ Calls(c, op) /\ UNCHANGED clean

(* The activity is created anew, for example when the screen is turned.    *)
Recreated ==
    /\ at = Len(onCreate)
    /\ at' = 0 /\ clean' = FALSE
    /\ UNCHANGED <<server, device, chip, stage, call, seen, overlapped>>

(* A call is back at its client.                                           *)
Returns(c) ==
    /\ stage' = [stage EXCEPT ![c] = "idle"]
    /\ call' = [call EXCEPT ![c] = NoCall]
    /\ seen' = [seen EXCEPT ![c] = FALSE]
    /\ at' = IF c = App THEN at + 1 ELSE at
    /\ UNCHANGED <<server, device>>

(* A call that does nothing: without a device, JNI returns; the ioctl      *)
(* cannot copy its argument, and the HAL logs that it failed.              *)
Fails(c) ==
    /\ stage[c] = "jni"
    /\ device = "NULL" \/ call[c].name \notin NoArgument
    /\ Returns(c)
    /\ clean' = (clean /\ c # App)
    /\ UNCHANGED <<chip, overlapped>>

(* JNI has found the device, the HAL has called ioctl.                     *)
Enter(c) ==
    /\ stage[c] = "jni" /\ device = "open"
    /\ stage' = [stage EXCEPT ![c] = "driver"]
    /\ seen' = [seen EXCEPT ![c] = chip.rxupd /\ call[c].name = "GET_ISBUFREADY"]
    /\ overlapped' = IF Free THEN overlapped
                     ELSE {d \in Clients : stage[d] = "driver"} \cup {c}
    /\ clean' = (clean /\ c = App /\ Free)
    /\ UNCHANGED <<server, device, chip, call, at>>

(* The ioctl returns.  Calls that have interfered on the bus may leave     *)
(* anything in the registers.                                              *)
Leave(c) ==
    /\ stage[c] = "driver"
    /\ \/ /\ c \in overlapped
          /\ chip' \in Garbled(chip) \cup Effects(call[c], chip)
       \/ /\ c \notin overlapped
          /\ call[c].name = "GET_ISBUFREADY" => Ready(chip, seen[c])
          /\ chip' \in Effects(call[c], chip)
    /\ overlapped' = overlapped \ {c}
    /\ Returns(c)
    /\ UNCHANGED clean

(* A group is received; a poll of STATUS3 is much faster than the next.    *)
GroupArrives ==
    /\ Responds(chip) /\ "RXREQ" \in chip.mode /\ chip.rds
    /\ \A c \in Clients : stage[c] = "driver" /\ call[c].name = "GET_ISBUFREADY"
                            => seen[c] = chip.rxupd
    /\ chip' = [chip EXCEPT !.rxupd = ~@]
    /\ UNCHANGED <<server, device, stage, call, seen, overlapped, at, clean>>

AppContinues == (at > 0 /\ AppCalls) \/ Fails(App) \/ Enter(App) \/ Leave(App)

Next ==
    \/ ServerStarts \/ ServerDies
    \/ AppCalls \/ Recreated
    \/ \E c \in Others : OtherCalls(c)
    \/ \E c \in Clients : Fails(c) \/ Enter(c) \/ Leave(c)
    \/ GroupArrives

Spec == Init /\ [][Next]_vars
FairSpec == Spec /\ WF_vars(AppContinues) /\ WF_vars(GroupArrives)

-----------------------------------------------------------------------------
InProgress == stage[App] # "idle" \/ at \in 1..(Len(onCreate) - 1)

(* Types of the state; the pointer is valid only in a living server.       *)
TypeOK ==
    /\ server \in {"up", "down"} /\ device \in {"open", "NULL"}
    /\ device = "open" => server = "up"
    /\ chip \in Chips
    /\ stage \in [Clients -> {"idle", "jni", "driver"}]
    /\ call \in [Clients -> ServiceCalls \cup {NoCall}]
    /\ seen \in [Clients -> BOOLEAN]
    /\ overlapped \in SUBSET Clients
    /\ at \in 0..Len(onCreate) /\ clean \in BOOLEAN

(* Whatever earlier calls of anyone have left, an onCreate that runs       *)
(* without a failure and without another client in the driver has the      *)
(* radio receiving 91.5 MHz with RDS before it waits for a group, and when *)
(* it ends.                                                                *)
AppEstablishes ==
    at \in (Len(onCreate) - 1)..Len(onCreate) /\ clean
        => /\ Responds(chip) /\ chip.mode = {"RXREQ"}
           /\ chip.ch = 9150 /\ chip.rds

(* onCreate, which ends by waiting for a received group without a timeout, *)
(* ends, provided that groups are received and nobody else interferes.     *)
AppFinishes == InProgress /\ clean ~> ~InProgress \/ ~clean

(* "8 bytes data buffer to load": the RDS registers hold the caller's      *)
(* eight values after QND_RDSLoadData.                                     *)
GroupLoaded == at \in 7..8 /\ clean => chip.rdsd = buffer
=============================================================================
