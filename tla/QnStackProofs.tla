--------------------------- MODULE QnStackProofs ---------------------------
(***************************************************************************)
(* The application's sequence of calls establishes what it is for,         *)
(* whatever other clients there are and whatever they call.                *)
(***************************************************************************)
EXTENDS QnStack, TLAPS

-----------------------------------------------------------------------------
(* Types.                                                                  *)
LEMMA OnCreateCalls ==
    /\ Len(onCreate) = 8
    /\ \A i \in 1..8 : onCreate[i] \in ServiceCalls
  BY DEF onCreate, ServiceCalls, Call, Quiet, Scanning, QND_MODE_RX, QND_MODE_TX

LEMMA ChipFields ==
    ASSUME NEW c \in Chips
    PROVE  /\ \A b \in BOOLEAN : /\ [c EXCEPT !.on = b] \in Chips
                                 /\ [c EXCEPT !.cs = b] \in Chips
                                 /\ [c EXCEPT !.rds = b] \in Chips
                                 /\ [c EXCEPT !.rxupd = b] \in Chips
           /\ Reset(c) \in Chips
           /\ \A m \in SUBSET {"RXREQ", "TXREQ"}, f \in Channels :
                  TuneTo(m, f, c) \in Chips
           /\ \A m \in SUBSET {"RXREQ", "TXREQ"} : [c EXCEPT !.mode = m] \in Chips
           /\ \A f \in Channels : [c EXCEPT !.ch = f] \in Chips
           /\ [c EXCEPT !.rdsd = RawData(buffer)] \in Chips
<1> DEFINE Modes == SUBSET {"RXREQ", "TXREQ"}
           Groups == {Zeros, RawData(buffer)}
<1>1. Chips = [on : BOOLEAN, cs : BOOLEAN, mode : Modes, rds : BOOLEAN,
               ch : Channels, rdsd : Groups, rxupd : BOOLEAN]
  BY DEF Chips
<1>2. {} \in Modes /\ 8800 \in Channels /\ Zeros \in Groups /\ RawData(buffer) \in Groups
  BY DEF Channels
<1> HIDE DEF Modes, Groups
<1>3. \A b \in BOOLEAN : [c EXCEPT !.on = b] \in Chips /\ [c EXCEPT !.cs = b] \in Chips
  BY <1>1
<1>4. \A b \in BOOLEAN : [c EXCEPT !.rds = b] \in Chips /\ [c EXCEPT !.rxupd = b] \in Chips
  BY <1>1
<1>5. Reset(c) \in Chips
  <2>1. c.on \in BOOLEAN /\ c.cs \in BOOLEAN
    BY <1>1
  <2> QED BY <1>1, <1>2, <2>1 DEF Reset
<1>6. \A m \in Modes, f \in Channels : TuneTo(m, f, c) \in Chips
  BY <1>1 DEF TuneTo
<1>7. \A m \in Modes : [c EXCEPT !.mode = m] \in Chips
  BY <1>1
<1>8. \A f \in Channels : [c EXCEPT !.ch = f] \in Chips
  BY <1>1
<1>9. [c EXCEPT !.rdsd = RawData(buffer)] \in Chips
  BY <1>1, <1>2
<1> QED BY <1>3, <1>4, <1>5, <1>6, <1>7, <1>8, <1>9 DEF Modes

(* A call leaves the chip in one of its states.                            *)
LEMMA EffectsType ==
    ASSUME NEW op \in ServiceCalls, NEW c \in Chips, NEW d \in Effects(op, c)
    PROVE  d \in Chips
<1>1. CASE op.name = "POWER_ENABLE"
  <2>1. \A r \in Chips : [r EXCEPT !.on = FALSE] \in Chips /\ [r EXCEPT !.on = TRUE] \in Chips
    BY ChipFields
  <2>2. Reset(c) \in Chips
    BY ChipFields
  <2> QED BY <1>1, <2>1, <2>2 DEF Effects, PowerEnable
<1>2. CASE op.name = "SET_CSPIN"
  BY <1>2, ChipFields DEF Effects
<1>3. CASE op.name \notin {"POWER_ENABLE", "SET_CSPIN"}
  <2>1. CASE ~Responds(c)
    BY <1>3, <2>1 DEF Effects
  <2>2. CASE Responds(c)
    <3>1. d \in Registers(op.name, op.arg, c)
      BY <1>3, <2>2 DEF Effects
    <3>2. op.name \in {"SET_FQ", "GET_RSSI"} => op.arg \in Channels
      BY DEF ServiceCalls, Call, Channels, Quiet, Scanning
    <3>3. CASE op.name = "INIT"
      BY <3>1, <3>3, ChipFields DEF Registers, Scanning
    <3>4. CASE op.name = "SETSYS_MODE"
      <4>1. d = [c EXCEPT !.mode = ModeOf(op.arg)]
        BY <3>1, <3>4 DEF Registers, Scanning
      <4>2. ModeOf(op.arg) \in SUBSET {"RXREQ", "TXREQ"}
        BY DEF ModeOf
      <4> QED BY <4>1, <4>2, ChipFields
    <3>5. CASE op.name = "SET_FQ"
      BY <3>1, <3>2, <3>5, ChipFields DEF Registers, Scanning
    <3>6. CASE op.name = "GET_RSSI"
      <4>1. d = TuneTo({"RXREQ"}, op.arg, c)
        BY <3>1, <3>6 DEF Registers, Scanning
      <4> QED BY <3>2, <3>6, <4>1, ChipFields
    <3>7. CASE op.name = "RDSENABLE"
      BY <3>1, <3>7, ChipFields DEF Registers, Scanning
    <3>8. CASE op.name = "RDSLOADDATA"
      BY <3>1, <3>8, ChipFields DEF Registers, Scanning, LoadData
    <3>9. CASE op.name \in Scanning
      <4>1. d \in Scan(op.name, c)
        BY <3>1, <3>9 DEF Registers, Scanning
      <4>2. c.mode \in SUBSET {"RXREQ", "TXREQ"}
        BY DEF Chips
      <4>3. PICK m \in ScanModes(op.name, c), f \in Channels :
                d = TuneTo(m, f, c)
        BY <4>1 DEF Scan
      <4>4. m \in SUBSET {"RXREQ", "TXREQ"}
        BY <4>2 DEF ScanModes
      <4> QED BY <4>3, <4>4, ChipFields
    <3>10. CASE op.name \notin Scanning \cup {"INIT", "SETSYS_MODE", "SET_FQ", "GET_RSSI",
                                             "RDSENABLE", "RDSLOADDATA"}
      BY <3>1, <3>10 DEF Registers
    <3> QED BY <3>3, <3>4, <3>5, <3>6, <3>7, <3>8, <3>9, <3>10
  <2> QED BY <2>1, <2>2
<1> QED BY <1>1, <1>2, <1>3

(* So does one that returns, alone or not.                                 *)
LEMMA LeaveType ==
    ASSUME TypeOK, NEW c \in Clients, Leave(c)
    PROVE  chip' \in Chips
<1>1. call[c] \in ServiceCalls \cup {NoCall}
  BY DEF TypeOK
<1>2. CASE chip' \in Garbled(chip)
  BY <1>2 DEF Garbled
<1>3. CASE chip' \in Effects(call[c], chip) /\ call[c] \in ServiceCalls
  BY <1>3, EffectsType DEF TypeOK
<1>4. CASE chip' \in Effects(call[c], chip) /\ call[c] = NoCall
  BY <1>4 DEF Effects, Registers, Scanning, NoCall, Call, TypeOK
<1> QED BY <1>1, <1>2, <1>3, <1>4 DEF Leave

(* A call of the application is the one of onCreate whose turn it is.      *)
TurnInv ==
    stage[App] # "idle" => at < Len(onCreate) /\ call[App] = onCreate[at + 1]

LEMMA TypeInit == Init => TypeOK /\ TurnInv
<1> SUFFICES ASSUME Init PROVE TypeOK /\ TurnInv
  OBVIOUS
<1>1. chip \in Chips
  BY DEF Init, Chips, Channels
<1>2. at \in 0..Len(onCreate)
  BY OnCreateCalls DEF Init
<1>3. TypeOK
  <2>1. stage \in [Clients -> {"idle", "jni", "driver"}] /\ seen \in [Clients -> BOOLEAN]
    BY DEF Init
  <2>2. call \in [Clients -> ServiceCalls \cup {NoCall}]
    BY DEF Init
  <2>3. overlapped \in SUBSET Clients /\ clean \in BOOLEAN
    BY DEF Init
  <2> QED BY <1>1, <1>2, <2>1, <2>2, <2>3 DEF Init, TypeOK
<1>4. TurnInv
  BY DEF Init, TurnInv, Clients
<1> QED BY <1>3, <1>4

LEMMA TypeStep == TypeOK /\ TurnInv /\ [Next]_vars => TypeOK' /\ TurnInv'
<1> SUFFICES ASSUME TypeOK, TurnInv, [Next]_vars PROVE TypeOK' /\ TurnInv'
  OBVIOUS
<1> USE DEF TypeOK, TurnInv
<1>1. App \in Clients /\ Others \subseteq Clients /\ App \notin Others
  BY OthersAssumption DEF OthersAssumption, Clients
<1>2. CASE ServerStarts
  BY <1>2 DEF ServerStarts, DeviceOpens
<1>3. CASE ServerDies
  <2>1. at' \in 0..Len(onCreate)
    BY <1>3, OnCreateCalls DEF ServerDies, Gone
  <2>2. /\ stage' \in [Clients -> {"idle", "jni", "driver"}]
        /\ call' \in [Clients -> ServiceCalls \cup {NoCall}]
    BY <1>3 DEF ServerDies, Gone
  <2>3. TurnInv'
    BY <1>1, <1>3 DEF ServerDies, Gone
  <2> QED BY <1>3, <2>1, <2>2, <2>3 DEF ServerDies, Gone
<1>4. CASE AppCalls
  <2>1. onCreate[at + 1] \in ServiceCalls
    BY <1>4, OnCreateCalls DEF AppCalls
  <2>2. clean' \in BOOLEAN
    BY <1>4 DEF AppCalls, Free
  <2>3. /\ stage' \in [Clients -> {"idle", "jni", "driver"}]
        /\ call' \in [Clients -> ServiceCalls \cup {NoCall}]
    BY <1>1, <1>4, <2>1 DEF AppCalls, Calls
  <2>4. TurnInv'
    BY <1>1, <1>4 DEF AppCalls, Calls
  <2> QED BY <1>4, <2>2, <2>3, <2>4 DEF AppCalls, Calls
<1>5. CASE Recreated
  <2>1. stage[App] = "idle"
    BY <1>5, OnCreateCalls DEF Recreated
  <2>2. at' \in 0..Len(onCreate) /\ clean' \in BOOLEAN
    <3>1. 0 \in 0..Len(onCreate)
      BY OnCreateCalls
    <3> QED BY <1>5, <3>1, Zenon DEF Recreated
  <2>3. stage'[App] = "idle"
    BY <1>5, <2>1 DEF Recreated
  <2> QED BY <1>5, <2>2, <2>3 DEF Recreated
<1>6. CASE \E c \in Others : OtherCalls(c)
  <2>1. PICK c \in Others, op \in ServiceCalls : Calls(c, op) /\ UNCHANGED clean
    BY <1>6 DEF OtherCalls
  <2> QED BY <1>1, <2>1 DEF Calls
<1>7. ASSUME NEW c \in Clients, Returns(c), stage[c] # "idle", clean' \in BOOLEAN,
             overlapped' \subseteq overlapped, chip' \in Chips
      PROVE  TypeOK' /\ TurnInv'
  <2>1. at' \in 0..Len(onCreate)
    BY <1>7, OnCreateCalls DEF Returns
  <2>2. TurnInv'
    BY <1>1, <1>7 DEF Returns
  <2> QED BY <1>7, <2>1, <2>2 DEF Returns
<1>8. ASSUME NEW c \in Clients, Fails(c)
      PROVE  TypeOK' /\ TurnInv'
  BY <1>7, <1>8 DEF Fails
<1>9. ASSUME NEW c \in Clients, Enter(c)
      PROVE  TypeOK' /\ TurnInv'
  <2>1. clean' \in BOOLEAN /\ seen' \in [Clients -> BOOLEAN] /\ overlapped' \subseteq Clients
    BY <1>9 DEF Enter, Chips, Free
  <2> QED BY <1>1, <1>9, <2>1 DEF Enter
<1>10. ASSUME NEW c \in Clients, Leave(c)
       PROVE  TypeOK' /\ TurnInv'
  <2>1. chip' \in Chips
    BY <1>10, LeaveType
  <2> QED BY <1>7, <1>10, <2>1 DEF Leave
<1>11. CASE GroupArrives
  <2>1. chip' \in Chips
    <3>1. (~chip.rxupd) \in BOOLEAN
      OBVIOUS
    <3>2. chip' = [chip EXCEPT !.rxupd = ~chip.rxupd]
      BY <1>11 DEF GroupArrives
    <3> QED BY <3>1, <3>2, ChipFields
  <2> QED BY <1>11, <2>1 DEF GroupArrives
<1>12. CASE UNCHANGED vars
  BY <1>12 DEF vars
<1> QED BY <1>2, <1>3, <1>4, <1>5, <1>6, <1>8, <1>9, <1>10, <1>11, <1>12 DEF Next

(* The state is well typed; no pointer to a device outlives its server.    *)
THEOREM TypeCorrect == Spec => []TypeOK
BY TypeInit, TypeStep, PTL DEF Spec

-----------------------------------------------------------------------------
(* What the first n calls of onCreate have made of the chip.               *)
Established(n) ==
    /\ n >= 1 => chip.on
    /\ n >= 2 => chip.cs
    /\ n >= 4 => chip.mode = {"RXREQ"}
    /\ n >= 5 => chip.ch = 9150
    /\ n >= 6 => chip.rds

(* Calls that overlap are in the driver; a clean sequence has the driver   *)
(* to itself and its calls have done their work so far.                    *)
SharedInv == overlapped \subseteq {c \in Clients : stage[c] = "driver"}
CleanInv ==
    clean => /\ \A c \in Others : stage[c] # "driver"
             /\ App \notin overlapped
             /\ Established(at)

(* The calls of a clean sequence, one after the other.                     *)
LEMMA NextCall ==
    ASSUME TypeOK, at < Len(onCreate), Established(at),
           NEW d \in Effects(onCreate[at + 1], chip), chip' = d, at' = at + 1
    PROVE  Established(at)'
<1> USE DEF Established
<1>1. chip \in Chips /\ at \in 0..7
  BY OnCreateCalls DEF TypeOK
<1>2. CASE at = 0
  <2>1. d = PowerEnable(1, chip)
    BY <1>2 DEF onCreate, Effects, Call
  <2>2. d.on
    BY <1>1, <2>1 DEF PowerEnable, Chips, Reset
  <2> QED BY <1>2, <2>2
<1>3. CASE at = 1
  <2>1. d = [chip EXCEPT !.cs = (1 = 1)]
    BY <1>3 DEF onCreate, Effects, Call
  <2> QED BY <1>1, <1>3, <2>1 DEF Chips
<1>4. ASSUME at >= 2
      PROVE  d \in Registers(onCreate[at + 1].name, onCreate[at + 1].arg, chip)
  <2>1. at \in {2, 3, 4, 5, 6, 7} /\ Responds(chip)
    BY <1>1, <1>4 DEF Responds
  <2> QED BY <2>1 DEF onCreate, Effects, Call
<1>5. CASE at = 2
  <2>1. d = Reset(chip)
    BY <1>4, <1>5 DEF onCreate, Call, Registers, Scanning
  <2> QED BY <1>1, <1>5, <2>1 DEF Reset, Chips
<1>6. CASE at = 3
  <2>1. d = [chip EXCEPT !.mode = ModeOf(QND_MODE_RX)]
    BY <1>4, <1>6 DEF onCreate, Call, Registers, Scanning
  <2> QED BY <1>1, <1>6, <2>1 DEF Chips, ModeOf
<1>7. CASE at = 4
  <2>1. d = [chip EXCEPT !.ch = 9150]
    BY <1>4, <1>7 DEF onCreate, Call, Registers, Scanning
  <2> QED BY <1>1, <1>7, <2>1 DEF Chips
<1>8. CASE at = 5
  <2>1. d = [chip EXCEPT !.rds = (1 = 1)]
    BY <1>4, <1>8 DEF onCreate, Call, Registers, Scanning
  <2> QED BY <1>1, <1>8, <2>1 DEF Chips
<1>9. CASE at = 6
  <2>1. d = [chip EXCEPT !.rdsd = RawData(buffer)]
    BY <1>4, <1>9 DEF onCreate, Call, Registers, Scanning, LoadData
  <2> HIDE DEF Established
  <2>2. /\ d.on = chip.on /\ d.cs = chip.cs /\ d.mode = chip.mode
        /\ d.ch = chip.ch /\ d.rds = chip.rds
    BY <1>1, <2>1 DEF Chips
  <2> QED BY <1>9, <2>2 DEF Established
<1>10. CASE at = 7
  <2>1. d = chip
    BY <1>4, <1>10 DEF onCreate, Call, Registers, Scanning
  <2> QED BY <1>10, <2>1
<1> QED BY <1>1, <1>2, <1>3, <1>5, <1>6, <1>7, <1>8, <1>9, <1>10

LEMMA SharedStep == TypeOK /\ SharedInv /\ [Next]_vars => SharedInv'
<1> SUFFICES ASSUME TypeOK, SharedInv, [Next]_vars PROVE SharedInv'
  OBVIOUS
<1> USE DEF SharedInv
<1>1. stage \in [Clients -> {"idle", "jni", "driver"}]
  BY DEF TypeOK
<1>2. CASE ServerStarts \/ Recreated \/ GroupArrives \/ UNCHANGED vars
  BY <1>2 DEF ServerStarts, Recreated, GroupArrives, vars
<1>3. CASE ServerDies
  BY <1>3 DEF ServerDies, Gone
<1>4. ASSUME NEW c \in Clients, NEW op, Calls(c, op)
      PROVE  SharedInv'
  BY <1>1, <1>4 DEF Calls
<1>5. ASSUME NEW c \in Clients, Fails(c)
      PROVE  SharedInv'
  BY <1>1, <1>5 DEF Fails, Returns
<1>6. ASSUME NEW c \in Clients, Enter(c)
      PROVE  SharedInv'
  BY <1>1, <1>6 DEF Enter
<1>7. ASSUME NEW c \in Clients, Leave(c)
      PROVE  SharedInv'
  BY <1>1, <1>7 DEF Leave, Returns
<1>8. CASE AppCalls
  BY <1>4, <1>8 DEF AppCalls, Clients
<1>9. CASE \E c \in Others : OtherCalls(c)
  BY <1>4, <1>9 DEF OtherCalls, Clients
<1> QED BY <1>2, <1>3, <1>5, <1>6, <1>7, <1>8, <1>9 DEF Next

LEMMA CleanStep ==
    TypeOK /\ TurnInv /\ SharedInv /\ CleanInv /\ [Next]_vars => CleanInv'
<1> SUFFICES ASSUME TypeOK, TurnInv, SharedInv, CleanInv, [Next]_vars, clean'
             PROVE  /\ \A c \in Others : stage'[c] # "driver"
                    /\ App \notin overlapped'
                    /\ Established(at)'
  BY DEF CleanInv
<1>1. App \in Clients /\ Others \subseteq Clients /\ App \notin Others
  BY OthersAssumption DEF OthersAssumption, Clients
<1>2. stage \in [Clients -> {"idle", "jni", "driver"}]
  BY DEF TypeOK
<1>3. CASE ServerStarts \/ UNCHANGED vars
  <2>1. UNCHANGED <<chip, stage, overlapped, at, clean>>
    BY <1>3 DEF ServerStarts, vars
  <2>2. clean
    BY <2>1
  <2> QED BY <2>1, <2>2 DEF CleanInv, Established
<1>4. CASE ServerDies \/ Recreated
  BY <1>4 DEF ServerDies, Gone, Recreated
<1>5. CASE AppCalls
  <2>1. stage' = [stage EXCEPT ![App] = "jni"] /\ UNCHANGED <<overlapped, chip, at>>
    BY <1>5 DEF AppCalls, Calls
  <2>2. CASE at = 0
    <3>1. Free
      BY <1>5, <2>2 DEF AppCalls
    <3> QED BY <1>1, <1>2, <2>1, <2>2, <3>1 DEF Free, SharedInv, Established
  <2>3. CASE at # 0
    <3>1. clean
      BY <1>5, <2>3 DEF AppCalls
    <3> QED BY <1>1, <1>2, <2>1, <3>1 DEF CleanInv, Established
  <2> QED BY <2>2, <2>3
<1>6. CASE \E c \in Others : OtherCalls(c)
  <2>1. PICK c \in Others, op \in ServiceCalls : Calls(c, op) /\ UNCHANGED clean
    BY <1>6 DEF OtherCalls
  <2> QED BY <1>1, <1>2, <2>1 DEF Calls, CleanInv, Established
<1>7. ASSUME NEW c \in Clients, Fails(c)
      PROVE  CleanInv'
  <2>1. clean /\ c # App
    BY <1>7 DEF Fails
  <2> QED BY <1>1, <1>2, <1>7, <2>1 DEF Fails, Returns, CleanInv, Established
<1>8. ASSUME NEW c \in Clients, Enter(c)
      PROVE  CleanInv'
  <2>1. clean /\ c = App /\ Free
    BY <1>8 DEF Enter
  <2> QED BY <1>1, <1>2, <1>8, <2>1 DEF Enter, CleanInv, Established
<1>9. ASSUME NEW c \in Clients, Leave(c)
      PROVE  CleanInv'
  <2>1. clean /\ stage[c] = "driver"
    BY <1>9 DEF Leave
  <2>2. c = App /\ App \notin overlapped /\ Established(at)
    BY <2>1, <1>1 DEF CleanInv, Clients
  <2>3. at < Len(onCreate) /\ call[App] = onCreate[at + 1]
    BY <2>1, <2>2 DEF TurnInv
  <2>4. chip' \in Effects(onCreate[at + 1], chip) /\ at' = at + 1
    BY <1>9, <2>2, <2>3 DEF Leave, Returns
  <2>5. Established(at)'
    BY <2>2, <2>3, <2>4, NextCall
  <2> QED BY <1>1, <1>2, <1>9, <2>1, <2>2, <2>5 DEF Leave, Returns, CleanInv
<1>10. CASE GroupArrives
  <2>1. /\ chip'.on = chip.on /\ chip'.cs = chip.cs /\ chip'.mode = chip.mode
        /\ chip'.ch = chip.ch /\ chip'.rds = chip.rds
    BY <1>10 DEF GroupArrives, TypeOK, Chips
  <2> QED BY <1>10, <2>1 DEF GroupArrives, CleanInv, Established
<1> QED BY <1>3, <1>4, <1>5, <1>6, <1>7, <1>8, <1>9, <1>10 DEF Next, CleanInv

(* Whatever the radio was before, and whatever other clients ask of it     *)
(* before and after, an onCreate with the driver to itself leaves it       *)
(* receiving 91.5 MHz with RDS.                                            *)
THEOREM Establishes == Spec => []AppEstablishes
<1> DEFINE IInv == TypeOK /\ TurnInv /\ SharedInv /\ CleanInv
<1>1. Init => IInv
  BY TypeInit DEF Init, SharedInv, CleanInv
<1>2. IInv /\ [Next]_vars => IInv'
  BY TypeStep, SharedStep, CleanStep
<1>3. IInv => AppEstablishes
  BY OnCreateCalls DEF CleanInv, Established, AppEstablishes, Responds
<1> QED BY <1>1, <1>2, <1>3, PTL DEF Spec
=============================================================================
