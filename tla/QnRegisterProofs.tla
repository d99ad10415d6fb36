-------------------------- MODULE QnRegisterProofs --------------------------
(***************************************************************************)
(* The registers of the FM chip: what any sequence of the driver's calls   *)
(* keeps in them, whatever filter the chip resets to (QnApi), and that an  *)
(* access of one of them over the bus is the register operation the calls  *)
(* take it for (QnI2c).                                                    *)
(***************************************************************************)
EXTENDS QnApi, QnI2c, TLAPS

(* A sleep has saved the mode it found.                                    *)
SavedInv == last = "SLEEP" => prevMode = before

(* One step of the driver, without the bookkeeping of the last call.       *)
LEMMA Steps ==
    ASSUME [Next]_vars, ~UNCHANGED vars
    PROVE  \/ last' = "POWER" /\ PowerCycle
           \/ last' = "INIT" /\ QND_Init
           \/ last' = "SET_FQ" /\ TuneToCH
           \/ last' = "GET_RSSI" /\ GetRSSI
           \/ last' = "TXCLEARCHSCAN" /\ TXClearChannelScan
           \/ last' = "AUDIO_CONFIG" /\ \E mono, muted \in BOOLEAN : RXConfigAudio(mono, muted)
           \/ last' = "RDSENABLE" /\ \E on \in BOOLEAN : RDSEnable(on)
           \/ \E name \in DOMAIN ModeValue : last' = name /\ SetSysMode(name)
           \/ \E name \in {"RXSEEKCH", "RXSEEKCHALL"}, again \in BOOLEAN,
                 outcome \in ProbeOutcomes : last' = name /\ RXSeekCH(name, again, outcome)
BY DEF Next, PowerCycle, QND_Init, TuneToCH, GetRSSI, TXClearChannelScan,
    RXConfigAudio, RDSEnable, SetSysMode, RXSeekCH, Called

LEMMA Modes == DOMAIN ModeValue = {"SLEEP", "WAKEUP", "DEFAULT", "RX", "TX", "FM"}
BY DEF ModeValue

-----------------------------------------------------------------------------
(* Settings of the channel filter.                                         *)
LEMMA FilterValues ==
    /\ AutoFilter \in Filters /\ Filter2 \in Filters /\ ScanFilter \in Filters
    /\ \A f \in Filters : f - ((f \div 8) % 2) * 8 \in Filters
<1>1. 0 = 8 * 0 /\ 40 = 8 * 5 /\ 56 = 8 * 7
    OBVIOUS
<1>2. AutoFilter \in Filters /\ Filter2 \in Filters /\ ScanFilter \in Filters
    BY <1>1 DEF Filters, AutoFilter, Filter2, ScanFilter
<1>3. ASSUME NEW f \in Filters PROVE f - ((f \div 8) % 2) * 8 \in Filters
    <2>1. PICK i \in 0..7 : f = 8 * i
        BY DEF Filters
    <2>2. f \div 8 = i
        BY <2>1
    <2>3. PICK r \in {0, 1} : r = i % 2 /\ i - r \in 0..7
        BY <2>1
    <2>4. (f \div 8) % 2 = r
        BY <2>2, <2>3
    <2>5. f - r * 8 = 8 * (i - r)
        BY <2>1, <2>3
    <2> QED BY <2>3, <2>4, <2>5 DEF Filters
<1> QED BY <1>2, <1>3

(* Every field of a chip but the one given.                                *)
LEMMA SetBitsIs ==
    ASSUME NEW c \in ChipType, NEW mask \in SUBSET Bits, NEW bits \in SUBSET Bits
    PROVE  /\ SetBits(c, mask, bits) \in ChipType
           /\ SetBits(c, mask, bits).SYSTEM1 = (c.SYSTEM1 \ mask) \cup (bits \cap mask)
           /\ SetBits(c, mask, bits).muted = c.muted
           /\ SetBits(c, mask, bits).filter = c.filter
           /\ SetBits(c, mask, bits).mono = c.mono
BY DEF SetBits, ChipType

(* What a helper keeps: RDS, and a mode that does not transmit.            *)
Keeps(c, d) ==
    /\ d \in ChipType
    /\ "RDSEN" \in d.SYSTEM1 <=> "RDSEN" \in c.SYSTEM1
    /\ c.SYSTEM1 \cap R_TXRX_MASK = {"RXREQ"} => d.SYSTEM1 \cap R_TXRX_MASK = {"RXREQ"}
    /\ "TXREQ" \notin c.SYSTEM1 => "TXREQ" \notin d.SYSTEM1

LEMMA ListenIs ==
    ASSUME NEW c \in ChipType PROVE Keeps(c, ListenTo(c))
<1> PICK s, m : s = SetBits(c, R_TXRX_MASK, {"RXREQ"}) /\ m = SysMode(c, "RXREQ")
    OBVIOUS
<1>1. /\ s \in ChipType
      /\ s.SYSTEM1 = (c.SYSTEM1 \ R_TXRX_MASK) \cup {"RXREQ"}
    BY SetBitsIs DEF R_TXRX_MASK, Bits
<1>2. m \in ChipType /\ m.SYSTEM1 = s.SYSTEM1
    BY <1>1 DEF SysMode, ChipType
<1>3. /\ ListenTo(c) \in ChipType
      /\ ListenTo(c).SYSTEM1 = (m.SYSTEM1 \ {"CCA_CH_DIS"}) \cup {"CCA_CH_DIS"}
    BY <1>2, SetBitsIs DEF ListenTo, Bits
<1> QED BY <1>1, <1>2, <1>3 DEF Keeps, R_TXRX_MASK

LEMMA ClearScanIs ==
    ASSUME NEW c \in ChipType
    PROVE  /\ ClearScan(c) \in ChipType
           /\ "RDSEN" \in ClearScan(c).SYSTEM1 <=> "RDSEN" \in c.SYSTEM1
BY SetBitsIs DEF ClearScan, Bits

LEMMA UpdateIs ==
    ASSUME NEW c \in ChipType, NEW again \in BOOLEAN
    PROVE  Keeps(c, UpdateRSSIn(c, again))
<1>1. ASSUME NEW d \in ChipType
      PROVE  UpdateBands(d) \in ChipType /\ UpdateBands(d).SYSTEM1 = d.SYSTEM1
    <2>1. ListenTo(ClearScan(d)) \in ChipType
        BY ClearScanIs, ListenIs DEF Keeps
    <2> QED BY <2>1 DEF UpdateBands, ChipType
<1>2. Keeps(c, c) /\ Keeps(c, ListenTo(c))
    BY ListenIs DEF Keeps
<1>3. ASSUME NEW d, Keeps(c, d) PROVE Keeps(c, UpdateBands(d))
    BY <1>1, <1>3 DEF Keeps
<1> QED BY <1>2, <1>3 DEF UpdateRSSIn

LEMMA TuneIs ==
    ASSUME NEW c \in ChipType
    PROVE  Keeps(c, Tune(c)) /\ ("TXREQ" \notin c.SYSTEM1 => ~Tune(c).muted)
<1> DEFINE t == SetBits(c, {"CCA_CH_DIS"}, {"CCA_CH_DIS"})
<1>1. /\ t \in ChipType
      /\ t.SYSTEM1 = (c.SYSTEM1 \ {"CCA_CH_DIS"}) \cup {"CCA_CH_DIS"}
    BY SetBitsIs DEF Bits
<1> HIDE DEF t
<1>2. Tune(c) \in ChipType /\ Tune(c).SYSTEM1 = t.SYSTEM1
    BY <1>1, FilterValues DEF Tune, t, ChipType
<1>3. "TXREQ" \notin c.SYSTEM1 => ~Tune(c).muted
    BY <1>1 DEF Tune, t, ChipType
<1> QED BY <1>1, <1>2, <1>3 DEF Keeps, R_TXRX_MASK

LEMMA SeekIs ==
    ASSUME NEW c \in ChipType, NEW again \in BOOLEAN, NEW outcome \in ProbeOutcomes
    PROVE  /\ Keeps(c, Seek(c, again, outcome))
           /\ "TXREQ" \notin c.SYSTEM1 => ~Seek(c, again, outcome).muted
<1> PICK silent : silent = [c EXCEPT !.muted = TRUE, !.filter = ScanFilter]
    OBVIOUS
<1>1. silent \in ChipType /\ silent.SYSTEM1 = c.SYSTEM1
    <2>1. [c EXCEPT !.muted = TRUE] \in ChipType
          /\ [c EXCEPT !.muted = TRUE].SYSTEM1 = c.SYSTEM1
        BY DEF ChipType
    <2>2. silent = [[c EXCEPT !.muted = TRUE] EXCEPT !.filter = ScanFilter]
        OBVIOUS
    <2> QED BY <2>1, <2>2, FilterValues DEF ChipType
<1> PICK u : u = UpdateRSSIn(silent, again)
    OBVIOUS
<1>2. Keeps(c, u)
    BY <1>1, UpdateIs DEF Keeps
<1> PICK p : p = Probed(u, outcome)
    OBVIOUS
<1>3. Keeps(u, p)
    <2>1. outcome \in SUBSET {"RXREQ", "CHSC", "CCA_CH_DIS"} /\ "RXREQ" \in outcome
        BY DEF ProbeOutcomes
    <2>2. outcome \in SUBSET Bits /\ {"RXREQ", "CHSC", "CCA_CH_DIS"} \in SUBSET Bits
        BY <2>1 DEF Bits
    <2>3. /\ p \in ChipType
          /\ p.SYSTEM1 = (u.SYSTEM1 \ {"RXREQ", "CHSC", "CCA_CH_DIS"})
                           \cup (outcome \cap {"RXREQ", "CHSC", "CCA_CH_DIS"})
        BY <1>2, <2>2, SetBitsIs DEF Probed, Keeps
    <2> QED BY <2>1, <2>3 DEF Keeps, R_TXRX_MASK
<1>4. Keeps(c, p)
    BY <1>2, <1>3 DEF Keeps
<1>5. Seek(c, again, outcome) = Tune(p)
    BY DEF Seek
<1> QED BY <1>4, <1>5, TuneIs DEF Keeps

-----------------------------------------------------------------------------
LEMMA FreshType == \A c \in Fresh : c \in ChipType /\ [c EXCEPT !.filter = Filter2] \in ChipType
BY FilterAssumption, FilterValues DEF FilterAssumption, Fresh, ChipType, Bits

LEMMA ModeIs ==
    ASSUME NEW c \in ChipType, NEW mode \in {"RXREQ", "TXREQ"}
    PROVE  /\ SysMode(c, mode) \in ChipType
           /\ "RDSEN" \in SysMode(c, mode).SYSTEM1 <=> "RDSEN" \in c.SYSTEM1
<1> PICK s : s = SetBits(c, R_TXRX_MASK, {mode})
    OBVIOUS
<1>0. R_TXRX_MASK \in SUBSET Bits /\ {mode} \in SUBSET Bits
    BY DEF R_TXRX_MASK, Bits
<1>1. s \in ChipType /\ s.SYSTEM1 = (c.SYSTEM1 \ R_TXRX_MASK) \cup ({mode} \cap R_TXRX_MASK)
    BY <1>0, SetBitsIs
<1> QED BY <1>1 DEF SysMode, ChipType, R_TXRX_MASK

LEMMA SleepIs ==
    ASSUME chip \in ChipType, Sleep
    PROVE  /\ chip' \in ChipType /\ prevMode' \in SUBSET Bits
           /\ "RDSEN" \in chip'.SYSTEM1 <=> "RDSEN" \in chip.SYSTEM1
<1>1. R_TXRX_MASK \in SUBSET Bits /\ {"STNBY"} \in SUBSET Bits
    BY DEF R_TXRX_MASK, Bits
<1>2. /\ chip' \in ChipType
      /\ chip'.SYSTEM1 = (chip.SYSTEM1 \ R_TXRX_MASK) \cup ({"STNBY"} \cap R_TXRX_MASK)
    BY <1>1, SetBitsIs DEF Sleep
<1> QED BY <1>2 DEF Sleep, ChipType, R_TXRX_MASK

LEMMA RdsBits ==
    ASSUME NEW c \in ChipType, NEW bits \in SUBSET Bits
    PROVE  SetBits(c, {"RDSEN"}, bits) \in ChipType
<1>1. {"RDSEN"} \in SUBSET Bits
    BY DEF Bits
<1> QED BY <1>1, SetBitsIs

LEMMA RdsIs ==
    ASSUME NEW c \in ChipType, NEW on \in BOOLEAN
    PROVE  [SetBits(c, {"RDSEN"}, IF on THEN {"RDSEN"} ELSE {})
              EXCEPT !.filter = IF on THEN @ - ((@ \div 8) % 2) * 8 ELSE Filter2] \in ChipType
<1>1. (IF on THEN {"RDSEN"} ELSE {}) \in SUBSET Bits
    BY DEF Bits
<1> PICK s : s = SetBits(c, {"RDSEN"}, IF on THEN {"RDSEN"} ELSE {})
    OBVIOUS
<1>2. s \in ChipType
    BY <1>1, RdsBits
<1> PICK f : f = IF on THEN s.filter - ((s.filter \div 8) % 2) * 8 ELSE Filter2
    OBVIOUS
<1>3. s.filter \in Filters
    BY <1>2 DEF ChipType
<1>4. f \in Filters
    BY <1>3, FilterValues
<1>5. [s EXCEPT !.filter = f] \in ChipType
    BY <1>2, <1>4 DEF ChipType
<1> QED BY <1>5

(* What each call does to the chip and to the saved mode.                  *)
LEMMA CallKeeps ==
    ASSUME TypeOK, [Next]_vars
    PROVE  /\ chip' \in ChipType /\ prevMode' \in SUBSET Bits
           /\ UNCHANGED vars \/ last' \in {"RDSENABLE", "INIT", "POWER", "DEFAULT", "WAKEUP"}
              \/ ("RDSEN" \in chip'.SYSTEM1 <=> "RDSEN" \in chip.SYSTEM1)
<1> DEFINE Goal ==
      /\ chip' \in ChipType /\ prevMode' \in SUBSET Bits
      /\ UNCHANGED vars \/ last' \in {"RDSENABLE", "INIT", "POWER", "DEFAULT", "WAKEUP"}
         \/ ("RDSEN" \in chip'.SYSTEM1 <=> "RDSEN" \in chip.SYSTEM1)
<1>0. chip \in ChipType /\ prevMode \in SUBSET Bits
    BY DEF TypeOK
<1>1. CASE PowerCycle \/ QND_Init
    BY <1>0, <1>1, FreshType DEF PowerCycle, QND_Init, Called
<1>2. CASE TuneToCH
    BY <1>0, <1>2, TuneIs DEF TuneToCH, Keeps
<1>3. CASE GetRSSI
    BY <1>0, <1>3, ListenIs DEF GetRSSI, Keeps
<1>4. CASE TXClearChannelScan
    BY <1>0, <1>4, ClearScanIs DEF TXClearChannelScan
<1>5. ASSUME NEW mono \in BOOLEAN, NEW muted \in BOOLEAN, RXConfigAudio(mono, muted)
      PROVE  Goal
    <2>1. chip' = [[chip EXCEPT !.mono = mono] EXCEPT !.muted = muted]
        BY <1>5 DEF RXConfigAudio
    <2>2. [chip EXCEPT !.mono = mono] \in ChipType
          /\ [chip EXCEPT !.mono = mono].SYSTEM1 = chip.SYSTEM1
        BY <1>0 DEF ChipType
    <2> QED BY <1>0, <1>5, <2>1, <2>2 DEF RXConfigAudio, ChipType
<1>6. ASSUME NEW on \in BOOLEAN, RDSEnable(on) PROVE Goal
    <2>1. chip' \in ChipType
        BY <1>0, <1>6, RdsIs DEF RDSEnable
    <2> QED BY <1>0, <1>6, <2>1 DEF RDSEnable, Called
<1>7. ASSUME NEW name \in DOMAIN ModeValue, SetSysMode(name) PROVE Goal
    <2>1. CASE Sleep
        BY <1>0, <2>1, SleepIs
    <2>2. CASE chip' = [chip EXCEPT !.SYSTEM1 = prevMode] /\ UNCHANGED prevMode
               /\ ModeValue[name] = 1
        <3>1. name = "WAKEUP"
            BY <2>2 DEF ModeValue
        <3> QED BY <1>0, <1>7, <2>2, <3>1 DEF ChipType, SetSysMode, Called
    <2>3. CASE chip' \in Fresh /\ UNCHANGED prevMode /\ ModeValue[name] = 2
        <3>1. name = "DEFAULT"
            BY <2>3 DEF ModeValue
        <3> QED BY <1>0, <1>7, <2>3, <3>1, FreshType DEF SetSysMode, Called
    <2>4. ASSUME NEW mode \in {"RXREQ", "TXREQ"}, chip' = SysMode(chip, mode),
                 UNCHANGED prevMode
          PROVE  Goal
        BY <1>0, <2>4, ModeIs
    <2>5. ModeValue.WAKEUP = 1 /\ ModeValue.DEFAULT = 2
        BY DEF ModeValue
    <2> QED BY <1>7, <2>1, <2>2, <2>3, <2>4, <2>5 DEF SetSysMode
<1>8. ASSUME NEW name \in {"RXSEEKCH", "RXSEEKCHALL"}, NEW again \in BOOLEAN,
             NEW outcome \in ProbeOutcomes, RXSeekCH(name, again, outcome)
      PROVE  Goal
    <2> PICK s : s = Seek(chip, again, outcome)
        OBVIOUS
    <2>1. Keeps(chip, s)
        BY <1>0, SeekIs
    <2>2. chip' = [s EXCEPT !.muted = s.muted /\ name = "RXSEEKCH"]
        BY <1>8 DEF RXSeekCH
    <2> QED BY <1>0, <1>8, <2>1, <2>2 DEF RXSeekCH, Keeps, ChipType
<1>9. CASE UNCHANGED vars
    BY <1>0, <1>9 DEF vars
<1> QED BY <1>1, <1>2, <1>3, <1>4, <1>5, <1>6, <1>7, <1>8, <1>9 DEF Next

(* The registers and the driver's copies of them stay what they can be:    *)
(* above all, the filter is one of the eight the chip has.                 *)
THEOREM TypeCorrect == Spec => []TypeOK
<1>1. Init => TypeOK
    BY FreshType DEF Init, TypeOK, Calls
<1>2. TypeOK /\ [Next]_vars => TypeOK'
    <2> SUFFICES ASSUME TypeOK, [Next]_vars
                 PROVE  firstScan' \in BOOLEAN /\ last' \in Calls /\ before' \in SUBSET Bits
        BY CallKeeps DEF TypeOK
    <2>1. chip.SYSTEM1 \in SUBSET Bits
        BY DEF TypeOK, ChipType
    <2>2. CASE UNCHANGED vars
        BY <2>2 DEF vars, TypeOK
    <2>3. ASSUME NEW name, Called(name), name \in Calls, firstScan' \in BOOLEAN
          PROVE  firstScan' \in BOOLEAN /\ last' \in Calls /\ before' \in SUBSET Bits
        BY <2>1, <2>3 DEF Called
    <2>4. CASE Next
        BY <2>3, <2>4 DEF Next, PowerCycle, QND_Init, TuneToCH, GetRSSI,
            TXClearChannelScan, RXConfigAudio, RDSEnable, SetSysMode, RXSeekCH,
            TypeOK, Calls
    <2> QED BY <2>2, <2>4
<1> QED BY <1>1, <1>2, PTL DEF Spec

(* Nothing but QND_RDSEnable, a restart and a wake-up switches RDS.        *)
THEOREM RdsStays == Spec => RdsKept
<1>1. TypeOK /\ [Next]_vars
        => [last' \notin {"RDSENABLE", "INIT", "POWER", "DEFAULT", "WAKEUP"}
             => ("RDSEN" \in chip'.SYSTEM1) = ("RDSEN" \in chip.SYSTEM1)]_vars
    BY CallKeeps
<1> QED BY <1>1, TypeCorrect, PTL DEF Spec, RdsKept

(* What a tuning, a measurement and a seek do to a receiver.               *)
LEMMA Receives ==
    ASSUME TypeOK, [Next]_vars, ~UNCHANGED vars,
           last' \in {"SET_FQ", "GET_RSSI", "RXSEEKCH", "RXSEEKCHALL"}
    PROVE  /\ Mode = {"RXREQ"} => Mode' = {"RXREQ"}
           /\ last' # "GET_RSSI" /\ "TXREQ" \notin before' => ~chip'.muted
<1>0. chip \in ChipType
    BY DEF TypeOK
<1>1. CASE TuneToCH
    BY <1>0, <1>1, TuneIs DEF TuneToCH, Keeps, Mode, Called
<1>2. CASE last' = "GET_RSSI" /\ GetRSSI
    BY <1>0, <1>2, ListenIs DEF GetRSSI, Keeps, Mode
<1>3. ASSUME NEW name \in {"RXSEEKCH", "RXSEEKCHALL"}, NEW again \in BOOLEAN,
             NEW outcome \in ProbeOutcomes, RXSeekCH(name, again, outcome)
      PROVE  /\ Mode = {"RXREQ"} => Mode' = {"RXREQ"}
             /\ "TXREQ" \notin before' => ~chip'.muted
    <2> PICK s : s = Seek(chip, again, outcome)
        OBVIOUS
    <2>1. Keeps(chip, s) /\ ("TXREQ" \notin chip.SYSTEM1 => ~s.muted)
        BY <1>0, SeekIs
    <2>2. chip' = [s EXCEPT !.muted = s.muted /\ name = "RXSEEKCH"]
        BY <1>3 DEF RXSeekCH
    <2>3. chip'.SYSTEM1 = s.SYSTEM1 /\ (~s.muted => ~chip'.muted)
        BY <2>1, <2>2 DEF Keeps, ChipType
    <2>4. before' = chip.SYSTEM1
        BY <1>3 DEF RXSeekCH, Called
    <2> QED BY <2>1, <2>3, <2>4 DEF Keeps, Mode
<1> QED BY <1>1, <1>2, <1>3, Steps, Modes

(* A receiver stays one through tuning, measuring and seeking, and is      *)
(* audible again after a tuning or a seek.                                 *)
THEOREM Restored == Spec => ReceiverRestored
<1>1. TypeOK /\ [Next]_vars
        => [last' \in {"SET_FQ", "GET_RSSI", "RXSEEKCH", "RXSEEKCHALL"} =>
              /\ Mode = {"RXREQ"} => Mode' = {"RXREQ"}
              /\ last' # "GET_RSSI" /\ "TXREQ" \notin before' => ~chip'.muted]_vars
    BY Receives
<1> QED BY <1>1, TypeCorrect, PTL DEF Spec, ReceiverRestored

-----------------------------------------------------------------------------
(* A wake-up right after a sleep brings back the mode the sleep found.     *)
THEOREM Wakes == Spec => WakeRestores
<1>1. Init => SavedInv
    BY DEF Init, SavedInv
<1>2. SavedInv /\ [Next]_vars => SavedInv'
    <2> SUFFICES ASSUME SavedInv, [Next]_vars, last' = "SLEEP"
                 PROVE  prevMode' = before'
        BY DEF SavedInv
    <2>1. CASE UNCHANGED vars
        BY <2>1 DEF vars, SavedInv
    <2>2. CASE ~UNCHANGED vars
        <3>1. SetSysMode("SLEEP")
            BY <2>2, Steps, Modes
        <3>2. ModeValue["SLEEP"] = 0 /\ ModeValue.SLEEP = 0 /\ ModeValue.WAKEUP = 1
              /\ ModeValue.DEFAULT = 2 /\ ModeValue.RX = 32768 /\ ModeValue.TX = 16384
            BY DEF ModeValue
        <3>3. Sleep
            BY <3>1, <3>2 DEF SetSysMode
        <3> QED BY <3>1, <3>3 DEF SetSysMode, Sleep, Called
    <2> QED BY <2>1, <2>2
<1>3. SavedInv /\ [Next]_vars
        => [last = "SLEEP" /\ last' = "WAKEUP" => chip'.SYSTEM1 = before]_vars
    <2> SUFFICES ASSUME SavedInv, [Next]_vars, ~UNCHANGED vars, last = "SLEEP",
                        last' = "WAKEUP"
                 PROVE  chip'.SYSTEM1 = before
        OBVIOUS
    <2>1. SetSysMode("WAKEUP")
        BY Steps, Modes
    <2>2. ModeValue["WAKEUP"] = 1 /\ ModeValue.SLEEP = 0 /\ ModeValue.WAKEUP = 1
          /\ ModeValue.DEFAULT = 2 /\ ModeValue.RX = 32768 /\ ModeValue.TX = 16384
        BY DEF ModeValue
    <2>3. chip' = [chip EXCEPT !.SYSTEM1 = prevMode]
        BY <2>1, <2>2 DEF SetSysMode
    <2> QED BY <2>3 DEF SavedInv
<1> QED BY <1>1, <1>2, <1>3, PTL DEF Spec, WakeRestores

-----------------------------------------------------------------------------
(* Bytes on the wire.                                                      *)

(* The number that the first k bits of a byte make.                        *)
Prefix(v, k) == v \div <<256, 128, 64, 32, 16, 8, 4, 2, 1>>[k + 1]

LEMMA PrefixEnds ==
    ASSUME NEW v \in Byte
    PROVE  Prefix(v, 0) = 0 /\ Prefix(v, 8) = v
BY DEF Prefix, Byte

(* Each bit that is taken in doubles what came before and adds itself.     *)
LEMMA PrefixGrows ==
    ASSUME NEW v \in Byte, NEW k \in 0..7
    PROVE  /\ Prefix(v, k) \in 0..127 /\ BitOf(v, k + 1) \in Bit
           /\ Prefix(v, k + 1) = 2 * Prefix(v, k) + BitOf(v, k + 1)
<1> DEFINE scale == <<256, 128, 64, 32, 16, 8, 4, 2, 1>>
<1> DEFINE p == v \div scale[k + 1]
<1> DEFINE q == v \div scale[k + 2]
<1>1. scale[k + 1] = 2 * scale[k + 2] /\ Weight[k + 1] = scale[k + 2]
    BY DEF Weight
<1>2. p \in 0..127 /\ q \in Nat /\ q = 2 * p + (q % 2)
    <2>1. CASE k = 0
        BY <2>1 DEF Byte
    <2>2. CASE k = 1
        BY <2>2 DEF Byte
    <2>3. CASE k = 2
        BY <2>3 DEF Byte
    <2>4. CASE k = 3
        BY <2>4 DEF Byte
    <2>5. CASE k = 4
        BY <2>5 DEF Byte
    <2>6. CASE k = 5
        BY <2>6 DEF Byte
    <2>7. CASE k = 6
        BY <2>7 DEF Byte
    <2>8. CASE k = 7
        BY <2>8 DEF Byte
    <2> QED BY <2>1, <2>2, <2>3, <2>4, <2>5, <2>6, <2>7, <2>8
<1>3. BitOf(v, k + 1) = q % 2
    BY <1>1 DEF BitOf
<1> QED BY <1>2, <1>3 DEF Prefix, Bit

-----------------------------------------------------------------------------
(* What the routines do to the bus, for a chip c that is given the level   *)
(* of the wire when SCL rises.                                             *)
Level(c) == IF c.drive = 0 THEN 0 ELSE 1
Clocked(sda, out, c, w, answers, regs) ==
    Bus(0, sda, out, Fall(Rise(c, w), regs, answers), Stored(Rise(c, w), regs))

LEMMA Lines ==
    ASSUME NEW scl, NEW sda, NEW out, NEW c, NEW regs
    PROVE  /\ Bus(scl, sda, out, c, regs).scl = scl
           /\ Bus(scl, sda, out, c, regs).sda = sda
           /\ Bus(scl, sda, out, c, regs).out = out
           /\ Bus(scl, sda, out, c, regs).receiver = c
           /\ Bus(scl, sda, out, c, regs).regs = regs
           /\ Wire(Bus(scl, sda, out, c, regs)) = IF out = 1 /\ sda = 0 THEN 0 ELSE Level(c)
BY DEF Bus, Wire, Level

(* With SCL low, SDA moves freely; a clock pulse is one bit for the chip.  *)
LEMMA MovesSda ==
    ASSUME NEW sda, NEW out, NEW c, NEW regs, NEW v
    PROVE  /\ Sda(Bus(0, sda, out, c, regs), v) = Bus(0, v, out, c, regs)
           /\ SdaMode(Bus(0, sda, out, c, regs), v) = Bus(0, sda, v, c, regs)
<1>1. \A b, m : b.scl = 0 => SdaEdge(b, m) = m
    BY DEF SdaEdge
<1> QED BY <1>1, Lines DEF Sda, SdaMode

LEMMA RaisesScl ==
    ASSUME NEW sda, NEW out, NEW c, NEW regs
    PROVE  SclHigh(Bus(0, sda, out, c, regs)) =
             Bus(1, sda, out, Rise(c, IF out = 1 /\ sda = 0 THEN 0 ELSE Level(c)), regs)
BY Lines DEF SclHigh

LEMMA HoldsScl ==
    ASSUME NEW sda, NEW out, NEW c, NEW regs, NEW answers
    PROVE  SclLow(Bus(0, sda, out, c, regs), answers) = Bus(0, sda, out, c, regs)
BY Lines DEF SclLow

LEMMA LowersScl ==
    ASSUME NEW sda, NEW out, NEW c, NEW regs, NEW answers
    PROVE  SclLow(Bus(1, sda, out, c, regs), answers) =
             Bus(0, sda, out, Fall(c, regs, answers), Stored(c, regs))
BY Lines DEF SclLow

LEMMA RiseKeepsDrive ==
    ASSUME NEW c, NEW w
    PROVE  Rise(c, w).drive = c.drive
BY DEF Rise, Receiver

LEMMA WritesBit ==
    ASSUME NEW sda, NEW c, NEW regs, NEW i \in Bit, NEW answers, Level(c) = 1
    PROVE  Write_Bit(Bus(0, sda, 1, c, regs), i, answers) = Clocked(i, 1, c, i, answers, regs)
<1>1. Sda(SclLow(Bus(0, sda, 1, c, regs), 1), i) = Bus(0, i, 1, c, regs)
    BY MovesSda, HoldsScl
<1>2. SclHigh(Bus(0, i, 1, c, regs)) = Bus(1, i, 1, Rise(c, i), regs)
    BY RaisesScl DEF Bit
<1> QED BY <1>1, <1>2, LowersScl DEF Write_Bit, Clocked

LEMMA PollsAck ==
    ASSUME NEW sda, NEW c, NEW regs
    PROVE  /\ Wire(AckHigh(Bus(0, sda, 1, c, regs))) = Level(c)
           /\ AckLow(AckHigh(Bus(0, sda, 1, c, regs))) = Clocked(sda, 1, c, Level(c), 1, regs)
<1>1. AckHigh(Bus(0, sda, 1, c, regs)) = Bus(1, sda, 0, Rise(c, Level(c)), regs)
    BY MovesSda, RaisesScl, LowersScl DEF AckHigh
<1>2. Level(Rise(c, Level(c))) = Level(c)
    BY RiseKeepsDrive DEF Level
<1>3. SclLow(Bus(1, sda, 0, Rise(c, Level(c)), regs), 1) = Clocked(sda, 0, c, Level(c), 1, regs)
    BY LowersScl DEF Clocked
<1>4. SdaMode(Clocked(sda, 0, c, Level(c), 1, regs), 1) = Clocked(sda, 1, c, Level(c), 1, regs)
    BY MovesSda DEF Clocked
<1>5. Wire(Bus(1, sda, 0, Rise(c, Level(c)), regs)) = Level(c)
    BY <1>2, Lines
<1> QED BY <1>1, <1>3, <1>4, <1>5 DEF AckLow

LEMMA ReadsBit ==
    ASSUME NEW sda, NEW c, NEW regs, NEW k \in 1..8, NEW out, out = IF k = 1 THEN 1 ELSE 0
    PROVE  /\ Wire(ReadHigh(Bus(0, sda, out, c, regs), k)) = Level(c)
           /\ ReadLow(ReadHigh(Bus(0, sda, out, c, regs), k), k) =
                Clocked(sda, IF k = 8 THEN 1 ELSE 0, c, Level(c), 1, regs)
<1>1. ReadHigh(Bus(0, sda, out, c, regs), k) = Bus(1, sda, 0, Rise(c, Level(c)), regs)
    BY MovesSda, RaisesScl, LowersScl DEF ReadHigh
<1>2. Level(Rise(c, Level(c))) = Level(c)
    BY RiseKeepsDrive DEF Level
<1>3. SclLow(Bus(1, sda, 0, Rise(c, Level(c)), regs), 1) = Clocked(sda, 0, c, Level(c), 1, regs)
    BY LowersScl DEF Clocked
<1>4. SdaMode(Clocked(sda, 0, c, Level(c), 1, regs), 1) = Clocked(sda, 1, c, Level(c), 1, regs)
    BY MovesSda DEF Clocked
<1>5. Wire(Bus(1, sda, 0, Rise(c, Level(c)), regs)) = Level(c)
    BY <1>2, Lines
<1> QED BY <1>1, <1>3, <1>4, <1>5 DEF ReadLow

LEMMA SendsAck ==
    ASSUME NEW sda, NEW c, NEW regs
    PROVE  send_ack(Bus(0, sda, 1, c, regs), 1) = Clocked(1, 1, c, Level(c), 1, regs)
<1>1. Sda(SclLow(Bus(0, sda, 1, c, regs), 1), 1) = Bus(0, 1, 1, c, regs)
    BY MovesSda, HoldsScl
<1>2. SclHigh(Bus(0, 1, 1, c, regs)) = Bus(1, 1, 1, Rise(c, Level(c)), regs)
    BY RaisesScl
<1>3. SclLow(Bus(1, 1, 1, Rise(c, Level(c)), regs), 1) = Clocked(1, 1, c, Level(c), 1, regs)
    BY LowersScl DEF Clocked
<1>4. Sda(Clocked(1, 1, c, Level(c), 1, regs), 1) = Clocked(1, 1, c, Level(c), 1, regs)
    BY MovesSda DEF Clocked
<1> QED BY <1>1, <1>2, <1>3, <1>4 DEF send_ack

(* A start condition calls the chip, and a stop condition quiets it, as    *)
(* long as it lets SDA go.                                                 *)
LEMMA Starts ==
    ASSUME NEW regs
    PROVE  i2c_start(Bus(1, 1, 1, Quiet, regs)) =
             Bus(0, 0, 1, Receiver("address", 0, 0, 0, 0, 1), regs)
<1> DEFINE called == Receiver("address", 0, 0, 0, 0, 1)
<1>1. Level(Quiet) = 1 /\ Level(called) = 1
    BY DEF Level, Quiet, Receiver
<1>2. SdaMode(Bus(1, 1, 1, Quiet, regs), 1) = Bus(1, 1, 1, Quiet, regs)
    BY Lines, <1>1 DEF SdaMode, SdaEdge
<1>3. SclHigh(Bus(1, 1, 1, Quiet, regs)) = Bus(1, 1, 1, Quiet, regs)
    BY Lines DEF SclHigh
<1>4. Sda(Bus(1, 1, 1, Quiet, regs), 1) = Bus(1, 1, 1, Quiet, regs)
    BY Lines, <1>1 DEF Sda, SdaEdge
<1>5. Sda(Bus(1, 1, 1, Quiet, regs), 0) = Bus(1, 0, 1, called, regs)
    BY Lines, <1>1 DEF Sda, SdaEdge
<1>6. Fall(called, regs, 1) = called /\ Stored(called, regs) = regs
    BY DEF Fall, Stored, Receiver
<1>7. SclLow(Bus(1, 0, 1, called, regs), 1) = Bus(0, 0, 1, called, regs)
    BY <1>6, LowersScl
<1> HIDE DEF called
<1> QED BY <1>2, <1>3, <1>4, <1>5, <1>7 DEF i2c_start, called

LEMMA Stops ==
    ASSUME NEW sda, NEW c, NEW regs, Level(c) = 1
    PROVE  i2c_stop(Bus(0, sda, 1, c, regs)) = Bus(1, 1, 1, Quiet, regs)
<1>1. Sda(SdaMode(Bus(0, sda, 1, c, regs), 1), 0) = Bus(0, 0, 1, c, regs)
    BY MovesSda, RaisesScl, LowersScl
<1>2. SclHigh(Bus(0, 0, 1, c, regs)) = Bus(1, 0, 1, Rise(c, 0), regs)
    BY MovesSda, RaisesScl, LowersScl
<1>3. Level(Rise(c, 0)) = 1
    BY RiseKeepsDrive DEF Level
<1>4. Sda(Bus(1, 0, 1, Rise(c, 0), regs), 1) = Bus(1, 1, 1, Quiet, regs)
    BY Lines, <1>3 DEF Sda, SdaEdge
<1> QED BY <1>1, <1>2, <1>4 DEF i2c_stop

-----------------------------------------------------------------------------
(* What a clock pulse does to the chip.                                    *)
LEMMA StaysQuiet ==
    ASSUME NEW sda, NEW out, NEW w, NEW answers, NEW regs
    PROVE  Clocked(sda, out, Quiet, w, answers, regs) = Bus(0, sda, out, Quiet, regs)
<1>1. Rise(Quiet, w) = Quiet
    BY DEF Rise, Quiet, Receiver
<1>2. Fall(Quiet, regs, answers) = Quiet /\ Stored(Quiet, regs) = regs
    BY DEF Fall, Stored, Quiet, Receiver
<1> QED BY <1>1, <1>2 DEF Clocked

LEMMA TakesBit ==
    ASSUME NEW st \in {"address", "pointer", "store"}, NEW n \in 0..7, NEW v, NEW w,
           NEW rd, NEW ptr, NEW sda, NEW answers, NEW regs
    PROVE  Clocked(sda, 1, Receiver(st, n, v, rd, ptr, 1), w, answers, regs) =
             Bus(0, sda, 1,
                 IF n < 7 THEN Receiver(st, n + 1, 2 * v + w, rd, ptr, 1)
                 ELSE IF Refuses(Receiver(st, 8, 2 * v + w, rd, ptr, 1), answers) THEN Quiet
                      ELSE Receiver(st, 8, 2 * v + w, rd, ptr, 0),
                 regs)
<1> DEFINE c == Receiver(st, n + 1, 2 * v + w, rd, ptr, 1)
<1>1. Rise(Receiver(st, n, v, rd, ptr, 1), w) = c
    BY DEF Rise, Receiver
<1>2. Stored(c, regs) = regs
    BY DEF Stored, Receiver
<1>3. Fall(c, regs, answers) =
        IF n < 7 THEN c
        ELSE IF Refuses(c, answers) THEN Quiet ELSE Receiver(st, 8, 2 * v + w, rd, ptr, 0)
    BY DEF Fall, Drives, Receiver
<1>4. n < 7 \/ n + 1 = 8
    OBVIOUS
<1> QED BY <1>1, <1>2, <1>3, <1>4 DEF Clocked

(* The acknowledgement of a byte, at whose end the chip stores a value.    *)
LEMMA Acknowledges ==
    ASSUME NEW st \in {"address", "pointer", "store"}, NEW v, NEW w,
           NEW rd, NEW ptr, NEW sda, NEW regs
    PROVE  Clocked(sda, 1, Receiver(st, 8, v, rd, ptr, 0), w, 1, regs) =
             Bus(0, sda, 1, NextByte(Receiver(st, 9, v, rd, ptr, 0), regs),
                 Stored(Receiver(st, 9, v, rd, ptr, 0), regs))
<1> DEFINE c == Receiver(st, 9, v, rd, ptr, 0)
<1>1. Rise(Receiver(st, 8, v, rd, ptr, 0), w) = c
    BY DEF Rise, Receiver
<1>2. Fall(c, regs, 1) = NextByte(c, regs)
    BY DEF Fall, Receiver
<1> QED BY <1>1, <1>2 DEF Clocked

LEMMA SendsBit ==
    ASSUME NEW n \in 0..7, NEW v, NEW d, NEW w, NEW sda, NEW out, NEW regs
    PROVE  Clocked(sda, out, Receiver("send", n, v, 1, 0, d), w, 1, regs) =
             Bus(0, sda, out,
                 Receiver("send", n + 1, v, 1, 0, IF n < 7 THEN BitOf(v, n + 2) ELSE 1), regs)
<1> DEFINE c == Receiver("send", n + 1, v, 1, 0, d)
<1>1. Rise(Receiver("send", n, v, 1, 0, d), w) = c
    BY DEF Rise, Receiver
<1>2. Stored(c, regs) = regs
    BY DEF Stored, Receiver
<1>3. Fall(c, regs, 1) =
        Receiver("send", n + 1, v, 1, 0, IF n < 7 THEN BitOf(v, n + 2) ELSE 1)
    BY DEF Fall, Drives, Receiver
<1> QED BY <1>1, <1>2, <1>3 DEF Clocked

LEMMA EndsSending ==
    ASSUME NEW v, NEW w, NEW sda, NEW regs
    PROVE  Clocked(sda, 1, Receiver("send", 8, v, 1, 0, 1), w, 1, regs) =
             Bus(0, sda, 1, Quiet, regs)
<1> DEFINE c == Receiver("send", 9, v, 1, 0, 1)
<1>1. Rise(Receiver("send", 8, v, 1, 0, 1), w) = c
    BY DEF Rise, Receiver
<1>2. Fall(c, regs, 1) = Quiet /\ Stored(c, regs) = regs
    BY DEF Fall, Stored, Receiver
<1> QED BY <1>1, <1>2 DEF Clocked

-----------------------------------------------------------------------------
(* Where the master and the chip are at each place of an access.           *)

(* An access under way is one of those the driver makes; only a byte that  *)
(* is being moved has some of its bits moved.                              *)
PlaceInv ==
    /\ access \in Accesses \cup {[kind |-> "none"]}
    /\ at # "idle" => access \in Accesses
    /\ at \in {"idle", "start", "address", "retry", "pointer", "value", "read", "ack", "stop"}
    /\ bit \in 0..8
    /\ at \notin {"address", "pointer", "value"} => bit < 8
    /\ at \in {"idle", "start", "retry", "ack", "stop"} => bit = 0
    /\ at \in {"read", "ack"} => access.kind = "read"
    /\ at = "value" => access.kind = "write"
    /\ succ \in Bit
    /\ at \in {"start", "address", "retry"} => succ = 0
    /\ time \in 0..Retries
    /\ at = "retry" => time < Retries
    /\ was \in [Regs -> Byte]

(* The registers: those of the beginning, and an acknowledged write once   *)
(* its value is sent.                                                      *)
Registers == IF at \in {"stop", "idle"} /\ access.kind = "write" /\ succ = 1
               THEN [was EXCEPT ![access.reg] = access.value] ELSE was

(* The bus between two routines of a transfer; the chip c pulls SDA low    *)
(* for an acknowledgement.                                                 *)
Between(out, c) == bus = Bus(0, bus.sda, out, c, Registers)
AckLevel(k) == IF k = 8 THEN 0 ELSE 1

(* The chip follows a transfer it has acknowledged, and is quiet in any    *)
(* other: it listens to each byte written, has taken the same bits, and    *)
(* knows the same register.                                                *)
Follows(c) == Between(1, IF succ = 1 THEN c ELSE Quiet)

AddressInv ==
    at = "address" =>
        \/ Between(1, Receiver("address", bit, Prefix(Slave, bit), 0, 0, AckLevel(bit)))
        \/ bit = 8 /\ Between(1, Quiet)
PointerInv ==
    at = "pointer" =>
        Follows(Receiver("pointer", bit, Prefix(access.reg, bit), Slave % 2, 0, AckLevel(bit)))
ValueInv ==
    at = "value" =>
        Follows(Receiver("store", bit, Prefix(access.value, bit), 0, access.reg, AckLevel(bit)))
Asked == was[access.reg]
ReadInv ==
    at = "read" =>
        Between(IF bit = 0 THEN 1 ELSE 0,
                IF succ = 1 THEN Receiver("send", bit, Asked, 1, 0, BitOf(Asked, bit + 1))
                ELSE Quiet)
AckInv == at = "ack" => Follows(Receiver("send", 8, Asked, 1, 0, 1))
EndInv ==
    /\ at = "stop" =>
        IF access.kind = "write" THEN Follows(Receiver("store", 0, 0, 0, access.reg, 1))
        ELSE Between(1, Quiet)
    /\ at = "retry" => Between(1, Quiet)
    /\ at \in {"idle", "start"} => bus = Bus(1, 1, 1, Quiet, Registers)

(* What has been read: so many bits of the register, or of a byte of ones. *)
DataInv ==
    data = IF access.kind = "read" /\ at \in {"read", "ack", "stop", "idle"}
             THEN Prefix(IF succ = 1 THEN Asked ELSE 255, IF at = "read" THEN bit ELSE 8)
             ELSE 0

LineInv == bus.sda \in Bit

BusInv ==
    /\ PlaceInv /\ LineInv /\ DataInv
    /\ AddressInv /\ PointerInv /\ ValueInv /\ ReadInv /\ AckInv /\ EndInv

LEMMA AccessBytes ==
    ASSUME PlaceInv, access \in Accesses
    PROVE  /\ access.kind \in {"read", "write"}
           /\ access.reg \in Regs /\ access.reg \in Byte
           /\ access.kind = "write" => access.value \in Byte
           /\ Slave \in Byte /\ Slave \div 2 = QN8006_I2C_ADDR
           /\ Slave % 2 = IF access.kind = "read" THEN 1 ELSE 0
           /\ Asked \in Byte
<1>1. access.kind \in {"read", "write"} /\ access.reg \in Regs /\ access.reg \in Byte
    BY RegsAssumption DEF Accesses, Byte
<1>2. access.kind = "write" => access.value \in Byte
    BY ValuesAssumption DEF Accesses, Byte
<1>3. /\ Slave \in Byte /\ Slave \div 2 = QN8006_I2C_ADDR
      /\ Slave % 2 = IF access.kind = "read" THEN 1 ELSE 0
    BY <1>1 DEF Slave, QN8006_I2C_ADDR, Byte
<1>4. Asked \in Byte
    BY <1>1 DEF Asked, PlaceInv
<1> QED BY <1>1, <1>2, <1>3, <1>4

(* The fields of the places, for the steps that leave some of them alone.  *)
LEMMA StartsQuiet == BusInit => BusInv
<1> SUFFICES ASSUME BusInit PROVE BusInv
    OBVIOUS
<1> USE DEF BusInit
<1>1. access.kind = "none" /\ Registers = was /\ bus = Bus(1, 1, 1, Quiet, was)
    BY DEF Registers
<1>2. PlaceInv
    BY DEF PlaceInv, Bit, Byte, Retries
<1>3. LineInv /\ DataInv
    BY <1>1, Lines DEF LineInv, DataInv, Bit
<1>4. AddressInv /\ PointerInv /\ ValueInv /\ ReadInv /\ AckInv /\ EndInv
    BY <1>1 DEF AddressInv, PointerInv, ValueInv, ReadInv, AckInv, EndInv
<1> QED BY <1>2, <1>3, <1>4 DEF BusInv

LEMMA AccessStep ==
    ASSUME BusInv, NEW c \in Accesses, Access(c)
    PROVE  BusInv'
<1> USE DEF BusInv, Access
<1>1. bus = Bus(1, 1, 1, Quiet, Registers) /\ bus.regs = Registers
    BY Lines DEF EndInv
<1>2. Registers \in [Regs -> Byte]
    <2>1. CASE access \in Accesses
        BY <2>1, AccessBytes DEF Registers, PlaceInv
    <2>2. CASE access = [kind |-> "none"]
        BY <2>2 DEF Registers, PlaceInv
    <2> QED BY <2>1, <2>2 DEF PlaceInv
<1>3. Registers' = Registers
    BY <1>1 DEF Registers
<1>4. PlaceInv'
    BY <1>1, <1>2 DEF PlaceInv, Bit, Retries
<1>5. LineInv' /\ DataInv'
    BY DEF LineInv, DataInv
<1>6. EndInv'
    BY <1>1, <1>3 DEF EndInv
<1>7. (AddressInv /\ PointerInv /\ ValueInv /\ ReadInv /\ AckInv)'
    BY DEF AddressInv, PointerInv, ValueInv, ReadInv, AckInv
<1> QED BY <1>4, <1>5, <1>6, <1>7

LEMMA StartStep ==
    ASSUME BusInv, Start
    PROVE  BusInv'
<1> USE DEF BusInv, Start
<1>1. bus = Bus(1, 1, 1, Quiet, was) /\ Registers' = was
    BY DEF EndInv, Registers
<1>2. bus' = Bus(0, 0, 1, Receiver("address", 0, 0, 0, 0, 1), was) /\ bus'.sda = 0
    BY <1>1, Starts, Lines
<1>3. PlaceInv'
    BY DEF PlaceInv
<1>4. LineInv' /\ DataInv'
    BY <1>2 DEF LineInv, DataInv, Bit
<1>5. AddressInv'
    <2>1. Slave' \in Byte
        BY <1>3, AccessBytes DEF Slave, PlaceInv
    <2>2. Prefix(Slave', 0) = 0
        BY <2>1, PrefixEnds
    <2>3. bit' = 0 /\ was' = was
        BY DEF PlaceInv
    <2> QED BY <1>1, <1>2, <2>2, <2>3 DEF AddressInv, Between, AckLevel
<1>6. (PointerInv /\ ValueInv /\ ReadInv /\ AckInv /\ EndInv)'
    BY DEF PointerInv, ValueInv, ReadInv, AckInv, EndInv
<1> QED BY <1>3, <1>4, <1>5, <1>6

(* A byte written: the bits moved stay a prefix of it on both sides.       *)
LEMMA WriteStep ==
    ASSUME BusInv, NEW answers \in Bit, Write_Byte(answers)
    PROVE  BusInv'
<1> USE DEF BusInv, Write_Byte
<1> DEFINE sent == BitOf(Data, bit + 1)
<1>1. access \in Accesses /\ bit \in 0..7
    BY DEF PlaceInv
<1>2. Data \in Byte
    BY <1>1, AccessBytes DEF Data, PlaceInv
<1>3. /\ sent \in Bit /\ Prefix(Data, bit) \in 0..127
      /\ Prefix(Data, bit + 1) = 2 * Prefix(Data, bit) + sent
    BY <1>1, <1>2, PrefixGrows
<1>4. Registers = was /\ Registers' = was /\ AckLevel(bit) = 1
    BY <1>1 DEF Registers, AckLevel
<1>5. AckLevel(bit') = (IF bit < 7 THEN 1 ELSE 0) /\ (bit = 7 => bit + 1 = 8)
    BY <1>1 DEF AckLevel
<1> HIDE DEF sent
<1>6. ASSUME NEW st \in {"address", "pointer", "store"}, NEW rd, NEW ptr,
             bus = Bus(0, bus.sda, 1, Receiver(st, bit, Prefix(Data, bit), rd, ptr, 1), was)
      PROVE  bus' = Bus(0, sent, 1,
                        IF /\ bit' = 8
                           /\ Refuses(Receiver(st, 8, Prefix(Data, 8), rd, ptr, 1), answers)
                          THEN Quiet
                          ELSE Receiver(st, bit', Prefix(Data, bit'), rd, ptr, AckLevel(bit')),
                        was)
    <2> DEFINE c == Receiver(st, bit, Prefix(Data, bit), rd, ptr, 1)
    <2>1. Level(c) = 1
        BY DEF Level, Receiver
    <2>2. bus' = Clocked(sent, 1, c, sent, answers, was)
        BY <1>3, <1>6, <2>1, WritesBit DEF sent
    <2> QED BY <2>2, <1>1, <1>3, <1>5, TakesBit
<1>7. ASSUME bus = Bus(0, bus.sda, 1, Quiet, was)
      PROVE  bus' = Bus(0, sent, 1, Quiet, was)
    <2>1. Level(Quiet) = 1
        BY DEF Level, Quiet, Receiver
    <2>2. bus' = Clocked(sent, 1, Quiet, sent, answers, was)
        BY <1>3, <1>7, <2>1, WritesBit DEF sent
    <2> QED BY <2>2, StaysQuiet
<1>8. PlaceInv'
    BY <1>1 DEF PlaceInv
<1>9. DataInv'
    BY <1>1 DEF DataInv
<1>10. (ReadInv /\ AckInv /\ EndInv)'
    BY DEF ReadInv, AckInv, EndInv
<1>11. CASE at = "address"
    <2>1. Data = Slave /\ Slave' = Slave
        BY <1>11 DEF Data, Slave
    <2> DEFINE c == Receiver("address", bit', Prefix(Slave, bit'), 0, 0, AckLevel(bit'))
    <2>2. bus' = Bus(0, sent, 1, c, was) \/ (bit' = 8 /\ bus' = Bus(0, sent, 1, Quiet, was))
        <3>1. bus = Bus(0, bus.sda, 1, Receiver("address", bit, Prefix(Data, bit), 0, 0, 1), was)
            BY <1>4, <1>11, <2>1 DEF AddressInv, Between
        <3> QED BY <1>6, <2>1, <3>1
    <2>3. bus'.sda = sent
        BY <2>2, Lines
    <2>4. AddressInv'
        BY <1>4, <2>1, <2>2, <2>3 DEF AddressInv, Between
    <2>5. LineInv' /\ (PointerInv /\ ValueInv)'
        BY <1>3, <1>11, <2>3 DEF LineInv, PointerInv, ValueInv
    <2> QED BY <1>8, <1>9, <1>10, <2>4, <2>5
<1>12. CASE at = "pointer"
    <2> DEFINE c == Receiver("pointer", bit', Prefix(access.reg, bit'), Slave % 2, 0,
                             AckLevel(bit'))
    <2>1. Data = access.reg /\ Slave' = Slave
        BY <1>12 DEF Data, Slave
    <2>2. \A v, rd, ptr, d : ~Refuses(Receiver("pointer", 8, v, rd, ptr, d), answers)
        BY DEF Refuses, Receiver
    <2>3. bus' = Bus(0, sent, 1, IF succ = 1 THEN c ELSE Quiet, was)
        BY <1>4, <1>6, <1>7, <1>12, <2>1, <2>2 DEF PointerInv, Follows, Between
    <2>4. bus'.sda = sent
        BY <2>3, Lines
    <2>5. PointerInv'
        BY <1>4, <2>1, <2>3, <2>4 DEF PointerInv, Follows, Between
    <2>6. LineInv' /\ (AddressInv /\ ValueInv)'
        BY <1>3, <1>12, <2>4 DEF LineInv, AddressInv, ValueInv
    <2> QED BY <1>8, <1>9, <1>10, <2>5, <2>6
<1>13. CASE at = "value"
    <2> DEFINE c == Receiver("store", bit', Prefix(access.value, bit'), 0, access.reg,
                             AckLevel(bit'))
    <2>1. Data = access.value
        BY <1>13 DEF Data
    <2>2. \A v, rd, ptr, d : ~Refuses(Receiver("store", 8, v, rd, ptr, d), answers)
        BY DEF Refuses, Receiver
    <2>3. bus' = Bus(0, sent, 1, IF succ = 1 THEN c ELSE Quiet, was)
        BY <1>4, <1>6, <1>7, <1>13, <2>1, <2>2 DEF ValueInv, Follows, Between
    <2>4. bus'.sda = sent
        BY <2>3, Lines
    <2>5. ValueInv'
        BY <1>4, <2>1, <2>3, <2>4 DEF ValueInv, Follows, Between
    <2>6. LineInv' /\ (AddressInv /\ PointerInv)'
        BY <1>3, <1>13, <2>4 DEF LineInv, AddressInv, PointerInv
    <2> QED BY <1>8, <1>9, <1>10, <2>5, <2>6
<1> QED BY <1>11, <1>12, <1>13

(* An acknowledged address makes the chip take a register number next; an  *)
(* unanswered one leaves it quiet, whether the address is sent again or    *)
(* not.                                                                    *)
LEMMA CheckAddressStep ==
    ASSUME BusInv, CheckAddress
    PROVE  BusInv'
<1> USE DEF BusInv, CheckAddress
<1>1. access \in Accesses /\ Slave \in Byte /\ Slave' = Slave
    BY AccessBytes DEF PlaceInv, Slave
<1>2. Registers = was /\ Registers' = was
    BY DEF Registers
<1>3. PlaceInv'
    <2>1. succ' \in Bit
        BY DEF Wire, Bit
    <2> QED BY <2>1 DEF PlaceInv, Bit
<1>4. DataInv'
    BY DEF DataInv
<1>5. (AddressInv /\ ValueInv /\ ReadInv /\ AckInv)'
    BY DEF AddressInv, ValueInv, ReadInv, AckInv
<1>6. CASE bus = Bus(0, bus.sda, 1, Receiver("address", 8, Slave, 0, 0, 0), was)
    <2> DEFINE c == Receiver("address", 8, Slave, 0, 0, 0)
    <2> DEFINE n == Receiver("pointer", 0, 0, Slave % 2, 0, 1)
    <2>1. Level(c) = 0
        BY DEF Level, Receiver
    <2>2. /\ succ' = 1
          /\ bus' = Clocked(bus.sda, 1, c, 0, 1, was)
        BY <1>6, <2>1, PollsAck
    <2>3. NextByte(Receiver("address", 9, Slave, 0, 0, 0), was) = n
        BY DEF NextByte, Receiver
    <2>4. Stored(Receiver("address", 9, Slave, 0, 0, 0), was) = was
        BY DEF Stored, Receiver
    <2>5. bus' = Bus(0, bus.sda, 1, n, was) /\ bus'.sda = bus.sda
        BY <2>2, <2>3, <2>4, Acknowledges, Lines
    <2>6. Prefix(access.reg, 0) = 0
        BY <1>1, AccessBytes, PrefixEnds
    <2>7. at' = "pointer"
        BY <2>2
    <2>8. PointerInv'
        BY <1>1, <1>2, <2>2, <2>5, <2>6 DEF PointerInv, Follows, Between, AckLevel
    <2> QED BY <1>3, <1>4, <1>5, <2>5, <2>7, <2>8 DEF LineInv, EndInv
<1>7. CASE bus = Bus(0, bus.sda, 1, Quiet, was)
    <2>1. Level(Quiet) = 1
        BY DEF Level, Quiet, Receiver
    <2>2. succ' = 0 /\ bus' = Bus(0, bus.sda, 1, Quiet, was)
        BY <1>7, <2>1, PollsAck, StaysQuiet
    <2>3. bus'.sda = bus.sda
        BY <2>2, Lines
    <2>4. LineInv' /\ PointerInv' /\ EndInv'
        BY <1>2, <2>2, <2>3 DEF LineInv, PointerInv, EndInv, Follows, Between
    <2> QED BY <1>3, <1>4, <1>5, <2>4
<1>8. Prefix(Slave, 8) = Slave
    BY <1>1, PrefixEnds
<1> QED BY <1>2, <1>6, <1>7, <1>8 DEF AddressInv, Between, AckLevel

LEMMA RetryStep ==
    ASSUME BusInv, Retry
    PROVE  BusInv'
<1> USE DEF BusInv, Retry
<1>1. bus = Bus(0, bus.sda, 1, Quiet, was) /\ Registers' = was
    BY DEF EndInv, Between, Registers
<1>2. Level(Quiet) = 1
    BY DEF Level, Quiet, Receiver
<1>3. bus' = Bus(1, 1, 1, Quiet, was) /\ bus'.sda = 1
    BY <1>1, <1>2, Stops, Lines
<1>4. PlaceInv'
    BY DEF PlaceInv, Retries
<1>5. LineInv' /\ DataInv' /\ EndInv'
    BY <1>1, <1>3 DEF LineInv, DataInv, EndInv, Bit
<1>6. (AddressInv /\ PointerInv /\ ValueInv /\ ReadInv /\ AckInv)'
    BY DEF AddressInv, PointerInv, ValueInv, ReadInv, AckInv
<1> QED BY <1>4, <1>5, <1>6

(* The register number makes the chip send that register or take a value   *)
(* for it, and the end of the value stores it.                             *)
LEMMA CheckAckStep ==
    ASSUME BusInv, CheckAck
    PROVE  BusInv'
<1> USE DEF BusInv, CheckAck
<1>1. access \in Accesses
    BY DEF PlaceInv
<1>2. /\ access.kind \in {"read", "write"} /\ access.reg \in Regs /\ access.reg \in Byte
      /\ access.kind = "write" => access.value \in Byte
      /\ Slave % 2 = IF access.kind = "read" THEN 1 ELSE 0
      /\ Asked \in Byte
    BY <1>1, AccessBytes
<1>3. Registers = was /\ AckLevel(bit) = 0 /\ AckLevel(0) = 1
    BY DEF Registers, AckLevel
<1>4. PlaceInv'
    BY <1>1, <1>2 DEF PlaceInv
<1>5. ASSUME NEW st \in {"address", "pointer", "store"}, NEW v, NEW rd, NEW ptr,
             bus = Bus(0, bus.sda, 1, Receiver(st, 8, v, rd, ptr, 0), was)
      PROVE  bus' = Bus(0, bus.sda, 1, NextByte(Receiver(st, 9, v, rd, ptr, 0), was),
                        Stored(Receiver(st, 9, v, rd, ptr, 0), was))
    BY <1>5, PollsAck, Acknowledges
<1>6. ASSUME bus = Bus(0, bus.sda, 1, Quiet, was)
      PROVE  bus' = Bus(0, bus.sda, 1, Quiet, was)
    BY <1>6, PollsAck, StaysQuiet
<1>7. CASE at = "pointer"
    <2> DEFINE c == Receiver("pointer", 9, access.reg, Slave % 2, 0, 0)
    <2> DEFINE n == IF access.kind = "read"
                      THEN Receiver("send", 0, Asked, 1, 0, BitOf(Asked, 1))
                      ELSE Receiver("store", 0, 0, 0, access.reg, 1)
    <2>1. Prefix(access.reg, 8) = access.reg
        BY <1>2, PrefixEnds
    <2>2. Stored(c, was) = was
        BY DEF Stored, Receiver
    <2>3. NextByte(c, was) = n
        BY <1>2 DEF NextByte, Receiver, Asked
    <2> HIDE DEF n
    <2>4. bus' = Bus(0, bus.sda, 1, IF succ = 1 THEN n ELSE Quiet, was)
        BY <1>3, <1>5, <1>6, <1>7, <2>1, <2>2, <2>3 DEF PointerInv, Follows, Between
    <2>5. bus'.sda = bus.sda
        BY <2>4, Lines
    <2>6. Registers' = was /\ Asked' = Asked
        BY <1>7, <1>2 DEF Registers, Asked
    <2>7. DataInv'
        <3>1. data = 0
            BY <1>7 DEF DataInv
        <3>2. \A v \in Byte : Prefix(v, 0) = 0
            BY PrefixEnds
        <3>3. 255 \in Byte
            BY DEF Byte
        <3> QED BY <1>2, <1>7, <2>6, <3>1, <3>2, <3>3 DEF DataInv
    <2>8. CASE access.kind = "read"
        <3>1. ReadInv'
            BY <1>7, <2>4, <2>5, <2>6, <2>8 DEF ReadInv, Between, n
        <3>2. (LineInv /\ AddressInv /\ PointerInv /\ ValueInv /\ AckInv /\ EndInv)'
            BY <1>7, <2>5, <2>8 DEF LineInv, AddressInv, PointerInv, ValueInv, AckInv, EndInv
        <3> QED BY <1>4, <2>7, <3>1, <3>2
    <2>9. CASE access.kind = "write"
        <3>1. Prefix(access.value, 0) = 0
            BY <1>2, <2>9, PrefixEnds
        <3>2. ValueInv'
            BY <1>3, <1>7, <2>4, <2>5, <2>6, <2>9, <3>1 DEF ValueInv, Follows, Between, n
        <3>3. (LineInv /\ AddressInv /\ PointerInv /\ ReadInv /\ AckInv /\ EndInv)'
            BY <1>7, <2>5, <2>9 DEF LineInv, AddressInv, PointerInv, ReadInv, AckInv, EndInv
        <3> QED BY <1>4, <2>7, <3>2, <3>3
    <2> QED BY <1>2, <2>8, <2>9
<1>8. CASE at = "value"
    <2> DEFINE c == Receiver("store", 9, access.value, 0, access.reg, 0)
    <2> DEFINE n == Receiver("store", 0, 0, 0, access.reg, 1)
    <2>1. access.kind = "write" /\ Prefix(access.value, 8) = access.value
        BY <1>2, <1>8, PrefixEnds DEF PlaceInv
    <2>2. Stored(c, was) = [was EXCEPT ![access.reg] = access.value]
        BY <1>2 DEF Stored, Receiver, PlaceInv
    <2>3. NextByte(c, was) = n
        BY DEF NextByte, Receiver
    <2> HIDE DEF n
    <2>4. Registers' = IF succ = 1 THEN [was EXCEPT ![access.reg] = access.value] ELSE was
        BY <1>8, <2>1 DEF Registers
    <2>5. bus' = Bus(0, bus.sda, 1, IF succ = 1 THEN n ELSE Quiet, Registers')
        BY <1>3, <1>5, <1>6, <1>8, <2>1, <2>2, <2>3, <2>4 DEF ValueInv, Follows, Between
    <2>6. bus'.sda = bus.sda
        BY <2>5, Lines
    <2>7. EndInv'
        BY <1>8, <2>1, <2>5, <2>6 DEF EndInv, Follows, Between, n
    <2>8. LineInv' /\ DataInv'
        BY <1>8, <2>1, <2>6 DEF LineInv, DataInv
    <2>9. (AddressInv /\ PointerInv /\ ValueInv /\ ReadInv /\ AckInv)'
        BY <1>8 DEF AddressInv, PointerInv, ValueInv, ReadInv, AckInv
    <2> QED BY <1>4, <2>7, <2>8, <2>9
<1> QED BY <1>7, <1>8

(* A bit read: the wire carries the next bit of the register, or a one     *)
(* when nobody answers.                                                    *)
LEMMA ReadStep ==
    ASSUME BusInv, Read_Byte
    PROVE  BusInv'
<1> USE DEF BusInv, Read_Byte, ReadBits
<1> DEFINE source == IF succ = 1 THEN Asked ELSE 255
<1> DEFINE out == IF bit = 0 THEN 1 ELSE 0
<1> DEFINE next == IF bit = 7 THEN 1 ELSE 0
<1>1. access \in Accesses /\ access.kind = "read" /\ bit \in 0..7
    BY DEF PlaceInv
<1>2. Asked \in Byte /\ source \in Byte
    BY <1>1, AccessBytes DEF Byte
<1>3. Registers = was /\ Registers' = was /\ Asked' = Asked
    BY <1>1 DEF Registers, Asked
<1>4. PlaceInv'
    BY <1>1 DEF PlaceInv
<1>5. /\ BitOf(source, bit + 1) \in Bit /\ Prefix(source, bit) \in 0..127
      /\ Prefix(source, bit + 1) = 2 * Prefix(source, bit) + BitOf(source, bit + 1)
    BY <1>1, <1>2, PrefixGrows
<1>6. BitOf(255, bit + 1) = 1
    BY <1>1 DEF BitOf, Weight
<1>7. /\ out = IF bit + 1 = 1 THEN 1 ELSE 0
      /\ next = IF bit + 1 = 8 THEN 1 ELSE 0
      /\ bit + 1 \in 1..8
    BY <1>1
<1> HIDE DEF out, next
<1>8. CASE succ = 1
    <2> DEFINE c == Receiver("send", bit, Asked, 1, 0, BitOf(Asked, bit + 1))
    <2> DEFINE n == Receiver("send", bit + 1, Asked, 1, 0,
                             IF bit < 7 THEN BitOf(Asked, bit + 2) ELSE 1)
    <2>1. Level(c) = BitOf(Asked, bit + 1)
        BY <1>5, <1>8 DEF Level, Receiver, Bit
    <2>2. bus = Bus(0, bus.sda, out, c, was)
        BY <1>3, <1>8 DEF ReadInv, Between, out
    <2>3. /\ Wire(ReadHigh(bus, bit + 1)) = Level(c)
          /\ bus' = Clocked(bus.sda, next, c, Level(c), 1, was)
        BY <1>7, <2>2, ReadsBit
    <2>4. bus' = Bus(0, bus.sda, next, n, was)
        BY <1>1, <2>3, SendsBit
    <2>5. data' = Prefix(source, bit + 1)
        <3>1. data = Prefix(source, bit)
            BY <1>1 DEF DataInv
        <3> QED BY <1>5, <1>8, <2>1, <2>3, <3>1 DEF Bit
    <2>6. bus'.sda = bus.sda
        BY <2>4, Lines
    <2>7. LineInv' /\ DataInv'
        BY <1>1, <1>3, <1>8, <2>5, <2>6 DEF LineInv, DataInv
    <2>8. CASE bit < 7
        <3>1. ReadInv'
            BY <1>1, <1>3, <1>8, <2>4, <2>6, <2>8 DEF ReadInv, Between, next
        <3> QED BY <1>1, <1>4, <2>7, <2>8, <3>1
            DEF AddressInv, PointerInv, ValueInv, AckInv, EndInv
    <2>9. CASE bit = 7
        <3>1. AckInv'
            BY <1>3, <1>8, <2>4, <2>6, <2>9 DEF AckInv, Follows, Between, next
        <3> QED BY <1>4, <2>7, <2>9, <3>1
            DEF AddressInv, PointerInv, ValueInv, ReadInv, EndInv
    <2> QED BY <1>1, <2>8, <2>9
<1>9. CASE succ # 1
    <2>1. Level(Quiet) = 1
        BY DEF Level, Quiet, Receiver
    <2>2. bus = Bus(0, bus.sda, out, Quiet, was)
        BY <1>3, <1>9 DEF ReadInv, Between, out
    <2>3. /\ Wire(ReadHigh(bus, bit + 1)) = 1
          /\ bus' = Bus(0, bus.sda, next, Quiet, was)
        BY <1>7, <2>1, <2>2, ReadsBit, StaysQuiet
    <2>4. data' = Prefix(source, bit + 1)
        <3>1. data = Prefix(source, bit)
            BY <1>1 DEF DataInv
        <3> QED BY <1>5, <1>6, <1>9, <2>3, <3>1
    <2>5. bus'.sda = bus.sda
        BY <2>3, Lines
    <2>6. LineInv' /\ DataInv'
        BY <1>1, <1>3, <1>9, <2>4, <2>5 DEF LineInv, DataInv
    <2>7. ReadInv' /\ AckInv'
        BY <1>1, <1>3, <1>9, <2>3, <2>5 DEF ReadInv, AckInv, Follows, Between, next
    <2> QED BY <1>4, <2>6, <2>7 DEF AddressInv, PointerInv, ValueInv, EndInv
<1> QED BY <1>8, <1>9

LEMMA AckStep ==
    ASSUME BusInv, Ack
    PROVE  BusInv'
<1> USE DEF BusInv, Ack
<1>1. access.kind = "read" /\ bit = 0
    BY DEF PlaceInv
<1>2. Registers = was /\ Registers' = was /\ Asked' = Asked
    BY <1>1 DEF Registers, Asked
<1>3. bus' = Bus(0, 1, 1, Quiet, was) /\ bus'.sda = 1
    BY <1>2, SendsAck, EndsSending, StaysQuiet, Lines DEF AckInv, Follows, Between
<1>4. PlaceInv'
    BY DEF PlaceInv
<1>5. LineInv' /\ DataInv' /\ EndInv'
    BY <1>1, <1>2, <1>3 DEF LineInv, DataInv, EndInv, Between, Bit
<1>6. (AddressInv /\ PointerInv /\ ValueInv /\ ReadInv /\ AckInv)'
    BY DEF AddressInv, PointerInv, ValueInv, ReadInv, AckInv
<1> QED BY <1>4, <1>5, <1>6

LEMMA StopStep ==
    ASSUME BusInv, Stop
    PROVE  BusInv'
<1> USE DEF BusInv, Stop
<1>1. Level(Quiet) = 1 /\ Level(Receiver("store", 0, 0, 0, access.reg, 1)) = 1
    BY DEF Level, Quiet, Receiver
<1>2. Registers' = Registers /\ Asked' = Asked
    BY DEF Registers, Asked
<1>3. bus' = Bus(1, 1, 1, Quiet, Registers) /\ bus'.sda = 1
    BY <1>1, Stops, Lines DEF EndInv, Follows, Between
<1>4. PlaceInv'
    BY DEF PlaceInv
<1>5. LineInv' /\ DataInv' /\ EndInv'
    BY <1>2, <1>3 DEF LineInv, DataInv, EndInv, Bit
<1>6. (AddressInv /\ PointerInv /\ ValueInv /\ ReadInv /\ AckInv)'
    BY DEF AddressInv, PointerInv, ValueInv, ReadInv, AckInv
<1> QED BY <1>4, <1>5, <1>6

LEMMA BusSteps ==
    ASSUME BusInv, [BusNext]_busVars
    PROVE  BusInv'
<1>1. CASE UNCHANGED busVars
    BY <1>1 DEF busVars, BusInv, PlaceInv, LineInv, DataInv, AddressInv, PointerInv, ValueInv,
        ReadInv, AckInv, EndInv, Follows, Between, Registers, Asked, Slave
<1>2. CASE \E c \in Accesses : Access(c)
    BY <1>2, AccessStep
<1>3. CASE Start
    BY <1>3, StartStep
<1>4. CASE \E answers \in Bit : Write_Byte(answers)
    BY <1>4, WriteStep
<1>5. CASE CheckAddress
    BY <1>5, CheckAddressStep
<1>6. CASE Retry
    BY <1>6, RetryStep
<1>7. CASE CheckAck
    BY <1>7, CheckAckStep
<1>8. CASE Read_Byte
    BY <1>8, ReadStep
<1>9. CASE Ack
    BY <1>9, AckStep
<1>10. CASE Stop
    BY <1>10, StopStep
<1> QED BY <1>1, <1>2, <1>3, <1>4, <1>5, <1>6, <1>7, <1>8, <1>9, <1>10 DEF BusNext, Master

LEMMA BusIsKept == BusSpec => []BusInv
<1>1. BusInit => BusInv
    BY StartsQuiet
<1>2. BusInv /\ [BusNext]_busVars => BusInv'
    BY BusSteps
<1> QED BY <1>1, <1>2, PTL DEF BusSpec

-----------------------------------------------------------------------------
(* A register access, bit by bit and whatever the chip leaves unanswered,  *)
(* is the register operation its caller takes it for: an acknowledged      *)
(* write stores its value in its register alone, an acknowledged read      *)
(* returns the register, and an access the chip never acknowledged changes *)
(* nothing and reads as all ones.                                          *)
THEOREM AccessesWhole == BusSpec => []TransfersWhole
<1>1. BusInv => TransfersWhole
    <2> SUFFICES ASSUME BusInv, at = "idle", access.kind # "none"
                 PROVE  /\ bus.regs = IF access.kind = "write" /\ succ = 1
                                        THEN [was EXCEPT ![access.reg] = access.value] ELSE was
                        /\ access.kind = "read" =>
                             data = IF succ = 1 THEN bus.regs[access.reg] ELSE 255
        BY DEF TransfersWhole
    <2>1. access \in Accesses /\ Asked \in Byte
        BY AccessBytes DEF BusInv, PlaceInv
    <2>2. bus.regs = Registers
        BY Lines DEF BusInv, EndInv
    <2>3. 255 \in Byte
        BY DEF Byte
    <2> QED BY <2>1, <2>2, <2>3, PrefixEnds DEF BusInv, DataInv, Registers, Asked
<1> QED BY <1>1, BusIsKept, PTL

(* An access, failed or not, gives the bus back: both lines are high and   *)
(* the chip waits for a start.                                             *)
THEOREM ReturnsTheBus == BusSpec => []BusReleased
<1>1. BusInv => BusReleased
    BY Lines DEF BusInv, EndInv, BusReleased
<1> QED BY <1>1, BusIsKept, PTL

(* The chip's receiver stays one of a byte-wide transfer, and no address   *)
(* is sent more than Retries times again.                                  *)
THEOREM BusTypes == BusSpec => []BusTypeOK
<1>1. ASSUME NEW scl \in Bit, NEW out \in Bit, NEW c \in ReceiverType,
             BusInv, bus = Bus(scl, bus.sda, out, c, Registers), Registers \in [Regs -> Byte]
      PROVE  bus \in BusType
    BY <1>1 DEF BusInv, LineInv, Bus, BusType
<1>2. ASSUME NEW n \in 0..8
      PROVE  /\ Quiet \in ReceiverType
             /\ \A st \in {"address", "pointer", "store", "send"} :
                   \A v \in Byte, rd \in Bit, ptr \in Byte, d \in Bit :
                       Receiver(st, n, v, rd, ptr, d) \in ReceiverType
    <2>1. Quiet \in ReceiverType
        BY DEF Quiet, Receiver, ReceiverType, Bit, Byte
    <2>2. ASSUME NEW st \in {"address", "pointer", "store", "send"}, NEW v \in Byte,
                 NEW rd \in Bit, NEW ptr \in Byte, NEW d \in Bit
          PROVE  Receiver(st, n, v, rd, ptr, d) \in ReceiverType
        BY n \in 0..9 DEF Receiver, ReceiverType
    <2> QED BY <2>1, <2>2
<1>3. ASSUME BusInv PROVE BusTypeOK
    <2> USE <1>3 DEF BusInv
    <2>1. 0 \in Bit /\ 1 \in Bit /\ 0 \in Byte /\ 255 \in Byte
        BY DEF Bit, Byte
    <2>2. \A k \in 0..8 : AckLevel(k) \in Bit
        BY DEF AckLevel, Bit
    <2>3. Quiet \in ReceiverType
        BY <1>2
    <2>4. \A v \in Byte, k \in 0..8 : Prefix(v, k) \in Byte
        <3> SUFFICES ASSUME NEW v \in Byte, NEW k \in 0..8 PROVE Prefix(v, k) \in Byte
            OBVIOUS
        <3>1. CASE k = 8
            BY <3>1, PrefixEnds
        <3>2. CASE k \in 0..7
            <4>1. Prefix(v, k) \in 0..127
                BY <3>2, PrefixGrows
            <4> QED BY <4>1 DEF Byte
        <3> QED BY <3>1, <3>2
    <2>5. Registers \in [Regs -> Byte]
        <3>1. CASE access \in Accesses
            BY <3>1, AccessBytes DEF Registers, PlaceInv
        <3>2. CASE access = [kind |-> "none"]
            BY <3>2 DEF Registers, PlaceInv
        <3> QED BY <3>1, <3>2 DEF PlaceInv
    <2>6. bus \in BusType
        <3>1. CASE at \in {"idle", "start"}
            <4>1. bus = Bus(1, 1, 1, Quiet, Registers) /\ bus.sda = 1
                BY <3>1, Lines DEF EndInv
            <4> QED BY <1>1, <2>1, <2>3, <2>5, <4>1
        <3>2. CASE at \notin {"idle", "start"}
            <4>1. access \in Accesses
                BY <3>2 DEF PlaceInv
            <4>2. /\ access.reg \in Byte /\ Slave \in Byte /\ Slave % 2 \in Bit /\ Asked \in Byte
                  /\ access.kind = "write" => access.value \in Byte
                BY <4>1, AccessBytes DEF Bit
            <4>3. \E out \in Bit, c \in ReceiverType : Between(out, c)
                <5>1. CASE at \in {"address", "retry"}
                    BY <1>2, <2>1, <2>2, <2>3, <2>4, <4>2, <5>1
                        DEF AddressInv, EndInv, PlaceInv
                <5>2. CASE at = "pointer"
                    BY <1>2, <2>1, <2>2, <2>3, <2>4, <4>2, <5>2 DEF PointerInv, Follows, PlaceInv
                <5>3. CASE at = "value"
                    BY <1>2, <2>1, <2>2, <2>3, <2>4, <4>2, <5>3 DEF ValueInv, Follows, PlaceInv
                <5>4. CASE at = "read"
                    <6>1. bit \in 0..7 /\ BitOf(Asked, bit + 1) \in Bit
                        BY <4>2, <5>4, PrefixGrows DEF PlaceInv
                    <6> QED BY <1>2, <2>1, <2>3, <4>2, <5>4, <6>1 DEF ReadInv
                <5>5. CASE at = "ack"
                    BY <1>2, <2>1, <2>3, <4>2, <5>5 DEF AckInv, Follows
                <5>6. CASE at = "stop"
                    BY <1>2, <2>1, <2>3, <4>2, <5>6 DEF EndInv, Follows
                <5> QED BY <3>2, <5>1, <5>2, <5>3, <5>4, <5>5, <5>6 DEF PlaceInv
            <4> QED BY <1>1, <2>1, <2>5, <4>3 DEF Between
        <3> QED BY <3>1, <3>2
    <2>7. data \in Byte
        <3>1. CASE access.kind = "read" /\ at \in {"read", "ack", "stop", "idle"}
            <4>1. access \in Accesses
                BY <3>1 DEF PlaceInv
            <4> QED BY <2>1, <2>4, <3>1, <4>1, AccessBytes DEF DataInv, PlaceInv
        <3>2. CASE ~(access.kind = "read" /\ at \in {"read", "ack", "stop", "idle"})
            BY <2>1, <3>2 DEF DataInv
        <3> QED BY <3>1, <3>2
    <2>8. access \in AccessType \cup {[kind |-> "none"]}
        BY DEF PlaceInv, Accesses, AccessType
    <2> QED BY <2>6, <2>7, <2>8 DEF PlaceInv, BusTypeOK
<1> QED BY <1>3, BusIsKept, PTL
=============================================================================
