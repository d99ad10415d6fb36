------------------------------- MODULE QnApi -------------------------------
(***************************************************************************)
(* The FM driver's calls as a sequence of ioctls from one caller: which    *)
(* mode the chip is in, whether its output is muted, which channel filter  *)
(* is selected, and what sleeping and waking up do to them.  One action    *)
(* per call, with everything the call writes; the scanning inside a seek   *)
(* is module QnSeek's, here it only leaves the registers one of the ways   *)
(* it can.  SYSTEM1 is the set of its bits that are 1.                     *)
(***************************************************************************)
EXTENDS Integers

CONSTANT ResetFilters   \* settings of the channel filter the chip may reset to

Bits == {"RXREQ", "TXREQ", "CHSC", "STNBY", "RDSEN", "CCA_CH_DIS"}
R_TXRX_MASK == {"RXREQ", "TXREQ", "STNBY"}

(* The modes QND_SetSysMode documents, with the values of qndriver.h.      *)
ModeValue == [SLEEP |-> 0, WAKEUP |-> 1, DEFAULT |-> 2,
              RX |-> 32768, TX |-> 16384, FM |-> 0]

(* Settings of the channel filter, bits 0x38 of GAIN_SEL.                  *)
AutoFilter == 0
Filter2    == 40
ScanFilter == 56

VARIABLES
    chip,       \* [SYSTEM1, muted, filter, mono]
    prevMode,   \* qnd_PrevMode, SYSTEM1 as saved by SLEEP
    firstScan,  \* qnd_FirstScan
    last,       \* the last call made
    before      \* SYSTEM1 before it

vars == <<chip, prevMode, firstScan, last, before>>

Filters == {8 * i : i \in 0..7}
ASSUME FilterAssumption == ResetFilters \subseteq Filters

ChipType == [SYSTEM1 : SUBSET Bits, muted : BOOLEAN, filter : Filters, mono : BOOLEAN]
Calls == DOMAIN ModeValue \cup
         {"none", "INIT", "POWER", "SET_FQ", "GET_RSSI", "RXSEEKCH", "RXSEEKCHALL",
          "TXCLEARCHSCAN", "RDSENABLE", "AUDIO_CONFIG"}

(* The chip's registers after a reset: GAIN_SEL has the chip's own value.  *)
Fresh == [SYSTEM1 : {{"CCA_CH_DIS"}}, muted : {FALSE}, filter : ResetFilters,
          mono : {FALSE}]

-----------------------------------------------------------------------------
(* QNF_SetRegBit on SYSTEM1.                                               *)
SetBits(c, mask, data) == [c EXCEPT !.SYSTEM1 = (@ \ mask) \cup (data \cap mask)]

(* QND_SetSysMode to receive or transmit: a change of mode mutes.          *)
SysMode(c, mode) ==
    [SetBits(c, R_TXRX_MASK, {mode})
        EXCEPT !.muted = @ \/ c.SYSTEM1 \cap R_TXRX_MASK # {mode}]

(* QND_TuneToCH: a transmitter is only retuned; a receiver gets its filter *)
(* from bit 0x20 of SYSTEM2, which is the mono bit, and is unmuted.        *)
Tune(c) ==
    LET tuned == SetBits(c, {"CCA_CH_DIS"}, {"CCA_CH_DIS"})
    IN  IF "TXREQ" \in c.SYSTEM1 THEN tuned
        ELSE [tuned EXCEPT !.filter = IF c.mono THEN AutoFilter ELSE Filter2,
                           !.muted = FALSE]

(* QND_GetRSSI; QND_TXClearChannelScan, which polls until the chip has     *)
(* cleared CHSC.                                                           *)
ListenTo(c) == SetBits(SysMode(c, "RXREQ"), {"CCA_CH_DIS"}, {"CCA_CH_DIS"})
ClearScan(c) == SetBits(c, {"RXREQ", "TXREQ", "CHSC", "CCA_CH_DIS"}, {"TXREQ"})

(* QNF_UpdateRSSIn: each band is scanned and listened to; SYSTEM1 is saved *)
(* before and restored after.                                              *)
UpdateBands_BackupLate(c) ==
    [ListenTo(ClearScan(c)) EXCEPT !.SYSTEM1 = ClearScan(c).SYSTEM1]

UpdateBands(c) == [ListenTo(ClearScan(c)) EXCEPT !.SYSTEM1 = c.SYSTEM1]

(* QND_UpdateRSSIn(0); `again' when the clear channel moved too far.       *)
UpdateRSSIn(c, again) ==
    LET heard == IF firstScan THEN c ELSE ListenTo(c)
    IN  IF firstScan \/ again THEN UpdateBands(heard) ELSE heard

(* What the loop of QND_RXSeekCH leaves in SYSTEM1: its last channel was   *)
(* too weak to scan, or was scanned, or the scan did not end in time.      *)
ProbeOutcomes == {{"RXREQ", "CCA_CH_DIS"}, {"RXREQ"}, {"RXREQ", "CHSC"}}

Probed_Overwrites(c, outcome) == [c EXCEPT !.SYSTEM1 = outcome]

Probed(c, outcome) == SetBits(c, {"RXREQ", "CHSC", "CCA_CH_DIS"}, outcome)

Seek(c, again, outcome) ==
    LET silent == [c EXCEPT !.muted = TRUE, !.filter = ScanFilter]
    IN  Tune(Probed(UpdateRSSIn(silent, again), outcome))

-----------------------------------------------------------------------------
Init ==
    /\ chip \in Fresh
    /\ prevMode = {}
    /\ firstScan = TRUE
    /\ last = "none" /\ before = {}

(* Every call notes what it was.                                           *)
Called(name) == last' = name /\ before' = chip.SYSTEM1

(* A power cycle of the chip; QND_Init, which resets it, selects filter 2  *)
(* and leaves it unmuted.  The driver's variables outlive both.            *)
PowerCycle ==
    /\ Called("POWER")
    /\ chip' \in Fresh
    /\ UNCHANGED <<prevMode, firstScan>>

QND_Init ==
    /\ Called("INIT")
    /\ \E c \in Fresh : chip' = [c EXCEPT !.filter = Filter2]
    /\ UNCHANGED <<prevMode, firstScan>>

(* QND_SetSysMode, a switch on the mode's value.                           *)
Sleep_SavesLate ==
    LET asleep == SetBits(chip, R_TXRX_MASK, {"STNBY"})
    IN  /\ prevMode' = asleep.SYSTEM1
        /\ chip' = asleep

Sleep ==
    /\ prevMode' = chip.SYSTEM1
    /\ chip' = SetBits(chip, R_TXRX_MASK, {"STNBY"})

SetSysMode(name) ==
    /\ Called(name)
    /\ LET value == ModeValue[name]
       IN  \/ value = ModeValue.SLEEP /\ Sleep
           \/ /\ value = ModeValue.WAKEUP
              /\ chip' = [chip EXCEPT !.SYSTEM1 = prevMode]
              /\ UNCHANGED prevMode
           \/ /\ value = ModeValue.DEFAULT
              /\ chip' \in Fresh
              /\ UNCHANGED prevMode
           \/ /\ value \in {ModeValue.RX, ModeValue.TX}
              /\ chip' = SysMode(chip, IF value = ModeValue.RX THEN "RXREQ" ELSE "TXREQ")
              /\ UNCHANGED prevMode
    /\ UNCHANGED firstScan

TuneToCH ==
    /\ Called("SET_FQ")
    /\ chip' = Tune(chip)
    /\ UNCHANGED <<prevMode, firstScan>>

GetRSSI ==
    /\ Called("GET_RSSI")
    /\ chip' = ListenTo(chip)
    /\ UNCHANGED <<prevMode, firstScan>>

TXClearChannelScan ==
    /\ Called("TXCLEARCHSCAN")
    /\ chip' = ClearScan(chip)
    /\ UNCHANGED <<prevMode, firstScan>>

(* Both seeks; the one over all channels ends with the output unmuted.     *)
RXSeekCH(name, again, outcome) ==
    /\ Called(name)
    /\ chip' = [Seek(chip, again, outcome) EXCEPT !.muted = @ /\ name = "RXSEEKCH"]
    /\ firstScan' = FALSE
    /\ UNCHANGED prevMode

(* QND_RDSEnable: on clears one bit of the filter, off selects filter 2.   *)
RDSEnable_Minus(on) ==
    /\ Called("RDSENABLE")
    /\ chip' = [SetBits(chip, {"RDSEN"}, IF on THEN {"RDSEN"} ELSE {})
                  EXCEPT !.filter = IF on THEN @ - 8 ELSE Filter2]
    /\ UNCHANGED <<prevMode, firstScan>>

RDSEnable(on) ==
    /\ Called("RDSENABLE")
    /\ chip' = [SetBits(chip, {"RDSEN"}, IF on THEN {"RDSEN"} ELSE {})
                  EXCEPT !.filter = IF on THEN @ - ((@ \div 8) % 2) * 8 ELSE Filter2]
    /\ UNCHANGED <<prevMode, firstScan>>

(* QND_RXConfigAudio, mono and mute.                                       *)
RXConfigAudio(mono, muted) ==
    /\ Called("AUDIO_CONFIG")
    /\ chip' = [chip EXCEPT !.mono = mono, !.muted = muted]
    /\ mono = chip.mono \/ muted = chip.muted
    /\ UNCHANGED <<prevMode, firstScan>>

Next ==
    \/ PowerCycle \/ QND_Init
    \/ \E name \in DOMAIN ModeValue : SetSysMode(name)
    \/ TuneToCH \/ GetRSSI \/ TXClearChannelScan
    \/ \E name \in {"RXSEEKCH", "RXSEEKCHALL"}, again \in BOOLEAN,
          outcome \in ProbeOutcomes : RXSeekCH(name, again, outcome)
    \/ \E on \in BOOLEAN : RDSEnable(on)
    \/ \E mono, muted \in BOOLEAN : RXConfigAudio(mono, muted)

Spec == Init /\ [][Next]_vars

-----------------------------------------------------------------------------
Mode == chip.SYSTEM1 \cap R_TXRX_MASK

(* Types of the state.                                                     *)
TypeOK ==
    /\ chip \in ChipType
    /\ prevMode \in SUBSET Bits
    /\ firstScan \in BOOLEAN
    /\ last \in Calls /\ before \in SUBSET Bits

(* Tuning, measuring and seeking give the listener back what they took:    *)
(* they leave a receiving chip receiving, though measuring the noise floor *)
(* makes a transmitter of it in between; and a tuning or a seek of a chip  *)
(* that does not transmit ends with the output audible, whatever mode it   *)
(* found and however the measurements muted it.                            *)
ReceiverRestored ==
    [][last' \in {"SET_FQ", "GET_RSSI", "RXSEEKCH", "RXSEEKCHALL"} =>
         /\ Mode = {"RXREQ"} => Mode' = {"RXREQ"}
         /\ last' # "GET_RSSI" /\ "TXREQ" \notin before' => ~chip'.muted]_vars

(* No call but QND_RDSEnable, a restart or a wake-up switches RDS.         *)
RdsKept ==
    [][last' \notin {"RDSENABLE", "INIT", "POWER", "DEFAULT", "WAKEUP"}
         => ("RDSEN" \in chip'.SYSTEM1) = ("RDSEN" \in chip.SYSTEM1)]_vars

(* A wake-up right after a sleep brings back the very mode it interrupted. *)
WakeRestores ==
    [][last = "SLEEP" /\ last' = "WAKEUP" => chip'.SYSTEM1 = before]_vars
=============================================================================
