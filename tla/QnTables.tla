------------------------------ MODULE QnTables ------------------------------
(***************************************************************************)
(* The arithmetic of the QN8006 FM driver (qndriver.c): frequencies in     *)
(* units of 10 kHz, their channel-register values, the noise-floor bands   *)
(* of each country, and the packing of the scan registers.  All of it is   *)
(* C integer arithmetic; the widths that matter are kept.                  *)
(***************************************************************************)
EXTENDS Integers, FiniteSetsExt

UINT8_MAX  == 255
UINT16_MAX == 65535
UINT8(x)  == x % 256
UINT16(x) == x % 65536

(* C division truncates toward zero.                                       *)
CDiv(a, b) == IF a >= 0 THEN a \div b ELSE -((-a) \div b)

-----------------------------------------------------------------------------
(* Scan steps, selected by an index 0..2, and the tuning range of each     *)
(* country as QND_SetCountry stores it (Japan leaves the range alone).     *)
StepTbl == [s \in 0..2 |-> CASE s = 0 -> 5 [] s = 1 -> 10 [] s = 2 -> 20]

Countries == {"china", "usa"}

Band == [china |-> [start |-> 7600, stop |-> 10800, step |-> 1],
         usa   |-> [start |-> 8810, stop |-> 10790, step |-> 2]]

-----------------------------------------------------------------------------
(* QNF_InitRSSInBB: lower edges of the six noise-floor bands, and one more *)
(* entry, the upper edge of the last band.                                 *)
QND_BAND_NUM == 6
Bands == 0..(QND_BAND_NUM - 1)

RSSInBB_NoExtraStep(start, stop, step) ==
    LET s == StepTbl[step]
        d == UINT8(UINT16(stop - start) \div UINT8(s * QND_BAND_NUM))
    IN  [i \in 0..QND_BAND_NUM |->
            IF i < QND_BAND_NUM THEN UINT16(start + i * d * s) ELSE stop]

RSSInBB(start, stop, step) ==
    LET s == StepTbl[step]
        d == UINT8(UINT16(stop - start) \div UINT8(s * QND_BAND_NUM))
    IN  [i \in 0..QND_BAND_NUM |->
            IF i < QND_BAND_NUM THEN UINT16(start + i * d * s)
                                ELSE UINT16(stop + s)]

(* QNF_GetRSSInBandIndex: the first band whose upper edge is above the     *)
(* channel; 0 when there is none.                                          *)
BandIndex(bb, freq) ==
    LET below == {i \in Bands : freq < bb[i + 1]}
    IN  IF below = {} THEN 0 ELSE Min(below)

(* Does a channel lie in a band that encloses it, and does the scan that   *)
(* measures the floor of that band (from its lower edge to one step below  *)
(* the next) pass over the channel, if it is on the country's raster?      *)
InItsBand(f, bb, s) ==
    LET i == BandIndex(bb, f)
    IN  /\ bb[i] <= f /\ f < bb[i + 1]
        /\ (f - bb[0]) % s = 0 => f <= bb[i + 1] - s /\ (f - bb[i]) % s = 0

-----------------------------------------------------------------------------
(* Channel registers.  The chip's 10-bit channel number is split: CH holds *)
(* the low byte, two bits of CH_STEP the rest.  SetCh keeps the other bits *)
(* of CH_STEP (a read-modify-write).                                       *)
FREQ2CHREG(freq) == UINT16(CDiv(freq - 7600, 5))
CHREG2FREQ(ch)   == UINT16(ch * 5 + 7600)

SetCh(reg, freq) ==
    LET f == FREQ2CHREG(freq)
    IN  [reg EXCEPT !.ch  = UINT8(f),
                    !.hi  = (f \div 256) % 4]

GetCh(reg) == CHREG2FREQ(reg.hi * 256 + reg.ch)

(* QNF_ConfigScan.  CH_STEP is rewritten as a whole: step in bits 7-6, the *)
(* top bits of stop in 5-4, of start in 3-2, and zero in bits 1-0, the top *)
(* bits of the tuned channel.                                              *)
ConfigScan(reg, start, stop, step) ==
    LET b == FREQ2CHREG(start)
        e == FREQ2CHREG(stop)
    IN  [ch |-> reg.ch, hi |-> 0, step |-> step % 4,
         start |-> UINT8(b), startHi |-> (b \div 256) % 4,
         stop  |-> UINT8(e), stopHi  |-> (e \div 256) % 4]

(* The channels the chip's scan engine runs from and to: how the chip      *)
(* reads the registers QNF_ConfigScan wrote.                               *)
ScanFrom(reg) == CHREG2FREQ(reg.startHi * 256 + reg.start)
ScanTo(reg)   == CHREG2FREQ(reg.stopHi * 256 + reg.stop)

ScanRegisters == [ch : 0..UINT8_MAX, hi : 0..3, start : 0..UINT8_MAX, startHi : 0..3,
                  stop : 0..UINT8_MAX, stopHi : 0..3, step : 0..3]

(* Image rejection is switched on for the channels QND_TuneToCH and        *)
(* QND_RXSeekCH single out.                                                *)
ImageReject(freq) == (freq - 7710) % 240 = 0

-----------------------------------------------------------------------------
(* QND_ConfigFMModule: the value each option writes into its register      *)
(* field (8, 4 and 7 bits wide).                                           *)
FMOptions == {"audiopeak", "pilot", "rds"}

FieldValue(optiontype, option) ==
    CASE optiontype = "audiopeak" -> UINT8(UINT16(option * 100) \div 69)
      [] optiontype = "pilot"     -> (UINT8(option * 4) \div 4) % 16
      [] optiontype = "rds"       -> UINT8(UINT16(option * 100) \div 35) % 128
=============================================================================
