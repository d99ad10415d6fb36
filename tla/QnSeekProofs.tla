---------------------------- MODULE QnSeekProofs ----------------------------
(***************************************************************************)
(* What the arithmetic of the FM driver computes, for every channel and    *)
(* every option, and what the seek promises, for every set of requests,    *)
(* signals and noise floors and every capacity of the list: it leaves the  *)
(* chip unmuted and tuned, judges by a current noise floor, and does what  *)
(* QnScan says.                                                            *)
(***************************************************************************)
EXTENDS QnSeek, SequenceTheorems, TLAPS

(* The widths as inequalities: a range with two literals for bounds is     *)
(* taken apart into its elements by the prover.                            *)
LEMMA Widths ==
    /\ UINT8_MAX \in Int /\ 255 <= UINT8_MAX /\ UINT8_MAX <= 255
    /\ UINT16_MAX \in Int /\ 65535 <= UINT16_MAX /\ UINT16_MAX <= 65535
BY SMT DEF UINT8_MAX, UINT16_MAX

(* The channel register of a frequency on the 50 kHz raster is its index,  *)
(* and the register's frequency is that frequency again.                   *)
LEMMA ChannelNumber ==
    ASSUME NEW f \in Tunable
    PROVE  /\ FREQ2CHREG(f) \in 0..1023
           /\ CHREG2FREQ(FREQ2CHREG(f)) = f
<1>1. PICK k \in 0..1023 : f = 7600 + 5 * k
  BY SMT DEF Tunable
<1>2. CDiv(f - 7600, 5) = k
  BY <1>1, SMT DEF CDiv
<1>3. FREQ2CHREG(f) = k
  BY <1>1, <1>2, SMT DEF FREQ2CHREG, UINT16
<1> QED
  BY <1>1, <1>3, SMT DEF CHREG2FREQ, UINT16

(* A channel number is put together again from the byte and the two bits   *)
(* it was split into.                                                      *)
LEMMA SplitNumber ==
    ASSUME NEW n \in 0..1023
    PROVE  /\ UINT8(n) \in 0..UINT8_MAX /\ (n \div 256) % 4 \in 0..3
           /\ ((n \div 256) % 4) * 256 + UINT8(n) = n
BY Widths, SMT DEF UINT8

(* QNF_SetCh and QNF_GetCh: whatever the registers held, tuning to any     *)
(* channel of the 50 kHz raster puts the chip on exactly that channel and  *)
(* leaves the range of the scan engine alone.                              *)
THEOREM TunesExactly ==
    ASSUME NEW old \in ScanRegisters, NEW f \in Tunable
    PROVE  /\ SetCh(old, f) \in ScanRegisters
           /\ GetCh(SetCh(old, f)) = f
           /\ ScanFrom(SetCh(old, f)) = ScanFrom(old)
           /\ ScanTo(SetCh(old, f)) = ScanTo(old)
<1> DEFINE n == FREQ2CHREG(f)
           lo == UINT8(n)
           hi == (n \div 256) % 4
<1>1. n \in 0..1023 /\ CHREG2FREQ(n) = f
  BY ChannelNumber
<1>2. lo \in 0..UINT8_MAX /\ hi \in 0..3 /\ hi * 256 + lo = n
  BY <1>1, SplitNumber
<1>3. SetCh(old, f) = [old EXCEPT !.ch = lo, !.hi = hi]
  BY DEF SetCh
<1> HIDE DEF n, lo, hi
<1>4. SetCh(old, f).ch = lo /\ SetCh(old, f).hi = hi
  BY <1>3 DEF ScanRegisters
<1>5. SetCh(old, f) \in ScanRegisters
  <2> DEFINE low == [old EXCEPT !.ch = lo]
  <2>1. low \in ScanRegisters
    BY <1>2 DEF ScanRegisters
  <2>2. SetCh(old, f) = [low EXCEPT !.hi = hi]
    BY <1>3
  <2> HIDE DEF low
  <2> QED
    BY <1>2, <2>1, <2>2 DEF ScanRegisters
<1>6. GetCh(SetCh(old, f)) = f
  BY <1>1, <1>2, <1>4 DEF GetCh
<1>7. ScanFrom(SetCh(old, f)) = ScanFrom(old) /\ ScanTo(SetCh(old, f)) = ScanTo(old)
  BY <1>3 DEF ScanRegisters, ScanFrom, ScanTo
<1> QED
  BY <1>5, <1>6, <1>7

(* QNF_ConfigScan: the scan engine runs over exactly the range it is       *)
(* given, in the step it is given, for any two channels of the raster.     *)
THEOREM ScansExactly ==
    ASSUME NEW old \in ScanRegisters, NEW a \in Tunable, NEW b \in Tunable,
           NEW s \in 0..2
    PROVE  /\ ScanFrom(ConfigScan(old, a, b, s)) = a
           /\ ScanTo(ConfigScan(old, a, b, s)) = b
           /\ ConfigScan(old, a, b, s).step = s
<1> DEFINE m == FREQ2CHREG(a)
           n == FREQ2CHREG(b)
           scan == ConfigScan(old, a, b, s)
<1>1. m \in 0..1023 /\ CHREG2FREQ(m) = a
  BY ChannelNumber
<1>2. n \in 0..1023 /\ CHREG2FREQ(n) = b
  BY ChannelNumber
<1>3. /\ scan.start = UINT8(m) /\ scan.startHi = (m \div 256) % 4
      /\ scan.stop = UINT8(n) /\ scan.stopHi = (n \div 256) % 4
      /\ scan.step = s % 4
  BY DEF ConfigScan, ScanRegisters
<1>4. scan.startHi * 256 + scan.start = m
  BY <1>1, <1>3, SplitNumber
<1>5. scan.stopHi * 256 + scan.stop = n
  BY <1>2, <1>3, SplitNumber
<1>6. s % 4 = s
  BY SMT
<1> HIDE DEF m, n, scan
<1>7. ScanFrom(scan) = a /\ ScanTo(scan) = b /\ scan.step = s
  BY <1>1, <1>2, <1>3, <1>4, <1>5, <1>6 DEF ScanFrom, ScanTo
<1> QED
  BY <1>7 DEF scan

-----------------------------------------------------------------------------
(* QNF_GetRSSInBandIndex finds the band above whose lower neighbours' upper *)
(* edges a channel lies, and below whose own.                               *)
LEMMA FirstBand ==
    ASSUME NEW bb, NEW f, NEW i \in Bands,
           f < bb[i + 1],
           \A j \in Bands : j < i => ~(f < bb[j + 1])
    PROVE  BandIndex(bb, f) = i
<1> DEFINE below == {j \in Bands : f < bb[j + 1]}
<1>1. i \in below /\ \A j \in below : i <= j
  BY SMT DEF Bands, QND_BAND_NUM
<1>2. below \subseteq Int
  BY SMT DEF Bands, QND_BAND_NUM
<1>3. BandIndex(bb, f) = Min(below)
  BY <1>1 DEF BandIndex
<1> HIDE DEF below
<1>4. ASSUME NEW x \in below, \A y \in below : x <= y PROVE x = i
  BY <1>1, <1>2, <1>4, SMT
<1>5. Min(below) = i
  BY <1>1, <1>4 DEF Min
<1> QED
  BY <1>3, <1>5

(* Bands of equal width d with a last edge of their own: every channel     *)
(* between the first edge and the last lies in the band that encloses it,  *)
(* and if the edges are on the raster of step s, so does its measurement.  *)
LEMMA EnclosingBand ==
    ASSUME NEW bb, NEW f \in Nat, NEW a \in Nat, NEW d \in Nat, NEW s \in {10, 20},
           d % s = 0,
           \A i \in Bands : bb[i] = a + i * d,
           bb[6] \in Nat, (bb[6] - a) % s = 0,
           a <= f, f < bb[6]
    PROVE  InItsBand(f, bb, s)
<1>1. /\ bb[0] = a /\ bb[1] = a + d /\ bb[2] = a + 2 * d /\ bb[3] = a + 3 * d
      /\ bb[4] = a + 4 * d /\ bb[5] = a + 5 * d
  BY SMT DEF Bands, QND_BAND_NUM
<1>2. PICK i \in Bands : bb[i] <= f /\ f < bb[i + 1] /\ \A j \in Bands : j < i => ~(f < bb[j + 1])
  <2>1. CASE f < a + d
    BY <1>1, <2>1, 0 \in Bands, SMT DEF Bands, QND_BAND_NUM
  <2>2. CASE a + d <= f /\ f < a + 2 * d
    BY <1>1, <2>2, 1 \in Bands, SMT DEF Bands, QND_BAND_NUM
  <2>3. CASE a + 2 * d <= f /\ f < a + 3 * d
    BY <1>1, <2>3, 2 \in Bands, SMT DEF Bands, QND_BAND_NUM
  <2>4. CASE a + 3 * d <= f /\ f < a + 4 * d
    BY <1>1, <2>4, 3 \in Bands, SMT DEF Bands, QND_BAND_NUM
  <2>5. CASE a + 4 * d <= f /\ f < a + 5 * d
    BY <1>1, <2>5, 4 \in Bands, SMT DEF Bands, QND_BAND_NUM
  <2>6. CASE a + 5 * d <= f
    BY <1>1, <2>6, 5 \in Bands, SMT DEF Bands, QND_BAND_NUM
  <2> QED
    BY <2>1, <2>2, <2>3, <2>4, <2>5, <2>6, SMT
<1>3. BandIndex(bb, f) = i
  BY <1>2, FirstBand
<1>4. (f - a) % s = 0 => f <= bb[i + 1] - s /\ (f - bb[i]) % s = 0
  <2> DEFINE OnRaster(x) == x \in Nat /\ (x - a) % s = 0
  <2>1. OnRaster(a) /\ OnRaster(a + d)
    BY SMT
  <2>2. OnRaster(a + 2 * d) /\ OnRaster(a + 3 * d)
    <3>1. CASE s = 10
      BY <3>1, SMT
    <3>2. CASE s = 20
      BY <3>2, SMT
    <3> QED
      BY <3>1, <3>2
  <2>3. OnRaster(a + 4 * d) /\ OnRaster(a + 5 * d)
    <3>1. CASE s = 10
      BY <3>1, SMT
    <3>2. CASE s = 20
      BY <3>2, SMT
    <3> QED
      BY <3>1, <3>2
  <2>4. OnRaster(bb[6])
    OBVIOUS
  <2> HIDE DEF OnRaster
  <2>5. OnRaster(bb[i]) /\ OnRaster(bb[i + 1])
    BY <1>1, <2>1, <2>2, <2>3, <2>4, i \in {0, 1, 2, 3, 4, 5}, SMT DEF Bands, QND_BAND_NUM
  <2>6. CASE s = 10
    BY <1>2, <2>5, <2>6, SMT DEF OnRaster
  <2>7. CASE s = 20
    BY <1>2, <2>5, <2>7, SMT DEF OnRaster
  <2> QED
    BY <2>6, <2>7
<1> QED
  BY <1>1, <1>2, <1>3, <1>4 DEF InItsBand

(* QNF_InitRSSInBB: for both countries, every channel of the range belongs *)
(* to a band that encloses it, and every channel of the raster is passed   *)
(* over when the floor of that band is measured.                           *)
THEOREM BandsCoverRange ==
    ASSUME NEW c \in Countries, NEW f \in Band[c].start..Band[c].stop
    PROVE  InItsBand(f, RSSInBB(Band[c].start, Band[c].stop, Band[c].step),
                     StepTbl[Band[c].step])
<1> DEFINE bb == RSSInBB(Band[c].start, Band[c].stop, Band[c].step)
<1>1. CASE c = "china"
  <2>1. /\ Band[c].start = 7600 /\ Band[c].stop = 10800 /\ Band[c].step = 1
        /\ StepTbl[1] = 10
    BY <1>1 DEF Band, StepTbl
  <2>2. UINT8(UINT16(10800 - 7600) \div UINT8(10 * QND_BAND_NUM)) = 53
    BY SMT DEF UINT8, UINT16, QND_BAND_NUM
  <2>3. bb = [i \in 0..QND_BAND_NUM |-> IF i < QND_BAND_NUM THEN UINT16(7600 + i * 53 * 10)
                                                          ELSE UINT16(10800 + 10)]
    BY <2>1, <2>2 DEF RSSInBB
  <2> HIDE DEF bb
  <2>4. bb[6] = 10810 /\ \A i \in Bands : bb[i] = 7600 + i * 530
    BY <2>3, SMT DEF UINT16, Bands, QND_BAND_NUM
  <2>5. f \in Nat /\ 7600 <= f /\ f < 10810
    <3> DEFINE lo == 7600
               hi == 10800
    <3>1. Band[c].start = lo /\ Band[c].stop = hi
      BY <2>1
    <3> HIDE DEF lo, hi
    <3>2. f \in lo..hi
      BY <3>1
    <3>3. lo \in Int /\ 7600 <= lo /\ hi \in Int /\ hi <= 10800
      BY SMT DEF lo, hi
    <3> QED
      BY <3>2, <3>3, SMT
  <2>6. 530 % 10 = 0 /\ (10810 - 7600) % 10 = 0
    BY SMT
  <2>7. InItsBand(f, bb, 10)
    BY <2>4, <2>5, <2>6, EnclosingBand
  <2> QED
    BY <2>1, <2>7 DEF bb
<1>2. CASE c = "usa"
  <2>1. /\ Band[c].start = 8810 /\ Band[c].stop = 10790 /\ Band[c].step = 2
        /\ StepTbl[2] = 20
    BY <1>2 DEF Band, StepTbl
  <2>2. UINT8(UINT16(10790 - 8810) \div UINT8(20 * QND_BAND_NUM)) = 16
    BY SMT DEF UINT8, UINT16, QND_BAND_NUM
  <2>3. bb = [i \in 0..QND_BAND_NUM |-> IF i < QND_BAND_NUM THEN UINT16(8810 + i * 16 * 20)
                                                          ELSE UINT16(10790 + 20)]
    BY <2>1, <2>2 DEF RSSInBB
  <2> HIDE DEF bb
  <2>4. bb[6] = 10810 /\ \A i \in Bands : bb[i] = 8810 + i * 320
    BY <2>3, SMT DEF UINT16, Bands, QND_BAND_NUM
  <2>5. f \in Nat /\ 8810 <= f /\ f < 10810
    <3> DEFINE lo == 8810
               hi == 10790
    <3>1. Band[c].start = lo /\ Band[c].stop = hi
      BY <2>1
    <3> HIDE DEF lo, hi
    <3>2. f \in lo..hi
      BY <3>1
    <3>3. lo \in Int /\ 8810 <= lo /\ hi \in Int /\ hi <= 10790
      BY SMT DEF lo, hi
    <3> QED
      BY <3>2, <3>3, SMT
  <2>6. 320 % 20 = 0 /\ (10810 - 8810) % 20 = 0
    BY SMT
  <2>7. InItsBand(f, bb, 20)
    BY <2>4, <2>5, <2>6, EnclosingBand
  <2> QED
    BY <2>1, <2>7 DEF bb
<1> QED
  BY <1>1, <1>2 DEF Countries

-----------------------------------------------------------------------------
(* QND_ConfigFMModule: within the ranges its comment gives (0-165 kHz,     *)
(* 8-10, 1-7.5 kHz) the register field is the option in units of 0.69 kHz, *)
(* 1 % and 0.35 kHz, rounded down: nothing is lost to a byte.              *)
THEOREM FieldHoldsOption ==
    ASSUME NEW o \in Nat
    PROVE  /\ o <= 165 => /\ FieldValue("audiopeak", o) * 69 <= o * 100
                          /\ o * 100 < (FieldValue("audiopeak", o) + 1) * 69
           /\ o \in 8..10 => FieldValue("pilot", o) = o
           /\ o \in 1..7 => /\ FieldValue("rds", o) * 35 <= o * 100
                            /\ o * 100 < (FieldValue("rds", o) + 1) * 35
<1>1. FieldValue("audiopeak", o) = UINT8(UINT16(o * 100) \div 69)
  BY DEF FieldValue
<1>2. FieldValue("pilot", o) = (UINT8(o * 4) \div 4) % 16
  BY DEF FieldValue
<1>3. FieldValue("rds", o) = UINT8(UINT16(o * 100) \div 35) % 128
  BY DEF FieldValue
<1>4. ASSUME o <= 165
      PROVE  UINT8(UINT16(o * 100) \div 69) = (o * 100) \div 69
  BY <1>4, SMT DEF UINT8, UINT16
<1>5. ASSUME o \in 1..7
      PROVE  UINT8(UINT16(o * 100) \div 35) % 128 = (o * 100) \div 35
  BY <1>5, SMT DEF UINT8, UINT16
<1>6. \A n \in Nat : (n \div 69) * 69 <= n /\ n < (n \div 69 + 1) * 69
  BY SMT
<1>7. \A n \in Nat : (n \div 35) * 35 <= n /\ n < (n \div 35 + 1) * 35
  BY SMT
<1>8. o \in 8..10 => (UINT8(o * 4) \div 4) % 16 = o
  BY SMT DEF UINT8
<1>9. o * 100 \in Nat
  BY SMT
<1> QED
  BY <1>1, <1>2, <1>3, <1>4, <1>5, <1>6, <1>7, <1>8, <1>9
-----------------------------------------------------------------------------
(* The lists stay within their capacity: while a full scan still seeks,    *)
(* there is room for what it may find.                                     *)
InLoop == pc \in {"probe", "poll", "judge", "advance", "return"}

RoomInv ==
    /\ Len(chList) <= ChMax
    /\ InLoop /\ AutoScanAll => Len(chList) < ChMax

(* What a call keeps from its beginning to its end: muted, marked as what  *)
(* it is, towards the end it was given.                                    *)
CallInv ==
    /\ pc # "idle" => AutoScanAll = req.all
    /\ pc = "finish" => AutoScanAll
    /\ InLoop => stop = LastOf(req)

(* The floors measured so far are the current ones; afterwards all are, or *)
(* the clear channel was found where it was recorded.                      *)
NoiseInv ==
    /\ pc # "floor" => band = 0
    /\ pc = "floor" => \A i \in Bands : i < band => rssiN[i] = floor[i]
    /\ pc = "enter" \/ Sweeping =>
          \/ rssiN = floor
          \/ measuredFor = bandsOf => Distance(floor[clearBand], rssiNs) < RSSINTHRESHOLD

(* The sweep.  What a full scan has listed are the channels to be found    *)
(* that come before the one it is at; a single seek has passed none.  Its  *)
(* last leg may be a single channel, on which the direction is `down'.     *)
Precedes(c, d) == IF UpAll THEN c < d ELSE d < c
Entries(s) == {s[i] : i \in DOMAIN s}
SoFar == IF AutoScanAll THEN Entries(chList) ELSE {}
PassedBefore(c) == {d \in Wanted : Precedes(d, c)}

AtChannel ==
    /\ start \in Raster(req)
    /\ up = UpAll \/ (~up /\ start = LastOf(req))
    /\ SoFar = PassedBefore(start)

SweepInv ==
    /\ pc # "idle" => req \in Requests /\ air \in [Raster(req) -> Signals]
    /\ pc \in {"update", "floor", "enter"} /\ AutoScanAll => pStart = req.start
    /\ pc \in {"probe", "poll", "judge", "advance"} => AtChannel
    /\ pc \in {"probe", "poll", "judge"} => scanFlag
    /\ pc \in {"poll", "judge"} => Loud(start)
    /\ pc = "poll" => timeout < PollMax /\ timeout < air[start].polls
    /\ pc = "judge" => (timeout < PollMax <=> air[start].polls < PollMax)
    /\ pc = "advance" => (scanFlag <=> ~Receivable(start))
    /\ pc = "return" =>
          IF chfreq = 0 THEN SoFar = Wanted
                        ELSE chfreq \in Wanted /\ SoFar = PassedBefore(chfreq)
    /\ pc = "finish" => Len(chList) = ChMax \/ SoFar = Wanted

-----------------------------------------------------------------------------
(* Every value the C types can hold goes through the register arithmetic   *)
(* and stays within the registers' bits.                                   *)
LEMMA RegisterBits ==
    ASSUME NEW x \in Int
    PROVE  /\ UINT8(x) \in 0..UINT8_MAX /\ UINT16(x) \in 0..UINT16_MAX
           /\ FREQ2CHREG(x) \in 0..UINT16_MAX
           /\ (x \div 256) % 4 \in 0..3
<1>1. UINT8(x) \in 0..UINT8_MAX /\ UINT16(x) \in 0..UINT16_MAX
  BY Widths, SMT DEF UINT8, UINT16
<1>2. (x \div 256) % 4 \in 0..3
  BY SMT
<1>3. FREQ2CHREG(x) \in 0..UINT16_MAX
  <2> DEFINE q == CDiv(x - 7600, 5)
  <2>1. q \in Int
    BY SMT DEF CDiv
  <2> HIDE DEF q
  <2>2. q % 65536 \in 0..UINT16_MAX
    BY <2>1, Widths, SMT
  <2> QED
    BY <2>2, SMT DEF FREQ2CHREG, UINT16, q
<1> QED
  BY <1>1, <1>2, <1>3, SMT

LEMMA RegistersKept ==
    ASSUME NEW r \in ScanRegisters, NEW f \in Int, NEW s \in 0..2
    PROVE  /\ SetCh(r, f) \in ScanRegisters
           /\ ConfigScan(r, f, f, s) \in ScanRegisters
<1> DEFINE n == FREQ2CHREG(f)
           lo == UINT8(n)
           hi == (n \div 256) % 4
<1>1. SetCh(r, f) = [r EXCEPT !.ch = lo, !.hi = hi]
  BY SMT DEF SetCh
<1>2. ConfigScan(r, f, f, s) = [ch |-> r.ch, hi |-> 0, step |-> s % 4,
                                start |-> lo, startHi |-> hi, stop |-> lo, stopHi |-> hi]
  BY SMT DEF ConfigScan
<1>3. n \in Int
  <2>1. n \in 0..UINT16_MAX
    BY RegisterBits
  <2> QED
    BY <2>1, Widths, SMT
<1> HIDE DEF n
<1>4. lo \in 0..UINT8_MAX /\ hi \in 0..3
  BY <1>3, RegisterBits
<1>5. s % 4 \in 0..3
  BY SMT
<1> HIDE DEF lo, hi
<1>6. ConfigScan(r, f, f, s) \in ScanRegisters
  BY <1>2, <1>4, <1>5, SMT DEF ScanRegisters
<1>7. SetCh(r, f) \in ScanRegisters
  <2> DEFINE low == [r EXCEPT !.ch = lo]
  <2>1. low \in ScanRegisters
    BY <1>4, SMT DEF ScanRegisters
  <2>2. SetCh(r, f) = [low EXCEPT !.hi = hi]
    BY <1>1, SMT
  <2> HIDE DEF low
  <2> QED
    BY <1>4, <2>1, <2>2, SMT DEF ScanRegisters
<1> QED
  BY <1>6, <1>7

LEMMA StepType ==
    ASSUME NEW r \in RequestType
    PROVE  StepTbl[r.step] \in {5, 10, 20}
<1>1. r.step \in 0..2
  BY SMT DEF RequestType
<1> QED
  BY <1>1, SMT DEF StepTbl

LEMMA NextChannelType ==
    ASSUME TypeOK, NEW c \in 0..UINT16_MAX, NEW d \in BOOLEAN
    PROVE  NextChannel(c, d) \in 0..UINT16_MAX
<1> DEFINE n == IF d THEN c + Step ELSE c - Step
<1>1. Step \in {5, 10, 20}
  BY StepType DEF TypeOK, Step
<1>2. n \in Int
  BY <1>1, SMT
<1> HIDE DEF n
<1>3. UINT16(n) \in 0..UINT16_MAX
  BY <1>2, RegisterBits
<1> QED
  BY <1>3 DEF NextChannel, n

LEMMA EndType ==
    ASSUME TypeOK
    PROVE  PStop \in 0..UINT16_MAX /\ LastOf(req) \in 0..UINT16_MAX
<1>1. Span.stop \in {10800, 10790}
  BY SMT DEF TypeOK, Span, Band, Countries
<1>2. req.stop \in 0..UINT16_MAX
  BY SMT DEF TypeOK, RequestType
<1> QED
  BY <1>1, <1>2, Widths, SMT DEF PStop, ClampedStop, LastOf

LEMMA TypeInit == Init => TypeOK /\ RoomInv /\ CallInv
<1> SUFFICES ASSUME Init PROVE TypeOK /\ RoomInv /\ CallInv
  OBVIOUS
<1>1. req \in RequestType
  BY Widths, SMT DEF Init, RequestType
<1>2. reg \in ScanRegisters
  BY Widths, SMT DEF Init, ResetRegisters, ScanRegisters
<1>3. /\ country \in Countries /\ bandsOf \in Countries
      /\ rssiN \in [Bands -> 0..UINT8_MAX] /\ floor \in [Bands -> 0..UINT8_MAX]
      /\ clearBand \in Bands /\ band \in Bands
  BY Widths, SMT DEF Init, Countries, Bands, QND_BAND_NUM
<1>4. /\ chList \in Seq(0..UINT16_MAX) /\ Len(chList) = 0
  BY SMT DEF Init
<1> QED
  BY <1>1, <1>2, <1>3, <1>4, BoundAssumption, Widths, SMT
     DEF Init, TypeOK, RoomInv, CallInv, InLoop

LEMMA NextBand ==
    ASSUME NEW b \in Bands
    PROVE  0 \in Bands /\ (b # 5 => b + 1 \in Bands)
BY SMT DEF Bands, QND_BAND_NUM

(* Each action keeps the types, the room in the list and what a call keeps.*)
LEMMA TypeStep ==
  ASSUME TypeOK, RoomInv, CallInv, [Next]_vars
  PROVE  TypeOK' /\ RoomInv' /\ CallInv'
<1> USE BoundAssumption DEF TypeOK, RoomInv, CallInv, InLoop, rangeVars, callVars, allVars,
           seekVars, noiseVars, chipVars, envVars
<1>1. ASSUME NEW r \in Requests, Call(r) PROVE TypeOK' /\ RoomInv' /\ CallInv'
  <2>1. r \in RequestType /\ floor' \in [Bands -> 0..UINT8_MAX]
    BY <1>1, RequestAssumption, FloorAssumption DEF Call
  <2>2. r.all \in BOOLEAN /\ r.start \in 0..UINT16_MAX
    BY <2>1 DEF RequestType
  <2>3. pStart' \in 0..UINT16_MAX /\ calls' \in 0..MaxCalls
    BY <1>1, <2>2 DEF Call
  <2> QED
    BY <1>1, <2>1, <2>2, <2>3 DEF Call
<1>2. ASSUME NEW c \in Countries, SetCountry(c) PROVE TypeOK' /\ RoomInv' /\ CallInv'
  BY <1>2 DEF SetCountry
<1>3. CASE QND_Init
  <2>1. ResetRegisters \in ScanRegisters
    BY Widths, SMT DEF ResetRegisters, ScanRegisters
  <2> QED
    BY <1>3, <2>1 DEF QND_Init
<1>4. CASE Update
  <2>1. PICK heard : clearScanFlag' = IF firstScan THEN clearScanFlag
                                      ELSE Distance(heard, rssiNs) >= RSSINTHRESHOLD
    BY <1>4 DEF Update
  <2>2. (Distance(heard, rssiNs) >= RSSINTHRESHOLD) \in BOOLEAN
    OBVIOUS
  <2>3. clearScanFlag' \in BOOLEAN
    BY <2>1, <2>2, Zenon
  <2> QED
    BY <1>4, <2>3 DEF Update, LastOf, ClampedStop, Span
<1>5. CASE MeasureBand
  <2>1. floor[band] \in 0..UINT8_MAX
    OBVIOUS
  <2>2. rssiN' \in [Bands -> 0..UINT8_MAX] /\ rssiNs' \in 0..UINT8_MAX /\ clearBand' \in Bands
    BY <1>5, <2>1 DEF MeasureBand, MeasureBandUpTo
  <2>3. band' \in Bands
    <3>1. band' = 0 \/ (band' = band + 1 /\ band # 5)
      BY <1>5 DEF MeasureBand, MeasureBandUpTo, QND_BAND_NUM
    <3> QED
      BY <3>1, NextBand
  <2>4. measuredFor' \in Countries \cup {"none", "mixed"}
    BY <1>5 DEF MeasureBand, MeasureBandUpTo
  <2> QED
    BY <1>5, <2>2, <2>3, <2>4 DEF MeasureBand, MeasureBandUpTo
<1>6. CASE Enter
  <2>1. req.start \in 0..UINT16_MAX /\ req.stop \in 0..UINT16_MAX
    BY DEF RequestType
  <2>2. PStop \in 0..UINT16_MAX
    BY EndType
  <2>3. start' \in 0..UINT16_MAX /\ stop' \in 0..UINT16_MAX /\ up' \in BOOLEAN
    <3>1. \/ EnterSeekCH(pStart, PStop)
          \/ EnterSeekCH(req.start, req.stop)
      BY <1>6 DEF Enter
    <3>2. CASE EnterSeekCH(pStart, PStop)
      BY <2>2, <3>2 DEF EnterSeekCH
    <3>3. CASE EnterSeekCH(req.start, req.stop)
      BY <2>1, <3>3 DEF EnterSeekCH
    <3> QED
      BY <3>1, <3>2, <3>3
  <2>4. timeout' = 0 /\ timeout' \in 0..UINT8_MAX
    BY <1>6, Widths, SMT DEF Enter, EnterSeekCH
  <2>5. chList' \in Seq(0..UINT16_MAX) /\ Len(chList') <= ChMax /\ (AutoScanAll => Len(chList') < ChMax)
    <3>1. CASE AutoScanAll
      <4>1. chList' = <<>>
        BY <1>6, <3>1 DEF Enter
      <4> QED
        BY <4>1, SMT
    <3>2. CASE ~AutoScanAll
      BY <1>6, <3>2 DEF Enter
    <3> QED
      BY <3>1, <3>2
  <2>6. stop' = LastOf(req)'
    BY <1>6 DEF Enter, EnterSeekCH, LastOf, PStop, ClampedStop, Span
  <2> QED
    BY <1>6, <2>3, <2>4, <2>5, <2>6 DEF Enter, EnterSeekCH
<1>7. CASE Probe
  <2>1. start \in Int
    BY Widths, SMT
  <2>2. SetCh(reg, start) \in ScanRegisters /\ req.step \in 0..2
    BY <2>1, RegistersKept DEF RequestType
  <2>3. reg' \in ScanRegisters
    BY <1>7, <2>1, <2>2, RegistersKept DEF Probe
  <2>4. timeout' \in 0..UINT8_MAX
    BY <1>7, Widths, SMT DEF Probe
  <2>5. imr' \in BOOLEAN
    BY <1>7 DEF Probe, ImageReject
  <2>6. LastOf(req)' = LastOf(req)
    BY <1>7 DEF Probe, LastOf, ClampedStop, Span
  <2> QED
    BY <1>7, <2>3, <2>4, <2>5, <2>6 DEF Probe
<1>8. CASE Poll
  <2>1. timeout' \in 0..UINT8_MAX
    BY <1>8, RegisterBits, Widths, SMT DEF Poll
  <2>2. LastOf(req)' = LastOf(req)
    BY <1>8 DEF Poll, LastOf, ClampedStop, Span
  <2> QED
    BY <1>8, <2>1, <2>2 DEF Poll
<1>9. CASE Judge
  <2>1. LastOf(req)' = LastOf(req)
    BY <1>9 DEF Judge, LastOf, ClampedStop, Span
  <2> QED
    BY <1>9, <2>1 DEF Judge
<1>10. CASE Advance
  <2>1. NextChannel(start, up) \in 0..UINT16_MAX
    BY NextChannelType
  <2>2. start' \in 0..UINT16_MAX /\ chfreq' \in 0..UINT16_MAX /\ scanFlag' \in BOOLEAN
    <3>1. CASE ~scanFlag
      BY <1>10, <3>1 DEF Advance
    <3>2. CASE scanFlag
      <4>1. start' = NextChannel(start, up) /\ chfreq' \in {0, start} /\ scanFlag' \in BOOLEAN
        BY <1>10, <3>2 DEF Advance
      <4> QED
        BY <2>1, <4>1, Widths, SMT
    <3> QED
      BY <3>1, <3>2
  <2>3. LastOf(req)' = LastOf(req)
    BY <1>10 DEF Advance, LastOf, ClampedStop, Span
  <2>4. pc' \in {"probe", "return"}
    BY <1>10 DEF Advance
  <2> QED
    BY <1>10, <2>2, <2>3, <2>4 DEF Advance
<1>11. CASE AnswerOne
  <2> DEFINE ch == IF chfreq = 0 THEN stop ELSE chfreq
  <2>1. ch \in Int
    BY Widths, SMT
  <2> HIDE DEF ch
  <2>2. reg' \in ScanRegisters /\ imr' \in BOOLEAN
    <3>1. TuneToCH(ch)
      BY <1>11 DEF AnswerOne, ch
    <3>2. ImageReject(ch) \in BOOLEAN
      BY DEF ImageReject
    <3>3. SetCh(reg, ch) \in ScanRegisters
      BY <2>1, RegistersKept, 0 \in 0..2
    <3> QED
      BY <3>1, <3>2, <3>3 DEF TuneToCH
  <2>3. 0 \in 0..UINT16_MAX /\ 0 \in 0..UINT8_MAX
    BY Widths, SMT
  <2> QED
    BY <1>11, <2>2, <2>3 DEF AnswerOne, TuneToCH, Return
<1>12. CASE CollectCH
  <2>1. pStart' \in 0..UINT16_MAX
    <3>1. (IF chfreq # 0 THEN chfreq ELSE PStop) \in 0..UINT16_MAX /\ UpAll \in BOOLEAN
      BY EndType DEF UpAll
    <3> QED
      BY <1>12, <3>1, NextChannelType DEF CollectCH
  <2>2. /\ chList' \in Seq(0..UINT16_MAX)
        /\ Len(chList') <= ChMax
    <3>1. CASE chfreq # 0
      <4>1. chList' = Append(chList, chfreq) /\ Len(chList) < ChMax
        BY <1>12, <3>1 DEF CollectCH
      <4> QED
        BY <4>1, SMT
    <3>2. CASE chfreq = 0
      BY <1>12, <3>2 DEF CollectCH
    <3> QED
      BY <3>1, <3>2
  <2>3. PStop = LastOf(req)' /\ PStop \in 0..UINT16_MAX
    BY <1>12, EndType DEF CollectCH, PStop, LastOf, ClampedStop, Span
  <2>4. CASE pc' = "finish" /\ UNCHANGED seekVars
    BY <1>12, <2>1, <2>2, <2>4 DEF CollectCH
  <2>5. CASE Len(chList') < ChMax /\ EnterSeekCH(pStart', PStop)
    <3>1. /\ start' \in 0..UINT16_MAX /\ stop' \in 0..UINT16_MAX /\ up' \in BOOLEAN
          /\ timeout' \in 0..UINT8_MAX
      BY <2>1, <2>3, <2>5, Widths, SMT DEF EnterSeekCH
    <3> QED
      BY <1>12, <2>1, <2>2, <2>3, <2>5, <3>1 DEF CollectCH, EnterSeekCH
  <2> QED
    BY <1>12, <2>4, <2>5 DEF CollectCH
<1>13. CASE Finish
  <2> DEFINE ch == IF chList # <<>> THEN chList[1] ELSE PStop
  <2>1. ch \in Int
    BY EndType, Widths, SMT
  <2> HIDE DEF ch
  <2>2. reg' \in ScanRegisters /\ imr' \in BOOLEAN
    <3>1. TuneToCH(ch)
      BY <1>13 DEF Finish, ch
    <3>2. ImageReject(ch) \in BOOLEAN
      BY DEF ImageReject
    <3>3. SetCh(reg, ch) \in ScanRegisters
      BY <2>1, RegistersKept, 0 \in 0..2
    <3> QED
      BY <3>1, <3>2, <3>3 DEF TuneToCH
  <2>3. 0 \in 0..UINT16_MAX /\ 0 \in 0..UINT8_MAX /\ Len(chList) \in 0..UINT16_MAX
    BY Widths, SMT
  <2> QED
    BY <1>13, <2>2, <2>3 DEF Finish, TuneToCH, Return
<1>14. CASE UNCHANGED vars
  BY <1>14 DEF vars, LastOf, ClampedStop, Span
<1> QED
  BY <1>1, <1>2, <1>3, <1>4, <1>5, <1>6, <1>7, <1>8, <1>9, <1>10, <1>11, <1>12, <1>13, <1>14
     DEF Next, Running

LEMMA Basics == Spec => [](TypeOK /\ RoomInv /\ CallInv)
<1>1. TypeOK /\ RoomInv /\ CallInv /\ [Next]_vars => TypeOK' /\ RoomInv' /\ CallInv'
  BY TypeStep
<1> QED
  BY TypeInit, <1>1, PTL DEF Spec

(* Every variable stays within its type, over every sequence of requests   *)
(* the 16-bit arguments can hold: no counter leaves its width and no band  *)
(* beyond the last is measured.                                            *)
THEOREM TypeCorrect == Spec => []TypeOK
BY Basics, PTL

-----------------------------------------------------------------------------
(* QND_TuneToCH: the chip is where it was sent, and audible.               *)
LEMMA TunesTo ==
    ASSUME TypeOK, NEW f \in Int, TuneToCH(f)
    PROVE  /\ f \in Tunable => GetCh(reg') = f
           /\ imr' = ImageReject(f) /\ muted' = FALSE
<1>1. reg' = SetCh(reg, f) /\ imr' = ImageReject(f) /\ muted' = FALSE
  BY DEF TuneToCH
<1>2. ASSUME f \in Tunable PROVE GetCh(reg') = f
  BY <1>1, <1>2, TunesExactly DEF TypeOK
<1> QED
  BY <1>1, <1>2

LEMMA TunedStep ==
  ASSUME TypeOK, CallInv, TunedAtRest, [Next]_vars
  PROVE  TunedAtRest'
<1> USE DEF TunedAtRest, CallInv, rangeVars, callVars, allVars, seekVars, noiseVars,
           chipVars, envVars
<1>1. ASSUME NEW r \in Requests, Call(r) PROVE TunedAtRest'
  BY <1>1 DEF Call
<1>2. ASSUME NEW c \in Countries, SetCountry(c) PROVE TunedAtRest'
  BY <1>2 DEF SetCountry
<1>3. CASE QND_Init
  BY <1>3 DEF QND_Init
<1>4. CASE AnswerOne
  <2> DEFINE ch == IF chfreq = 0 THEN stop ELSE chfreq
  <2>1. ch \in Int
    BY Widths, SMT DEF TypeOK
  <2>2. TuneToCH(ch) /\ ret' = chfreq /\ pc' = "idle" /\ muted' = FALSE
    BY <1>4 DEF AnswerOne, Return, TuneToCH
  <2>3. ~req'.all /\ ~AutoScanAll' /\ req'.stop = stop
    BY <1>4 DEF AnswerOne, InLoop, LastOf
  <2>4. ch = IF ret' # 0 THEN ret' ELSE req'.stop
    BY <2>2, <2>3
  <2> HIDE DEF ch
  <2>5. (ch \in Tunable => GetCh(reg') = ch) /\ imr' = ImageReject(ch)
    BY <2>1, <2>2, TunesTo
  <2> QED
    BY <2>2, <2>3, <2>4, <2>5
<1>5. CASE Finish
  <2> DEFINE ch == IF chList # <<>> THEN chList[1] ELSE PStop
  <2>1. ch \in Int
    BY EndType, Widths, SMT DEF TypeOK
  <2>2. /\ TuneToCH(ch) /\ ret' = Len(chList) /\ pc' = "idle" /\ muted' = FALSE
        /\ chList' = chList
    BY <1>5 DEF Finish, Return, TuneToCH
  <2>3. req'.all /\ ~AutoScanAll' /\ PStop' = PStop
    BY <1>5 DEF Finish, PStop, ClampedStop, Span
  <2>4. ret' # 0 <=> chList # <<>>
    BY <2>2, SMT DEF TypeOK
  <2>5. ch = IF ret' # 0 THEN chList'[1] ELSE PStop'
    BY <2>2, <2>3, <2>4
  <2> HIDE DEF ch
  <2>6. (ch \in Tunable => GetCh(reg') = ch) /\ imr' = ImageReject(ch)
    BY <2>1, <2>2, TunesTo
  <2> QED
    BY <2>2, <2>3, <2>5, <2>6
<1>6. CASE Update \/ MeasureBand \/ Enter
  <2>1. pc # "idle" /\ pc' # "idle" /\ muted' = muted
    BY <1>6 DEF Update, MeasureBand, MeasureBandUpTo, Enter, EnterSeekCH
  <2> QED
    BY <2>1
<1>7. CASE Probe \/ Poll \/ Judge \/ Advance
  <2>1. pc # "idle" /\ pc' # "idle" /\ muted' = muted
    BY <1>7 DEF Probe, Poll, Judge, Advance
  <2> QED
    BY <2>1
<1>8. CASE CollectCH
  <2>1. pc # "idle" /\ pc' # "idle" /\ muted' = muted
    BY <1>8 DEF CollectCH, EnterSeekCH
  <2> QED
    BY <2>1
<1>9. CASE UNCHANGED vars
  BY <1>9 DEF vars, PStop, ClampedStop, Span
<1> QED
  BY <1>1, <1>2, <1>3, <1>4, <1>5, <1>6, <1>7, <1>8, <1>9 DEF Next, Running

(* Over every sequence of requests, changes of the country and resets, the *)
(* output is muted exactly while a seek runs, and afterwards the chip is   *)
(* tuned to what the seek answered, with the image rejection of that       *)
(* channel, and no `part of a longer scan' flag is left behind.            *)
THEOREM EndsTuned == Spec => []TunedAtRest
<1>1. Init => TunedAtRest
  BY DEF Init, TunedAtRest
<1>2. TypeOK /\ CallInv /\ TunedAtRest /\ [Next]_vars => TunedAtRest'
  BY TunedStep
<1> QED
  BY <1>1, <1>2, Basics, PTL DEF Spec

-----------------------------------------------------------------------------
LEMMA NoiseStep ==
  ASSUME TypeOK, NoiseInv, [Next]_vars
  PROVE  NoiseInv'
<1> USE DEF NoiseInv, Sweeping, rangeVars, callVars, allVars, seekVars, noiseVars,
           chipVars, envVars
<1>1. ASSUME NEW r \in Requests, Call(r) PROVE NoiseInv'
  BY <1>1 DEF Call
<1>2. ASSUME NEW c \in Countries, SetCountry(c) PROVE NoiseInv'
  BY <1>2 DEF SetCountry
<1>3. CASE QND_Init
  BY <1>3 DEF QND_Init
<1>4. CASE Update
  <2>1. UNCHANGED <<rssiN, floor, measuredFor, bandsOf, clearBand, rssiNs, firstScan, band>>
    BY <1>4 DEF Update
  <2>2. CASE pc' = "floor"
    <3>1. band' = 0
      BY <1>4, <2>1 DEF Update
    <3> QED
      BY <2>2, <3>1, SMT DEF Bands, QND_BAND_NUM
  <2>3. CASE pc' = "enter"
    <3>1. PICK heard \in ClearReadings : clearScanFlag' = IF firstScan THEN clearScanFlag
                                                  ELSE Distance(heard, rssiNs) >= RSSINTHRESHOLD
      BY <1>4 DEF Update
    <3>2. ~firstScan /\ ~clearScanFlag'
      BY <1>4, <2>3 DEF Update
    <3>3. ~(Distance(heard, rssiNs) >= RSSINTHRESHOLD)
      BY <3>1, <3>2
    <3>4. ASSUME measuredFor = bandsOf
          PROVE  Distance(floor[clearBand], rssiNs) < RSSINTHRESHOLD
      <4>1. heard = floor[clearBand]
        BY <3>1, <3>4 DEF ClearReadings
      <4>2. floor[clearBand] \in Int /\ rssiNs \in Int
        BY Widths, SMT DEF TypeOK
      <4> QED
        BY <3>3, <4>1, <4>2, SMT DEF Distance, RSSINTHRESHOLD
    <3>5. band' = 0
      BY <1>4, <2>1 DEF Update
    <3> QED
      BY <2>1, <2>3, <3>4, <3>5 DEF Distance
  <2> QED
    BY <1>4, <2>2, <2>3 DEF Update
<1>5. CASE MeasureBand
  <2>1. /\ pc = "floor" /\ floor' = floor
        /\ rssiN' = [rssiN EXCEPT ![band] = floor[band]]
        /\ \/ band = 5 /\ band' = 0 /\ pc' = "enter"
           \/ band # 5 /\ band' = band + 1 /\ pc' = pc
    BY <1>5 DEF MeasureBand, MeasureBandUpTo, QND_BAND_NUM
  <2>2. \A i \in Bands : i < band + 1 => rssiN'[i] = floor[i]
    <3>1. band \in Bands /\ rssiN \in [Bands -> 0..UINT8_MAX]
      BY DEF TypeOK
    <3>2. ASSUME NEW i \in Bands, i < band + 1 PROVE i < band \/ i = band
      BY <3>1, <3>2, SMT DEF Bands, QND_BAND_NUM
    <3> QED
      BY <2>1, <3>1, <3>2
  <2>3. CASE band = 5
    <3>1. \A i \in Bands : i < 5 + 1
      BY SMT DEF Bands, QND_BAND_NUM
    <3>2. rssiN' \in [Bands -> 0..UINT8_MAX] /\ floor \in [Bands -> 0..UINT8_MAX]
      BY <2>1 DEF TypeOK
    <3>3. rssiN' = floor
      BY <2>2, <2>3, <3>1, <3>2
    <3> QED
      BY <2>1, <2>3, <3>3
  <2>4. CASE band # 5
    BY <2>1, <2>2, <2>4
  <2> QED
    BY <2>3, <2>4
<1>6. CASE Enter \/ CollectCH
  <2>1. /\ pc = "enter" \/ Sweeping
        /\ pc # "floor" /\ pc' # "floor" /\ band' = band
        /\ UNCHANGED <<rssiN, floor, measuredFor, bandsOf, clearBand, rssiNs>>
    BY <1>6 DEF Enter, CollectCH, EnterSeekCH
  <2> QED
    BY <2>1 DEF Distance
<1>7. CASE Probe \/ Poll \/ Judge \/ Advance
  <2>1. /\ Sweeping
        /\ pc # "floor" /\ pc' # "floor" /\ band' = band
        /\ UNCHANGED <<rssiN, floor, measuredFor, bandsOf, clearBand, rssiNs>>
    BY <1>7 DEF Probe, Poll, Judge, Advance
  <2> QED
    BY <2>1 DEF Distance
<1>8. CASE AnswerOne \/ Finish
  BY <1>8 DEF AnswerOne, Finish, Return
<1>9. CASE UNCHANGED vars
  BY <1>9 DEF vars, Distance
<1> QED
  BY <1>1, <1>2, <1>3, <1>4, <1>5, <1>6, <1>7, <1>8, <1>9 DEF Next, Running

(* A channel is judged by a noise floor that is current and its own, for   *)
(* any environment: QND_UpdateRSSIn measures all bands again, or finds the *)
(* clear channel where it was, and a channel of the range lies in a band   *)
(* whose measurement passed over it.                                       *)
THEOREM JudgesByItsFloor == Spec => []FloorCurrent
<1>1. Init => NoiseInv
  BY DEF Init, NoiseInv, Sweeping
<1>2. TypeOK /\ NoiseInv /\ [Next]_vars => NoiseInv'
  BY NoiseStep
<1>3. TypeOK /\ NoiseInv => FloorCurrent
  <2> SUFFICES ASSUME TypeOK, NoiseInv, Sweeping, measuredFor = bandsOf
               PROVE  /\ rssiN = floor \/ Distance(floor[clearBand], rssiNs) < RSSINTHRESHOLD
                      /\ country = bandsOf /\ start \in Span.start..Span.stop =>
                            InItsBand(start, BandEdges[bandsOf], StepTbl[Span.step])
    BY DEF FloorCurrent
  <2>1. rssiN = floor \/ Distance(floor[clearBand], rssiNs) < RSSINTHRESHOLD
    BY DEF NoiseInv
  <2>2. ASSUME country = bandsOf, start \in Span.start..Span.stop
        PROVE  InItsBand(start, BandEdges[bandsOf], StepTbl[Span.step])
    <3>1. Span = Band[country] /\ country \in Countries
      BY DEF Span, TypeOK
    <3>2. BandEdges[bandsOf] = RSSInBB(Band[country].start, Band[country].stop, Band[country].step)
      BY <2>2, <3>1 DEF BandEdges
    <3> QED
      BY <2>2, <3>1, <3>2, BandsCoverRange
  <2> QED
    BY <2>1, <2>2
<1> QED
  BY <1>1, <1>2, <1>3, Basics, PTL DEF Spec

-----------------------------------------------------------------------------
(* The raster of a call.  Channels one step apart are neighbours on it.    *)
LEMMA Neighbours ==
    ASSUME NEW k \in {5, 10, 20}, NEW a \in Int, NEW c \in Int, (c - a) % k = 0
    PROVE  \A d \in Int : (d - a) % k = 0 =>
              /\ d < c + k <=> d <= c
              /\ c - k < d <=> c <= d
<1>1. CASE k = 5
  BY <1>1, SMT
<1>2. CASE k = 10
  BY <1>2, SMT
<1>3. CASE k = 20
  BY <1>3, SMT
<1> QED
  BY <1>1, <1>2, <1>3

(* The range of a servable request: its ends in the order of the sweep,    *)
(* neither a step away from the limits of the counter.                     *)
LEMMA RangeOf ==
    ASSUME TypeOK, Servable(req)
    PROVE  /\ Step \in {5, 10, 20} /\ req.start \in Int /\ LastOf(req) \in Int
           /\ 0 < req.start /\ Step <= LastOf(req) /\ LastOf(req) + Step <= UINT16_MAX
           /\ UpAll => req.start <= LastOf(req)
           /\ ~UpAll => LastOf(req) <= req.start
<1>1. /\ req.start \in Int /\ req.stop \in Int /\ req.all \in BOOLEAN
  BY Widths, SMT DEF TypeOK, RequestType
<1>2. Step \in {5, 10, 20} /\ Step = StepTbl[req.step]
  BY StepType DEF TypeOK, Step
<1>3. /\ Span.stop \in {10800, 10790}
      /\ req.all /\ UpAll => req.start <= Span.stop
  <2>1. country = "china" \/ country = "usa"
    BY DEF TypeOK, Countries
  <2>2. Span.stop = 10800 \/ Span.stop = 10790
    BY <2>1 DEF Span, Band
  <2>3. req.all /\ UpAll => req.start <= Span.stop
    BY DEF TypeOK, Servable, Span, UpAll
  <2> QED
    BY <2>2, <2>3
<1>4. 0 < req.start /\ req.stop \in Step..(UINT16_MAX - Step)
  BY <1>2 DEF Servable
<1>5. Step <= req.stop /\ req.stop + Step <= UINT16_MAX
  BY <1>1, <1>2, <1>4, Widths, SMT
<1>6. /\ LastOf(req) \in {req.stop, Span.stop}
      /\ LastOf(req) <= req.stop
      /\ LastOf(req) # req.stop => req.all
  BY <1>1, <1>3, SMT DEF LastOf, ClampedStop
<1>7. Step <= LastOf(req) /\ LastOf(req) + Step <= UINT16_MAX /\ LastOf(req) \in Int
  BY <1>1, <1>2, <1>3, <1>5, <1>6, Widths, SMT
<1>8. UpAll => req.start <= LastOf(req)
  BY <1>1, <1>3, <1>6, SMT DEF UpAll
<1>9. ~UpAll => LastOf(req) <= req.start
  BY <1>1, <1>6, <1>7, SMT DEF UpAll
<1> QED
  BY <1>1, <1>2, <1>4, <1>7, <1>8, <1>9

OnRaster(c) ==
    /\ c \in Int /\ (c - req.start) % Step = 0
    /\ UpAll => req.start <= c /\ c <= LastOf(req)
    /\ ~UpAll => LastOf(req) <= c /\ c <= req.start

LEMMA RasterIs ==
    ASSUME TypeOK, Servable(req), NEW c
    PROVE  c \in Raster(req) <=> OnRaster(c)
<1> DEFINE a == req.start
           b == LastOf(req)
<1>1. /\ a \in Int /\ b \in Int /\ UpAll \in BOOLEAN
      /\ (UpAll => a <= b) /\ (~UpAll => b <= a)
  BY RangeOf DEF UpAll
<1>2. Raster(req) = {x \in Between(a, b) : (x - a) % Step = 0}
  BY DEF Raster, Step
<1> HIDE DEF a, b
<1>3. c \in Between(a, b) <=> c \in Int /\ (UpAll => a <= c /\ c <= b) /\ (~UpAll => b <= c /\ c <= a)
  <2>1. CASE UpAll
    BY <1>1, <2>1, SMT DEF Between
  <2>2. CASE ~UpAll /\ a = b
    BY <1>1, <2>2, SMT DEF Between
  <2>3. CASE ~UpAll /\ a # b
    BY <1>1, <2>3, SMT DEF Between
  <2> QED
    BY <1>1, <2>1, <2>2, <2>3
<1> QED
  BY <1>2, <1>3 DEF OnRaster, a, b

(* Within the range of a servable request the counter does not wrap.       *)
LEMMA NoWrap ==
    ASSUME TypeOK, Servable(req), NEW c \in Int,
           UpAll => c <= LastOf(req), ~UpAll => LastOf(req) <= c, c <= UINT16_MAX, 0 <= c
    PROVE  NextChannel(c, UpAll) = IF UpAll THEN c + Step ELSE c - Step
<1> DEFINE n == IF UpAll THEN c + Step ELSE c - Step
<1>1. n \in Int /\ 0 <= n /\ n <= UINT16_MAX
  BY RangeOf, Widths, SMT
<1> HIDE DEF n
<1>2. UINT16(n) = n
  BY <1>1, Widths, SMT DEF UINT16
<1> QED
  BY <1>2 DEF NextChannel, n

(* The next channel of a sweep: on the raster unless past the end, and     *)
(* only the present channel lies in between.                               *)
LEMMA NextInSweep ==
    ASSUME TypeOK, Servable(req), NEW c \in Raster(req)
    PROVE  LET n == NextChannel(c, UpAll)
           IN  /\ c \in Int /\ 0 < c /\ n \in Int
               /\ n = IF UpAll THEN c + Step ELSE c - Step
               /\ ~Precedes(LastOf(req), c)
               /\ n \in Raster(req) <=> ~Precedes(LastOf(req), n)
               /\ \A d \in Raster(req) : Precedes(d, n) <=> Precedes(d, c) \/ d = c
<1> DEFINE n == NextChannel(c, UpAll)
           a == req.start
           b == LastOf(req)
<1>1. /\ Step \in {5, 10, 20} /\ a \in Int /\ b \in Int
      /\ 0 < a /\ Step <= b /\ b + Step <= UINT16_MAX
      /\ (UpAll => a <= b) /\ (~UpAll => b <= a)
  BY RangeOf
<1>2. c \in Int /\ (c - a) % Step = 0 /\ (UpAll => a <= c /\ c <= b) /\ (~UpAll => b <= c /\ c <= a)
  BY RasterIs DEF OnRaster
<1>3. a <= UINT16_MAX
  BY Widths, SMT DEF TypeOK, RequestType
<1>4. 0 < c /\ c <= UINT16_MAX
  BY <1>1, <1>2, <1>3, Widths, SMT
<1>5. n = IF UpAll THEN c + Step ELSE c - Step
  BY <1>2, <1>4, NoWrap
<1>6. n \in Int
  BY <1>1, <1>2, <1>5
<1>7. (n - a) % Step = 0
  <2> HIDE DEF n, a, b
  <2>1. n = c + Step \/ n = c - Step
    BY <1>5
  <2>2. CASE Step = 5
    BY <1>1, <1>2, <2>1, <2>2, SMT
  <2>3. CASE Step = 10
    BY <1>1, <1>2, <2>1, <2>3, SMT
  <2>4. CASE Step = 20
    BY <1>1, <1>2, <2>1, <2>4, SMT
  <2> QED
    BY <1>1, <2>2, <2>3, <2>4
<1>8. ~Precedes(b, c)
  BY <1>1, <1>2, SMT DEF Precedes
<1>9. n \in Raster(req) <=> ~Precedes(b, n)
  <2>1. n \in Raster(req) <=> (UpAll => a <= n /\ n <= b) /\ (~UpAll => b <= n /\ n <= a)
    BY <1>6, <1>7, RasterIs DEF OnRaster
  <2> HIDE DEF n, a, b
  <2>2. CASE UpAll
    BY <1>1, <1>2, <1>5, <1>6, <2>1, <2>2, SMT DEF Precedes
  <2>3. CASE ~UpAll
    BY <1>1, <1>2, <1>5, <1>6, <2>1, <2>3, SMT DEF Precedes
  <2> QED
    BY <2>2, <2>3
<1>10. ASSUME NEW d \in Raster(req)
       PROVE  Precedes(d, n) <=> Precedes(d, c) \/ d = c
  <2>1. d \in Int /\ (d - a) % Step = 0
    BY RasterIs DEF OnRaster
  <2>2. (d < c + Step <=> d <= c) /\ (c - Step < d <=> c <= d)
    BY <1>1, <1>2, <2>1, Neighbours
  <2> HIDE DEF n, a, b
  <2>3. CASE UpAll
    BY <1>2, <1>5, <2>1, <2>2, <2>3, SMT DEF Precedes
  <2>4. CASE ~UpAll
    BY <1>2, <1>5, <2>1, <2>2, <2>4, SMT DEF Precedes
  <2> QED
    BY <2>3, <2>4
<1> HIDE DEF n
<1>11. QED
  BY <1>2, <1>4, <1>5, <1>6, <1>8, <1>9, <1>10 DEF n

-----------------------------------------------------------------------------
(* What a call looks for depends on its request, the range, the floors and *)
(* the air, which all stand still during its sweep.                        *)
SweepVars == <<req, country, bandsOf, rssiN, air>>

LEMMA StandsStill ==
    ASSUME UNCHANGED SweepVars
    PROVE  /\ Raster(req)' = Raster(req) /\ LastOf(req)' = LastOf(req)
           /\ UpAll' = UpAll /\ Wanted' = Wanted
           /\ \A c : Loud(c)' = Loud(c) /\ Receivable(c)' = Receivable(c)
<1> USE DEF SweepVars
<1>1. Raster(req)' = Raster(req) /\ LastOf(req)' = LastOf(req) /\ UpAll' = UpAll
  BY DEF Raster, LastOf, ClampedStop, Span, UpAll
<1>2. \A c : Loud(c)' = Loud(c) /\ Receivable(c)' = Receivable(c)
  BY DEF Receivable, Loud, Clear, MinRssi
<1>3. Wanted' = Wanted
  BY <1>1, <1>2 DEF Wanted
<1> QED
  BY <1>1, <1>2, <1>3

(* Nothing precedes the first channel of a sweep, and every channel to be  *)
(* found precedes one past the end.                                        *)
LEMMA SweepEnds ==
    ASSUME TypeOK, Servable(req)
    PROVE  /\ req.start \in Raster(req) /\ LastOf(req) \in Int
           /\ PassedBefore(req.start) = {}
           /\ \A c \in Wanted : ~Precedes(LastOf(req), c)
           /\ ~Precedes(LastOf(req), req.start)
<1>1. /\ req.start \in Int /\ LastOf(req) \in Int /\ Step \in {5, 10, 20}
      /\ UpAll => req.start <= LastOf(req)
      /\ ~UpAll => LastOf(req) <= req.start
  BY RangeOf
<1>2. (req.start - req.start) % Step = 0
  <2>1. \A k \in {5, 10, 20} : 0 % k = 0
    BY SMT
  <2>2. req.start - req.start = 0
    BY <1>1, SMT
  <2> QED
    BY <1>1, <2>1, <2>2
<1>3. req.start \in Raster(req)
  BY <1>1, <1>2, RasterIs, SMT DEF OnRaster
<1>4. ASSUME NEW d \in Wanted PROVE ~Precedes(d, req.start) /\ ~Precedes(LastOf(req), d)
  <2>1. OnRaster(d)
    BY RasterIs DEF Wanted
  <2> QED
    BY <1>1, <2>1, SMT DEF OnRaster, Precedes
<1> QED
  BY <1>1, <1>3, <1>4, SMT DEF PassedBefore, Precedes

LEMMA SweepCall ==
    ASSUME NEW r \in Requests, Call(r)
    PROVE  SweepInv'
<1>1. pc' = "update" /\ req' = r /\ (AutoScanAll' => pStart' = r.start)
  BY DEF Call
<1>2. Raster(req)' = Raster(r)
  BY DEF Call, Raster, LastOf, ClampedStop, Span
<1>3. air' \in [Raster(req)' -> Signals]
  BY <1>2 DEF Call
<1> QED
  BY <1>1, <1>3 DEF SweepInv

LEMMA SweepEnter ==
    ASSUME TypeOK, CallInv, SweepInv, Servable(req), Enter
    PROVE  SweepInv'
<1>1. UNCHANGED SweepVars /\ pc = "enter" /\ pc' = "probe" /\ scanFlag' /\ AutoScanAll' = AutoScanAll
  BY DEF Enter, EnterSeekCH, rangeVars, callVars, noiseVars, envVars, SweepVars
<1>2. start' = req.start /\ up' = (req.start < LastOf(req))
  BY <1>1 DEF Enter, EnterSeekCH, SweepInv, CallInv, LastOf, PStop
<1>3. up' = UpAll \/ (~up' /\ start' = LastOf(req))
  <2>1. UpAll \in BOOLEAN /\ up' \in BOOLEAN
    BY <1>2 DEF UpAll
  <2>2. UpAll => req.start <= LastOf(req)
    BY RangeOf
  <2>3. ~UpAll => LastOf(req) <= req.start
    BY RangeOf
  <2>4. req.start \in Int /\ LastOf(req) \in Int
    BY RangeOf
  <2>5. up' <=> req.start < LastOf(req)
    BY <1>2, Zenon
  <2>6. (~UpAll => ~up') /\ (UpAll => up' \/ req.start = LastOf(req))
    BY <2>2, <2>3, <2>4, <2>5, SMT
  <2> QED
    BY <1>2, <2>1, <2>6
<1>4. SoFar' = {}
  <2>1. CASE AutoScanAll
    <3>1. chList' = <<>>
      BY <2>1 DEF Enter
    <3> QED
      BY <3>1 DEF SoFar, Entries
  <2>2. CASE ~AutoScanAll
    BY <1>1, <2>2 DEF SoFar
  <2> QED
    BY <2>1, <2>2
<1>5. PassedBefore(start)' = {}
  BY <1>1, <1>2, StandsStill, SweepEnds DEF PassedBefore, Precedes
<1>6. AtChannel'
  BY <1>1, <1>2, <1>3, <1>4, <1>5, StandsStill, SweepEnds DEF AtChannel
<1> QED
  BY <1>1, <1>6, StandsStill DEF SweepInv, SweepVars

(* A step that moves neither the channel nor the list.                     *)
LEMMA StaysAt ==
    ASSUME AtChannel, UNCHANGED SweepVars, UNCHANGED <<start, up, AutoScanAll, chList>>
    PROVE  AtChannel'
<1>1. SoFar' = SoFar /\ PassedBefore(start)' = PassedBefore(start)
  BY StandsStill DEF SoFar, Entries, PassedBefore, Precedes
<1> QED
  BY <1>1, StandsStill DEF AtChannel

LEMMA Hears ==
    ASSUME SweepInv, AtChannel, pc # "idle"
    PROVE  air[start] \in SignalType
BY SignalAssumption DEF SweepInv, AtChannel

LEMMA SweepProbe ==
    ASSUME TypeOK, SweepInv, Probe
    PROVE  SweepInv'
<1>1. /\ UNCHANGED SweepVars /\ UNCHANGED <<start, up, AutoScanAll, chList, scanFlag>>
      /\ pc = "probe"
  BY DEF Probe, rangeVars, callVars, allVars, noiseVars, envVars, SweepVars
<1>2. AtChannel /\ scanFlag
  BY <1>1 DEF SweepInv
<1>3. AtChannel'
  BY <1>1, <1>2, StaysAt
<1>4. CASE Loud(start)
  <2>1. pc' = "poll" /\ timeout' = 0
    BY <1>4 DEF Probe
  <2>2. 0 < PollMax /\ 0 < air[start].polls
    BY <1>1, <1>2, Hears, BoundAssumption, Widths, SMT DEF SignalType
  <2> QED
    BY <1>1, <1>2, <1>3, <1>4, <2>1, <2>2, StandsStill DEF SweepInv, SweepVars
<1>5. CASE ~Loud(start)
  <2>1. pc' = "advance" /\ ~Receivable(start)
    BY <1>5 DEF Probe, Receivable
  <2> QED
    BY <1>1, <1>2, <1>3, <2>1, StandsStill DEF SweepInv, SweepVars
<1> QED
  BY <1>4, <1>5

LEMMA SweepPoll ==
    ASSUME TypeOK, SweepInv, Poll
    PROVE  SweepInv'
<1>1. /\ UNCHANGED SweepVars /\ UNCHANGED <<start, up, AutoScanAll, chList, scanFlag>>
      /\ pc = "poll"
  BY DEF Poll, rangeVars, callVars, allVars, noiseVars, envVars, SweepVars
<1>2. /\ AtChannel /\ scanFlag /\ Loud(start)
      /\ timeout < PollMax /\ timeout < air[start].polls
  BY <1>1 DEF SweepInv
<1>3. AtChannel' /\ Loud(start)'
  BY <1>1, <1>2, StaysAt, StandsStill
<1>4. timeout' = timeout + 1 /\ timeout \in Nat /\ air[start].polls \in Nat /\ PollMax \in Nat
  <2>a. timeout \in 0..UINT8_MAX
    BY DEF TypeOK
  <2>b. PollMax \in 1..UINT8_MAX
    BY BoundAssumption
  <2>1. timeout \in Int /\ 0 <= timeout /\ timeout + 1 <= 255 /\ PollMax \in Nat
    BY <2>a, <2>b, <1>2, Widths, SMT
  <2>2. timeout' = timeout + 1
    BY <2>1, SMT DEF Poll, UINT8
  <2>3. air[start].polls \in Nat
    BY <1>1, <1>2, Hears DEF SignalType
  <2> QED
    BY <2>1, <2>2, <2>3, SMT
<1>5. CASE timeout + 1 < air[start].polls /\ timeout' < PollMax
  <2>1. pc' = "poll"
    BY <1>5 DEF Poll
  <2>2. timeout' < PollMax /\ timeout' < air'[start'].polls
    BY <1>1, <1>4, <1>5 DEF SweepVars
  <2> QED
    BY <1>1, <1>2, <1>3, <2>1, <2>2, StandsStill DEF SweepInv, SweepVars
<1>6. CASE ~(timeout + 1 < air[start].polls /\ timeout' < PollMax)
  <2>1. pc' = "judge"
    BY <1>6 DEF Poll
  <2>2. timeout' < PollMax <=> air[start].polls < PollMax
    BY <1>2, <1>4, <1>6, SMT
  <2> QED
    BY <1>1, <1>2, <1>3, <2>1, <2>2, StandsStill DEF SweepInv, SweepVars
<1> QED
  BY <1>5, <1>6

LEMMA SweepJudge ==
    ASSUME TypeOK, SweepInv, Judge
    PROVE  SweepInv'
<1>1. /\ UNCHANGED SweepVars /\ UNCHANGED <<start, up, AutoScanAll, chList>>
      /\ pc = "judge" /\ pc' = "advance"
      /\ scanFlag' = (scanFlag /\ ~(timeout < PollMax /\ Clear(start)))
  BY DEF Judge, rangeVars, callVars, allVars, noiseVars, envVars, SweepVars
<1>2. /\ AtChannel /\ scanFlag /\ Loud(start)
      /\ timeout < PollMax <=> air[start].polls < PollMax
  BY <1>1 DEF SweepInv
<1>3. AtChannel'
  BY <1>1, <1>2, StaysAt
<1>4. scanFlag' <=> ~Receivable(start)
  BY <1>1, <1>2 DEF Receivable
<1> QED
  BY <1>1, <1>3, <1>4, StandsStill DEF SweepInv, SweepVars

(* Going on to the next channel passes the present one; past the end all   *)
(* are passed.                                                             *)
LEMMA PassesOne ==
    ASSUME TypeOK, Servable(req), NEW c \in Raster(req)
    PROVE  LET n == NextChannel(c, UpAll)
           IN  /\ PassedBefore(n) = {d \in Wanted : Precedes(d, c) \/ d = c}
               /\ Precedes(LastOf(req), n) => PassedBefore(n) = Wanted
<1> DEFINE n == NextChannel(c, UpAll)
<1>1. n \in Int /\ \A d \in Raster(req) : Precedes(d, n) <=> Precedes(d, c) \/ d = c
  BY NextInSweep
<1>2. Wanted \subseteq Raster(req)
  BY DEF Wanted
<1>3. PassedBefore(n) = {d \in Wanted : Precedes(d, c) \/ d = c}
  BY <1>1, <1>2 DEF PassedBefore
<1>4. ASSUME Precedes(LastOf(req), n), NEW d \in Wanted
      PROVE  Precedes(d, n)
  <2>1. d \in Int /\ LastOf(req) \in Int
    BY <1>2, RasterIs, SweepEnds DEF OnRaster
  <2>2. ~Precedes(LastOf(req), d)
    BY SweepEnds
  <2> HIDE DEF n
  <2> QED
    BY <1>1, <1>4, <2>1, <2>2, SMT DEF Precedes
<1> QED
  BY <1>3, <1>4 DEF PassedBefore

LEMMA SweepAdvance ==
    ASSUME TypeOK, CallInv, SweepInv, Servable(req), Advance
    PROVE  SweepInv'
<1>1. /\ UNCHANGED SweepVars /\ UNCHANGED <<up, stop, AutoScanAll, chList>>
      /\ pc = "advance"
  BY DEF Advance, rangeVars, callVars, allVars, noiseVars, envVars, SweepVars
<1>2. /\ AtChannel /\ (scanFlag <=> ~Receivable(start)) /\ stop = LastOf(req)
  BY <1>1 DEF SweepInv, CallInv, InLoop
<1>3. start \in Raster(req) /\ start # 0 /\ start \in Int /\ SoFar = PassedBefore(start)
  <2>1. start \in Raster(req) /\ SoFar = PassedBefore(start)
    BY <1>2 DEF AtChannel
  <2>2. start \in Int /\ 0 < start
    BY <2>1, NextInSweep
  <2> QED
    BY <2>1, <2>2, SMT
<1>4. SoFar' = SoFar /\ \A c : PassedBefore(c)' = PassedBefore(c)
  BY <1>1, StandsStill DEF SoFar, Entries, PassedBefore, Precedes
<1>5. CASE ~scanFlag
  <2>1. pc' = "return" /\ chfreq' = start
    BY <1>5 DEF Advance
  <2>2. start \in Wanted
    BY <1>2, <1>3, <1>5 DEF Wanted
  <2>3. chfreq' # 0 /\ chfreq' \in Wanted' /\ SoFar' = PassedBefore(start)'
    <3>1. start' = start
      BY <1>5 DEF Advance
    <3> QED
      BY <1>1, <1>3, <1>4, <2>1, <2>2, <3>1, StandsStill DEF PassedBefore, Precedes
  <2>4. SoFar' = PassedBefore(chfreq)'
    <3>1. start' = start
      BY <1>5 DEF Advance
    <3> QED
      BY <2>1, <2>3, <3>1 DEF PassedBefore, Precedes
  <2> QED
    BY <1>1, <2>1, <2>3, <2>4, StandsStill DEF SweepInv, SweepVars
<1>6. CASE scanFlag
  <2> DEFINE n == NextChannel(start, up)
             past == (up /\ stop < n) \/ (~up /\ n < stop)
  <2>1. /\ start' = n
        /\ past => pc' = "return" /\ chfreq' = 0
        /\ ~past => pc' = "probe" /\ scanFlag' = TRUE
    BY <1>6 DEF Advance
  <2>2. start \notin Wanted
    BY <1>2, <1>6 DEF Wanted
  <2>3. CASE up = UpAll
    <3>1. past <=> Precedes(LastOf(req), n)
      BY <1>2, <2>3 DEF Precedes
    <3>2. n = NextChannel(start, UpAll)
      BY <2>3
    <3>3. PassedBefore(n) = {d \in Wanted : Precedes(d, start) \/ d = start}
      BY <1>3, <3>2, PassesOne
    <3>4. PassedBefore(n) = SoFar
      BY <1>3, <2>2, <3>3 DEF PassedBefore
    <3>5. Precedes(LastOf(req), n) => SoFar = Wanted
      BY <1>3, <3>2, <3>4, PassesOne
    <3>6. n \in Raster(req) <=> ~Precedes(LastOf(req), n)
      BY <1>3, <3>2, NextInSweep
    <3> HIDE DEF n, past
    <3>7. CASE past
      BY <1>1, <1>4, <2>1, <3>1, <3>5, <3>7, StandsStill DEF SweepInv, SweepVars
    <3>8. CASE ~past
      <4>1. n \in Raster(req) /\ SoFar' = PassedBefore(n)
        BY <1>4, <3>1, <3>4, <3>6, <3>8
      <4>2. PassedBefore(start)' = PassedBefore(n)
        BY <1>1, <2>1, StandsStill DEF PassedBefore, Precedes
      <4>3. AtChannel'
        BY <1>1, <2>1, <2>3, <4>1, <4>2, StandsStill DEF AtChannel
      <4> QED
        BY <1>1, <2>1, <3>8, <4>3, StandsStill DEF SweepInv, SweepVars
    <3> QED
      BY <3>7, <3>8
  <2>4. CASE up # UpAll
    <3>1. ~up /\ start = LastOf(req) /\ UpAll
      BY <1>2, <2>4 DEF AtChannel, TypeOK, UpAll
    <3>2. n = start - Step
      <4>1. /\ Step \in {5, 10, 20} /\ Step <= start /\ start + Step <= UINT16_MAX
        BY <3>1, RangeOf
      <4>2. start - Step \in Int /\ 0 <= start - Step /\ start - Step <= UINT16_MAX
        BY <1>3, <4>1, Widths, SMT
      <4>3. UINT16(start - Step) = start - Step
        BY <4>2, Widths, SMT DEF UINT16
      <4> QED
        BY <3>1, <4>3 DEF NextChannel
    <3>3. past
      BY <1>2, <1>3, <3>1, <3>2, RangeOf, SMT
    <3>4. ASSUME NEW d \in Wanted PROVE d \in PassedBefore(start)
      <4>1. d \in Int /\ ~Precedes(LastOf(req), d) /\ d # start
        BY <2>2, RasterIs, SweepEnds DEF OnRaster, Wanted
      <4> QED
        BY <1>3, <3>1, <4>1, SMT DEF Precedes, PassedBefore
    <3>5. SoFar = Wanted
      BY <1>3, <3>4 DEF PassedBefore
    <3> HIDE DEF n, past
    <3> QED
      BY <1>1, <1>4, <2>1, <3>3, <3>5, StandsStill DEF SweepInv, SweepVars
  <2> QED
    BY <2>3, <2>4
<1> QED
  BY <1>5, <1>6

(* The entries of a list that grew by one.                                 *)
LEMMA Appended ==
    ASSUME NEW S, NEW s \in Seq(S), NEW x \in S
    PROVE  Entries(Append(s, x)) = Entries(s) \cup {x}
<1>1. /\ DOMAIN Append(s, x) = 1..(Len(s) + 1) /\ DOMAIN s = 1..Len(s) /\ Len(s) \in Nat
      /\ Append(s, x)[Len(s) + 1] = x
      /\ \A i \in 1..Len(s) : Append(s, x)[i] = s[i]
  BY SMT
<1>2. \A i \in 1..(Len(s) + 1) : i \in 1..Len(s) \/ i = Len(s) + 1
  BY <1>1, SMT
<1>3. \A i \in 1..Len(s) : i \in 1..(Len(s) + 1)
  BY <1>1, SMT
<1>4. Len(s) + 1 \in 1..(Len(s) + 1)
  BY <1>1, SMT
<1> QED
  BY <1>1, <1>2, <1>3, <1>4, Zenon DEF Entries

LEMMA SweepCollect ==
    ASSUME TypeOK, RoomInv, CallInv, SweepInv, Servable(req), CollectCH
    PROVE  SweepInv'
<1>1. /\ UNCHANGED SweepVars /\ UNCHANGED AutoScanAll
      /\ pc = "return" /\ AutoScanAll /\ req.all
  BY DEF CollectCH, rangeVars, callVars, noiseVars, envVars, SweepVars, CallInv
<1>2. PStop = LastOf(req) /\ LastOf(req) \in Int
  BY <1>1, RangeOf DEF PStop, LastOf
<1>3. IF chfreq = 0 THEN SoFar = Wanted
                    ELSE chfreq \in Wanted /\ SoFar = PassedBefore(chfreq)
  BY <1>1 DEF SweepInv
<1>4. SoFar = Entries(chList) /\ SoFar' = Entries(chList')
  BY <1>1 DEF SoFar, Entries
<1>5. \A c : PassedBefore(c)' = PassedBefore(c)
  BY <1>1, StandsStill DEF PassedBefore, Precedes
<1>6. CASE chfreq = 0
  <2>1. chList' = chList /\ pStart' = NextChannel(LastOf(req), UpAll)
    BY <1>2, <1>6 DEF CollectCH
  <2>2. pStart' = IF UpAll THEN LastOf(req) + Step ELSE LastOf(req) - Step
    <3>1. /\ LastOf(req) <= UINT16_MAX /\ 0 <= LastOf(req)
      BY <1>2, RangeOf, Widths, SMT
    <3> QED
      BY <1>2, <2>1, <3>1, NoWrap, SMT
  <2>3. ~(IF UpAll THEN pStart' <= PStop ELSE pStart' >= PStop)
    BY <1>2, <2>2, RangeOf, SMT
  <2>4. pc' = "finish"
    BY <2>3 DEF CollectCH
  <2>5. SoFar' = Wanted'
    BY <1>1, <1>3, <1>4, <1>6, <2>1, StandsStill
  <2> QED
    BY <1>1, <2>4, <2>5, StandsStill DEF SweepInv, SweepVars
<1>7. CASE chfreq # 0
  <2> DEFINE n == NextChannel(chfreq, UpAll)
  <2>1. chfreq \in Wanted /\ chfreq \in Raster(req) /\ SoFar = PassedBefore(chfreq)
    BY <1>3, <1>7 DEF Wanted
  <2>2. chList' = Append(chList, chfreq) /\ pStart' = n /\ Len(chList) < ChMax
    BY <1>1, <1>7 DEF CollectCH, RoomInv, InLoop
  <2>3. Len(chList') <= ChMax
    BY <2>2, BoundAssumption, SMT DEF TypeOK
  <2>4. SoFar' = SoFar \cup {chfreq}
    <3> DEFINE W == 0..UINT16_MAX
    <3>1. chList \in Seq(W) /\ chfreq \in W
      BY DEF TypeOK
    <3> HIDE DEF W
    <3>2. Entries(Append(chList, chfreq)) = Entries(chList) \cup {chfreq}
      BY <3>1, Appended
    <3> QED
      BY <1>4, <2>2, <3>2
  <2>5. PassedBefore(n) = SoFar'
    <3>1. PassedBefore(n) = {d \in Wanted : Precedes(d, chfreq) \/ d = chfreq}
      BY <2>1, PassesOne
    <3> QED
      BY <2>1, <2>4, <3>1 DEF PassedBefore
  <2>6. /\ n \in Int /\ (n \in Raster(req) <=> ~Precedes(LastOf(req), n))
        /\ Precedes(LastOf(req), n) => SoFar' = Wanted
    BY <2>1, <2>5, NextInSweep, PassesOne
  <2> HIDE DEF n
  <2>7. (IF UpAll THEN pStart' <= PStop ELSE pStart' >= PStop) <=> ~Precedes(LastOf(req), n)
    BY <1>2, <2>2, <2>6, SMT DEF Precedes
  <2>8. CASE ~Precedes(LastOf(req), n) /\ Len(chList') < ChMax
    <3>1. EnterSeekCH(n, LastOf(req))
      BY <1>2, <2>2, <2>7, <2>8 DEF CollectCH
    <3>2. pc' = "probe" /\ start' = n /\ scanFlag' /\ up' = (n < LastOf(req))
      BY <3>1 DEF EnterSeekCH
    <3>3. up' = UpAll \/ (~up' /\ start' = LastOf(req))
      <4>1. up' <=> n < LastOf(req)
        BY <3>2, Zenon
      <4>2. UpAll \in BOOLEAN /\ up' \in BOOLEAN
        BY <3>2 DEF UpAll
      <4>3. (~UpAll => ~up') /\ (UpAll => up' \/ n = LastOf(req))
        BY <1>2, <2>6, <2>8, <4>1, SMT DEF Precedes
      <4> QED
        BY <3>2, <4>2, <4>3
    <3>4. PassedBefore(start)' = PassedBefore(n)
      BY <1>1, <3>2, StandsStill DEF PassedBefore, Precedes
    <3>5. AtChannel'
      BY <1>1, <2>5, <2>6, <2>8, <3>2, <3>3, <3>4, StandsStill DEF AtChannel
    <3> QED
      BY <1>1, <3>2, <3>5, StandsStill DEF SweepInv, SweepVars
  <2>9. CASE ~(~Precedes(LastOf(req), n) /\ Len(chList') < ChMax)
    <3>1. pc' = "finish"
      BY <2>7, <2>9 DEF CollectCH
    <3>2. Len(chList') = ChMax \/ SoFar' = Wanted'
      <4>1. CASE Precedes(LastOf(req), n)
        BY <1>1, <2>6, <4>1, StandsStill
      <4>2. CASE ~(Len(chList') < ChMax)
        <5>1. Len(chList') \in Nat /\ ChMax \in Nat
          BY <2>2, BoundAssumption, SMT DEF TypeOK
        <5> QED
          BY <2>3, <4>2, <5>1, SMT
      <4> QED
        BY <2>9, <4>1, <4>2
    <3> QED
      BY <1>1, <3>1, <3>2, StandsStill DEF SweepInv, SweepVars
  <2> QED
    BY <2>8, <2>9
<1> QED
  BY <1>6, <1>7

LEMMA SweepStep ==
  ASSUME TypeOK, RoomInv, CallInv, SweepInv, \A r \in Requests : Servable(r), [Next]_vars
  PROVE  SweepInv'
<1>0. pc # "idle" => Servable(req)
  BY DEF SweepInv
<1>1. ASSUME NEW r \in Requests, Call(r) PROVE SweepInv'
  BY <1>1, SweepCall
<1>2. ASSUME NEW c \in Countries, SetCountry(c) PROVE SweepInv'
  BY <1>2 DEF SetCountry, SweepInv
<1>3. CASE QND_Init
  BY <1>3 DEF QND_Init, SweepInv
<1>4. CASE Update \/ MeasureBand
  <2>1. /\ pc \in {"update", "floor"} /\ pc' \in {"floor", "enter"}
        /\ UNCHANGED <<req, country, air, AutoScanAll, pStart>>
    BY <1>4 DEF Update, MeasureBand, MeasureBandUpTo, rangeVars, callVars, allVars, envVars
  <2>2. Raster(req)' = Raster(req)
    BY <2>1 DEF Raster, LastOf, ClampedStop, Span
  <2> QED
    BY <2>1, <2>2 DEF SweepInv
<1>5. CASE Enter
  BY <1>0, <1>5, SweepEnter DEF Enter
<1>6. CASE Probe
  BY <1>6, SweepProbe
<1>7. CASE Poll
  BY <1>7, SweepPoll
<1>8. CASE Judge
  BY <1>8, SweepJudge
<1>9. CASE Advance
  BY <1>0, <1>9, SweepAdvance DEF Advance
<1>10. CASE CollectCH
  BY <1>0, <1>10, SweepCollect DEF CollectCH
<1>11. CASE AnswerOne \/ Finish
  BY <1>11 DEF AnswerOne, Finish, Return, SweepInv
<1>12. CASE UNCHANGED vars
  <2>1. UNCHANGED SweepVars /\ UNCHANGED <<pc, start, up, AutoScanAll, chList, chfreq, timeout, scanFlag, pStart>>
    BY <1>12 DEF vars, rangeVars, callVars, allVars, seekVars, noiseVars, envVars, SweepVars
  <2>2. AtChannel => AtChannel'
    BY <2>1, StaysAt
  <2>3. SoFar' = SoFar /\ PassedBefore(chfreq)' = PassedBefore(chfreq)
    BY <2>1, StandsStill DEF SoFar, Entries, PassedBefore, Precedes
  <2>4. Loud(start)' = Loud(start) /\ Receivable(start)' = Receivable(start)
    BY <2>1, StandsStill DEF Loud, Receivable, Clear, MinRssi, SweepVars
  <2> QED
    BY <2>1, <2>2, <2>3, <2>4, StandsStill DEF SweepInv, SweepVars
<1> QED
  BY <1>1, <1>2, <1>3, <1>4, <1>5, <1>6, <1>7, <1>8, <1>9, <1>10, <1>11, <1>12
     DEF Next, Running

-----------------------------------------------------------------------------
(* The refinement.  A step of the sweep outside the list is a stutter of   *)
(* QnScan; entering the loop is the beginning of a call, collecting a      *)
(* channel the next entry of the list, and the two answers are its ends.   *)
LEMMA MapInit == Init => Scan!Init
BY DEF Init, Scan!Init, Sweeping

(* While a call stays in its sweep only its list and its answer may show.  *)
LEMMA SameSweep ==
    ASSUME Sweeping, Sweeping', UNCHANGED SweepVars, UNCHANGED AutoScanAll
    PROVE  /\ UNCHANGED (IF ~Sweeping THEN "none" ELSE IF AutoScanAll THEN "all" ELSE "one")
           /\ UNCHANGED (IF Sweeping THEN Wanted ELSE {})
           /\ UNCHANGED (Sweeping /\ UpAll)
BY StandsStill

LEMMA MapStutter ==
    ASSUME UNCHANGED <<chList, ret>>,
           \/ ~Sweeping /\ ~Sweeping'
           \/ Sweeping /\ Sweeping' /\ UNCHANGED SweepVars /\ UNCHANGED AutoScanAll
    PROVE  UNCHANGED Scan!vars
<1>1. CASE ~Sweeping /\ ~Sweeping'
  BY <1>1 DEF Scan!vars
<1>2. CASE Sweeping /\ Sweeping' /\ UNCHANGED SweepVars /\ UNCHANGED AutoScanAll
  BY <1>2, SameSweep DEF Scan!vars
<1> QED
  BY <1>1, <1>2

LEMMA MapEnter ==
    ASSUME TypeOK, CallInv, SweepInv, Servable(req), Enter
    PROVE  Scan!Next
<1> DEFINE m == IF AutoScanAll THEN "all" ELSE "one"
<1>1. /\ ~Sweeping /\ Sweeping' /\ AutoScanAll' = AutoScanAll /\ UNCHANGED SweepVars
      /\ ret' = ret /\ chList' = (IF AutoScanAll THEN <<>> ELSE chList)
  BY DEF Enter, EnterSeekCH, Sweeping, SweepVars, rangeVars, callVars, noiseVars, envVars
<1>2. Wanted' \in SUBSET (Nat \ {0})
  <2>1. ASSUME NEW c \in Wanted PROVE c \in Nat \ {0}
    <3>1. c \in Int /\ 0 < c
      BY NextInSweep DEF Wanted
    <3> QED
      BY <3>1, SMT
  <2> QED
    BY <1>1, <2>1, StandsStill
<1>3. UpAll' \in BOOLEAN
  BY DEF UpAll
<1>4. Scan!Begin(m)
  BY <1>1, <1>2, <1>3 DEF Scan!Begin
<1> QED
  BY <1>4 DEF Scan!Next

LEMMA MapCollect ==
    ASSUME TypeOK, RoomInv, CallInv, SweepInv, Servable(req), CollectCH
    PROVE  Scan!Next \/ UNCHANGED Scan!vars
<1>1. /\ Sweeping /\ Sweeping' /\ UNCHANGED SweepVars /\ UNCHANGED AutoScanAll
      /\ pc = "return" /\ AutoScanAll /\ ret' = ret
  BY DEF CollectCH, EnterSeekCH, Sweeping, rangeVars, callVars, noiseVars, envVars, SweepVars
<1>2. CASE chfreq = 0
  BY <1>1, <1>2, MapStutter DEF CollectCH
<1>3. CASE chfreq # 0
  <2>1. /\ chfreq \in Wanted
        /\ Entries(chList) = PassedBefore(chfreq)
    BY <1>1, <1>3 DEF SweepInv, SoFar
  <2>2. chList' = Append(chList, chfreq) /\ Len(chList) # ChMax
    <3>1. Len(chList) \in Nat /\ Len(chList) < ChMax /\ ChMax \in Nat
      BY <1>1, BoundAssumption, SMT DEF RoomInv, InLoop, TypeOK
    <3> QED
      BY <1>3, <3>1, SMT DEF CollectCH
  <2>3. Scan!First(Scan!Left, chfreq)
    <3>1. Scan!Left = {c \in Wanted : c \notin PassedBefore(chfreq)}
      BY <1>1, <2>1 DEF Scan!Left, Entries
    <3>2. \A c \in Wanted : c \in Int
      BY RasterIs DEF Wanted, OnRaster
    <3>3. chfreq \in Scan!Left
      BY <2>1, <3>1, <3>2, SMT DEF PassedBefore, Precedes
    <3>4. \A d \in Scan!Left : IF UpAll THEN chfreq <= d ELSE d <= chfreq
      BY <2>1, <3>1, <3>2, SMT DEF PassedBefore, Precedes
    <3> QED
      BY <1>1, <3>3, <3>4 DEF Scan!First
  <2>4. Scan!ListNext
    BY <1>1, <2>1, <2>2, <2>3, SameSweep DEF Scan!ListNext, Scan!Full
  <2> QED
    BY <2>4 DEF Scan!Next
<1> QED
  BY <1>2, <1>3

LEMMA MapFinish ==
    ASSUME CallInv, SweepInv, Finish
    PROVE  Scan!Next
<1>1. /\ Sweeping /\ ~Sweeping' /\ AutoScanAll /\ pc = "finish"
      /\ chList' = chList /\ ret' = Len(chList)
  BY DEF Finish, Return, Sweeping, CallInv
<1>2. Len(chList) = ChMax \/ Scan!Left = {}
  <2>1. Len(chList) = ChMax \/ Wanted = Entries(chList)
    BY <1>1 DEF SweepInv, SoFar
  <2> QED
    BY <1>1, <2>1 DEF Scan!Left, Entries
<1>3. Scan!EndAll
  BY <1>1, <1>2 DEF Scan!EndAll, Scan!End, Scan!Full
<1> QED
  BY <1>3 DEF Scan!Next

LEMMA MapAnswer ==
    ASSUME TypeOK, SweepInv, Servable(req), AnswerOne
    PROVE  Scan!Next
<1>1. /\ Sweeping /\ ~Sweeping' /\ ~AutoScanAll /\ pc = "return"
      /\ chList' = chList /\ ret' = chfreq
  BY DEF AnswerOne, Return, Sweeping
<1>2. IF chfreq = 0 THEN Wanted = {} ELSE chfreq \in Wanted /\ PassedBefore(chfreq) = {}
  BY <1>1 DEF SweepInv, SoFar
<1>3. CASE chfreq = 0
  BY <1>1, <1>2, <1>3 DEF Scan!EndOne, Scan!End, Scan!Next
<1>4. CASE chfreq # 0
  <2>1. \A c \in Wanted : c \in Int
    BY RasterIs DEF Wanted, OnRaster
  <2>2. \A d \in Wanted : IF UpAll THEN chfreq <= d ELSE d <= chfreq
    BY <1>2, <1>4, <2>1, SMT DEF PassedBefore, Precedes
  <2>3. Wanted # {} /\ Scan!First(Wanted, ret')
    BY <1>1, <1>2, <1>4, <2>2 DEF Scan!First
  <2> QED
    BY <1>1, <2>3 DEF Scan!EndOne, Scan!End, Scan!Next
<1> QED
  BY <1>3, <1>4

LEMMA MapStep ==
  ASSUME TypeOK, RoomInv, CallInv, SweepInv, \A r \in Requests : Servable(r), [Next]_vars
  PROVE  [Scan!Next]_Scan!vars
<1>0. pc # "idle" => Servable(req)
  BY DEF SweepInv
<1>1. ASSUME NEW r \in Requests, Call(r) PROVE UNCHANGED Scan!vars
  BY <1>1, MapStutter DEF Call, Sweeping
<1>2. ASSUME NEW c \in Countries, SetCountry(c) PROVE UNCHANGED Scan!vars
  BY <1>2, MapStutter DEF SetCountry, Sweeping, callVars, allVars
<1>3. CASE QND_Init
  BY <1>3, MapStutter DEF QND_Init, Sweeping, callVars, allVars
<1>4. CASE Update \/ MeasureBand
  BY <1>4, MapStutter DEF Update, MeasureBand, MeasureBandUpTo, Sweeping, callVars, allVars
<1>5. CASE Enter
  BY <1>0, <1>5, MapEnter DEF Enter
<1>6. CASE Probe \/ Poll \/ Judge \/ Advance
  <2>1. /\ Sweeping /\ Sweeping' /\ UNCHANGED SweepVars /\ UNCHANGED AutoScanAll
        /\ UNCHANGED <<chList, ret>>
    BY <1>6 DEF Probe, Poll, Judge, Advance, Sweeping, SweepVars, rangeVars, callVars,
                allVars, noiseVars, envVars
  <2> QED
    BY <2>1, MapStutter
<1>7. CASE CollectCH
  BY <1>0, <1>7, MapCollect DEF CollectCH
<1>8. CASE AnswerOne
  BY <1>0, <1>8, MapAnswer DEF AnswerOne
<1>9. CASE Finish
  BY <1>9, MapFinish
<1>10. CASE UNCHANGED vars
  <2>1. UNCHANGED SweepVars /\ UNCHANGED <<pc, AutoScanAll, chList, ret>>
    BY <1>10 DEF vars, SweepVars, rangeVars, callVars, allVars, noiseVars, envVars
  <2>2. Sweeping' <=> Sweeping
    BY <2>1 DEF Sweeping
  <2> QED
    BY <2>1, <2>2, MapStutter
<1> QED
  BY <1>1, <1>2, <1>3, <1>4, <1>5, <1>6, <1>7, <1>8, <1>9, <1>10 DEF Next, Running

(* Whatever is asked within the limits of the counter, whatever is on the  *)
(* air, and however small the list: QND_RXSeekCHAll lists exactly the      *)
(* receivable channels of its range, in order and once each, until the     *)
(* list is full, and QND_RXSeekCH finds the first of them.                 *)
THEOREM Implements ==
  ASSUME \A r \in Requests : Servable(r)
  PROVE  Spec => SeekIsScan
<1>1. Init => SweepInv
  BY DEF Init, SweepInv
<1>2. TypeOK /\ RoomInv /\ CallInv /\ SweepInv /\ [Next]_vars => SweepInv'
  BY SweepStep
<1>3. TypeOK /\ RoomInv /\ CallInv /\ SweepInv /\ [Next]_vars => [Scan!Next]_Scan!vars
  BY MapStep
<1> QED
  BY <1>1, <1>2, <1>3, MapInit, Basics, PTL DEF Spec, SeekIsScan, Scan!Spec

=============================================================================
