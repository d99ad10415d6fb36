------------------------------- MODULE QnSeek -------------------------------
(***************************************************************************)
(* The automatic seek of the QN8006 FM driver, step by step: QND_RXSeekCH, *)
(* QND_RXSeekCHAll on top of it, and the noise-floor bookkeeping both call *)
(* first (QND_UpdateRSSIn, QNF_UpdateRSSIn).  One caller at a time; the    *)
(* chip is in FM receive mode, as the functions' comments require.  In     *)
(* between the country may be changed (QND_SetCountry) and the driver be   *)
(* initialised again (QND_Init), which alone computes the bands.           *)
(*                                                                         *)
(* The chip and the radio environment are external: `air' says what the    *)
(* chip reports on each channel while a call runs, `floor' what it reads   *)
(* on the clearest channel of each band.  Both may change between calls.   *)
(* Readings are numbers because the code compares them with thresholds.    *)
(***************************************************************************)
EXTENDS QnTables, Sequences

CONSTANTS
    Requests,   \* the calls: [all, start, stop, step, db, up]
    Signals,    \* what a channel may report: [rssi, polls, ifcnt, stereo, snr]
    Floors,     \* noise floors the environment may have: [Bands -> 0..UINT8_MAX]
    ChMax,      \* capacity of qnd_ChList (50 in the code)
    PollMax,    \* polls of the busy bit before giving up (200 in the code)
    MaxCalls    \* bound on the number of calls

(* A request as an ioctl delivers it.  `up' is what the caller asks for.   *)
RequestType == [all : BOOLEAN, start : 0..UINT16_MAX, stop : 0..UINT16_MAX,
                step : 0..2, db : 0..UINT8_MAX, up : {0, 1}]
SignalType  == [rssi : 0..UINT8_MAX, polls : Nat \ {0}, ifcnt : 0..UINT16_MAX,
                stereo : BOOLEAN, snr : 0..UINT8_MAX]

ASSUME RequestAssumption == Requests \subseteq RequestType
ASSUME SignalAssumption  == Signals \subseteq SignalType
ASSUME FloorAssumption   == Floors \subseteq [Bands -> 0..UINT8_MAX]
ASSUME BoundAssumption   ==
    /\ ChMax \in 1..UINT8_MAX
    /\ PollMax \in 1..UINT8_MAX
    /\ MaxCalls \in Nat

VARIABLES
    pc,                     \* where the call in progress is
    req,                    \* its arguments
    \* globals of the driver; the range is qnd_CH_START, _STOP and _STEP of
    \* `country', the bands are those QND_Init computed for `bandsOf'
    country, bandsOf,
    measuredFor,            \* the country all floors were last measured for
    AutoScanAll, chList, rssiNs, rssiN, clearBand, firstScan, clearScanFlag,
    \* locals of QND_RXSeekCHAll, QND_RXSeekCH and QNF_UpdateRSSIn
    pStart, start, stop, up, scanFlag, chfreq, timeout, band,
    \* the chip: mute bits, channel and scan registers, image rejection
    muted, reg, imr,
    \* the environment
    air, floor,
    \* the last return value, the number of seeks, and whether nothing was
    \* set since the last of them
    ret, calls, settled

seekVars  == <<start, stop, up, scanFlag, chfreq, timeout>>
noiseVars == <<rssiNs, rssiN, clearBand, firstScan, clearScanFlag, band>>
chipVars  == <<muted, reg, imr>>
envVars   == <<air, floor>>
rangeVars == <<country, bandsOf, measuredFor, settled>>
callVars  == <<req, ret, calls>>
allVars   == <<AutoScanAll, chList, pStart>>
vars == <<pc, rangeVars, callVars, allVars, seekVars, noiseVars, chipVars, envVars>>

-----------------------------------------------------------------------------
(* Arguments of the call in progress.  QND_RXSeekCHAll clamps `stop' to    *)
(* the country's range, and derives the direction before it clamps.        *)
Step == StepTbl[req.step]
Span == Band[country]

ClampedStop(r) == IF r.stop > Span.stop THEN Span.stop ELSE r.stop
PStop == ClampedStop(req)
UpAll == req.start < req.stop

(* The channels a call can visit.                                          *)
Between(a, b) == IF a <= b THEN a..b ELSE b..a
LastOf(r) == IF r.all THEN ClampedStop(r) ELSE r.stop
Raster(r) == {c \in Between(r.start, LastOf(r)) : (c - r.start) % StepTbl[r.step] = 0}

(* Requests a seek can serve: the 16-bit counter neither wraps one step    *)
(* past the end of the range nor takes a channel for the answer `none',    *)
(* and the end is not clamped to below the start of an upward sweep.       *)
Servable(r) ==
    /\ r.start > 0
    /\ r.stop \in StepTbl[r.step]..(UINT16_MAX - StepTbl[r.step])
    /\ r.all /\ r.start < r.stop => \A c \in Countries : r.start <= Band[c].stop

(* The edges of the noise-floor bands of each country.                     *)
BandEdges == [c \in Countries |-> RSSInBB(Band[c].start, Band[c].stop, Band[c].step)]

(* What the code demands of a channel: more than 6+db above its noise      *)
(* floor before it scans; then an IF count in range and a strong signal, a *)
(* stereo pilot, or a signal-to-noise ratio in range.                      *)
MinRssi(c) == rssiN[BandIndex(BandEdges[bandsOf], c)]

Loud(c)  == air[c].rssi > MinRssi(c) + 6 + req.db
Clear(c) ==
    /\ air[c].ifcnt \in 1829..2267
    /\ \/ air[c].rssi > MinRssi(c) + 20 + req.db
       \/ air[c].stereo
       \/ air[c].snr \in 6..54

Receivable(c) == Loud(c) /\ air[c].polls < PollMax /\ Clear(c)

ResetRegisters == [ch |-> 0, hi |-> 0, start |-> 0, startHi |-> 0,
                   stop |-> 0, stopHi |-> 0, step |-> 0]

-----------------------------------------------------------------------------
Init ==
    /\ pc = "idle"
    /\ req = [all |-> FALSE, start |-> 0, stop |-> 0, step |-> 0, db |-> 0, up |-> 0]
    /\ country = "china" /\ bandsOf = "china"
    /\ measuredFor = "none" /\ settled = FALSE
    /\ AutoScanAll = FALSE /\ chList = <<>> /\ pStart = 0
    /\ rssiNs = 255 /\ rssiN = [i \in Bands |-> 0] /\ clearBand = 0
    /\ firstScan = TRUE /\ clearScanFlag = FALSE /\ band = 0
    /\ start = 0 /\ stop = 0 /\ up = FALSE /\ scanFlag = TRUE
    /\ chfreq = 0 /\ timeout = 0
    /\ muted = FALSE /\ imr = FALSE
    /\ reg = ResetRegisters
    /\ air = <<>> /\ floor = [i \in Bands |-> 0]
    /\ ret = 0 /\ calls = 0

(* QND_SetCountry; QND_Init, which computes the bands of the range in      *)
(* force, resets the chip and leaves it unmuted.                           *)
SetCountry(c) ==
    /\ pc = "idle"
    /\ country' = c
    /\ settled' = FALSE
    /\ UNCHANGED <<pc, bandsOf, measuredFor, callVars, allVars, seekVars, noiseVars, chipVars, envVars>>

QND_Init ==
    /\ pc = "idle"
    /\ bandsOf' = country
    /\ muted' = FALSE /\ imr' = FALSE /\ reg' = ResetRegisters
    /\ settled' = FALSE
    /\ UNCHANGED <<pc, country, measuredFor, callVars, allVars, seekVars, noiseVars, envVars>>

(* Entry of either function: mute the output, and (QND_RXSeekCHAll only)   *)
(* tell QND_RXSeekCH that it runs as a part.                               *)
Call(r) ==
    /\ pc = "idle" /\ calls < MaxCalls
    /\ req' = r
    /\ muted' = TRUE
    /\ AutoScanAll' = r.all
    /\ pStart' = IF r.all THEN r.start ELSE pStart
    /\ air' \in [Raster(r) -> Signals]
    /\ floor' \in Floors
    /\ pc' = "update"
    /\ calls' = calls + 1
    /\ settled' = TRUE
    /\ UNCHANGED <<country, bandsOf, measuredFor, chList, ret, seekVars, noiseVars, reg, imr>>

(* QND_UpdateRSSIn(0): except on the first scan, listen to the clear       *)
(* channel again; the bands are measured anew when it moved too far.  The  *)
(* clear channel need not lie in the band of its number any more once the  *)
(* bands were computed for another country.                                *)
RSSINTHRESHOLD == 4
Distance(a, b) == IF a > b THEN a - b ELSE b - a
ClearReadings == IF measuredFor = bandsOf THEN {floor[clearBand]} ELSE {floor[i] : i \in Bands}

Update ==
    /\ pc = "update"
    /\ \E heard \in ClearReadings :
          clearScanFlag' = IF firstScan THEN clearScanFlag
                           ELSE Distance(heard, rssiNs) >= RSSINTHRESHOLD
    /\ pc' = IF clearScanFlag' \/ firstScan THEN "floor" ELSE "enter"
    /\ UNCHANGED <<rangeVars, callVars, allVars, seekVars, chipVars, envVars,
                   rssiNs, rssiN, clearBand, firstScan, band>>

(* QNF_UpdateRSSIn(0), one band: the chip scans it for its clearest        *)
(* channel, and the reading there is the band's noise floor.  The bands    *)
(* are scanned with the step of the country in force, whichever they were  *)
(* computed for.                                                           *)
MeasureBandUpTo(last) ==
    /\ pc = "floor"
    /\ rssiN' = [rssiN EXCEPT ![band] = floor[band]]
    /\ IF rssiNs > floor[band]
         THEN rssiNs' = floor[band] /\ clearBand' = band
         ELSE UNCHANGED <<rssiNs, clearBand>>
    /\ IF band = last
         THEN /\ band' = 0 /\ firstScan' = FALSE /\ pc' = "enter"
              /\ measuredFor' = IF country = bandsOf THEN country ELSE "mixed"
         ELSE band' = band + 1 /\ UNCHANGED <<firstScan, measuredFor, pc>>
    /\ UNCHANGED <<country, bandsOf, settled, callVars, allVars, seekVars, chipVars,
                   envVars, clearScanFlag>>

MeasureBand_OneMore == MeasureBandUpTo(QND_BAND_NUM)

MeasureBand == MeasureBandUpTo(QND_BAND_NUM - 1)

(* The part of QND_RXSeekCH before its loop, on the arguments a and b; the *)
(* direction the caller asked for is overwritten.                          *)
EnterSeekCH(a, b) ==
    /\ start' = a
    /\ stop' = b
    /\ up' = (a < b)
    /\ scanFlag' = TRUE
    /\ timeout' = 0
    /\ UNCHANGED chfreq
    /\ pc' = "probe"

Enter ==
    /\ pc = "enter"
    /\ IF AutoScanAll
         THEN chList' = <<>> /\ EnterSeekCH(pStart, PStop)
         ELSE chList' = chList /\ EnterSeekCH(req.start, req.stop)
    /\ UNCHANGED <<rangeVars, callVars, AutoScanAll, pStart, noiseVars, chipVars, envVars>>

-----------------------------------------------------------------------------
(* The loop of QND_RXSeekCH: tune to a channel, read its signal strength,  *)
(* and start the chip's scan of that one channel if it is loud enough.     *)
Probe ==
    /\ pc = "probe"
    /\ imr' = ImageReject(start)
    /\ IF Loud(start)
         THEN /\ reg' = ConfigScan(SetCh(reg, start), start, start, req.step)
              /\ timeout' = 0
              /\ pc' = "poll"
         ELSE /\ reg' = SetCh(reg, start)
              /\ pc' = "advance"
              /\ UNCHANGED timeout
    /\ UNCHANGED <<rangeVars, callVars, allVars, noiseVars, envVars, muted,
                   start, stop, up, scanFlag, chfreq>>

(* One poll of the busy bit.  A scan that ends on the very last poll       *)
(* counts as timed out.                                                    *)
Poll_NoCount ==
    /\ pc = "poll"
    /\ timeout' = timeout
    /\ pc' = IF timeout + 1 < air[start].polls /\ timeout' < PollMax
               THEN "poll" ELSE "judge"
    /\ UNCHANGED <<rangeVars, callVars, allVars, noiseVars, chipVars, envVars,
                   start, stop, up, scanFlag, chfreq>>

Poll ==
    /\ pc = "poll"
    /\ timeout' = UINT8(timeout + 1)
    /\ pc' = IF timeout + 1 < air[start].polls /\ timeout' < PollMax
               THEN "poll" ELSE "judge"
    /\ UNCHANGED <<rangeVars, callVars, allVars, noiseVars, chipVars, envVars,
                   start, stop, up, scanFlag, chfreq>>

Judge_IgnoreTimeout ==
    /\ pc = "judge"
    /\ scanFlag' = (scanFlag /\ ~Clear(start))
    /\ pc' = "advance"
    /\ UNCHANGED <<rangeVars, callVars, allVars, noiseVars, chipVars, envVars,
                   start, stop, up, chfreq, timeout>>

Judge ==
    /\ pc = "judge"
    /\ scanFlag' = (scanFlag /\ ~(timeout < PollMax /\ Clear(start)))
    /\ pc' = "advance"
    /\ UNCHANGED <<rangeVars, callVars, allVars, noiseVars, chipVars, envVars,
                   start, stop, up, chfreq, timeout>>

(* A channel was accepted, or the next one is due; past the end of the     *)
(* range the answer is 0.                                                  *)
NextChannel(c, upward) == UINT16(IF upward THEN c + Step ELSE c - Step)

Advance ==
    /\ pc = "advance"
    /\ IF ~scanFlag
         THEN pc' = "return" /\ chfreq' = start /\ UNCHANGED <<start, scanFlag>>
         ELSE /\ start' = NextChannel(start, up)
              /\ IF (up /\ stop < start') \/ (~up /\ start' < stop)
                   THEN scanFlag' = FALSE /\ chfreq' = 0 /\ pc' = "return"
                   ELSE scanFlag' = TRUE /\ chfreq' = start /\ pc' = "probe"
    /\ UNCHANGED <<rangeVars, callVars, allVars, noiseVars, chipVars, envVars,
                   stop, up, timeout>>

(* A function returns: its locals are gone, and the air may change.        *)
Return ==
    /\ pc' = "idle"
    /\ air' = <<>>
    /\ start' = 0 /\ stop' = 0 /\ up' = FALSE /\ scanFlag' = TRUE
    /\ chfreq' = 0 /\ timeout' = 0 /\ pStart' = 0

(* QND_TuneToCH in receive mode: it leaves the output unmuted.             *)
TuneToCH(ch) ==
    /\ reg' = SetCh(reg, ch)
    /\ imr' = ImageReject(ch)
    /\ muted' = FALSE

(* QND_RXSeekCH called on its own tunes to what it found, or to `stop'.    *)
AnswerOne ==
    /\ pc = "return" /\ ~AutoScanAll
    /\ TuneToCH(IF chfreq = 0 THEN stop ELSE chfreq)
    /\ ret' = chfreq
    /\ Return
    /\ UNCHANGED <<rangeVars, req, calls, AutoScanAll, chList, noiseVars, floor>>

(* The loop of QND_RXSeekCHAll: list the channel and seek on from the next *)
(* one, until the range or the list is exhausted.                          *)
CollectCH_Tunes ==
    /\ pc = "return" /\ AutoScanAll
    /\ chList' = IF chfreq # 0 THEN Append(chList, chfreq) ELSE chList
    /\ pStart' = NextChannel(IF chfreq # 0 THEN chfreq ELSE PStop, UpAll)
    /\ IF /\ IF UpAll THEN pStart' <= PStop ELSE pStart' >= PStop
          /\ Len(chList') < ChMax
         THEN EnterSeekCH(pStart', PStop)
         ELSE pc' = "finish" /\ UNCHANGED seekVars
    /\ TuneToCH(IF chfreq = 0 THEN stop ELSE chfreq)
    /\ UNCHANGED <<rangeVars, callVars, AutoScanAll, noiseVars, envVars>>

CollectCH ==
    /\ pc = "return" /\ AutoScanAll
    /\ chList' = IF chfreq # 0 THEN Append(chList, chfreq) ELSE chList
    /\ pStart' = NextChannel(IF chfreq # 0 THEN chfreq ELSE PStop, UpAll)
    /\ IF /\ IF UpAll THEN pStart' <= PStop ELSE pStart' >= PStop
          /\ Len(chList') < ChMax
         THEN EnterSeekCH(pStart', PStop)
         ELSE pc' = "finish" /\ UNCHANGED seekVars
    /\ UNCHANGED <<rangeVars, callVars, AutoScanAll, noiseVars, chipVars, envVars>>

(* The end of QND_RXSeekCHAll: tune to the first channel of the list.      *)
Finish ==
    /\ pc = "finish"
    /\ TuneToCH(IF chList # <<>> THEN chList[1] ELSE PStop)
    /\ AutoScanAll' = FALSE
    /\ ret' = Len(chList)
    /\ Return
    /\ UNCHANGED <<rangeVars, req, calls, chList, noiseVars, floor>>

-----------------------------------------------------------------------------
Running ==
    \/ Update \/ MeasureBand \/ Enter
    \/ Probe \/ Poll \/ Judge \/ Advance
    \/ AnswerOne \/ CollectCH \/ Finish

Next ==
    \/ \E r \in Requests : Call(r)
    \/ \E c \in Countries : SetCountry(c)
    \/ QND_Init
    \/ Running

Spec == Init /\ [][Next]_vars

(* The driver keeps running while a call is in progress, and the chip ends *)
(* every clear-channel scan (the only poll without a timeout).             *)
FairSpec == Spec /\ WF_vars(Running)

-----------------------------------------------------------------------------
(* The channels a call should find: those it visits that are receivable.   *)
Wanted == {c \in Raster(req) : Receivable(c)}

Sweeping == pc \in {"probe", "poll", "judge", "advance", "return", "finish"}

Scan == INSTANCE QnScan WITH
            mode   <- IF ~Sweeping THEN "none" ELSE IF AutoScanAll THEN "all" ELSE "one",
            wanted <- IF Sweeping THEN Wanted ELSE {},
            upward <- Sweeping /\ UpAll,
            found  <- chList,
            answer <- ret

(* Every call does what QnScan promises: QND_RXSeekCHAll lists exactly the *)
(* receivable channels of its range in order until the list is full, and   *)
(* QND_RXSeekCH returns the first of them, although QND_RXSeekCHAll is     *)
(* built from calls of QND_RXSeekCH that each start anew.                  *)
SeekIsScan == Scan!Spec

(* Types of the state.                                                     *)
TypeOK ==
    /\ pc \in {"idle", "update", "floor", "enter", "probe", "poll", "judge",
               "advance", "return", "finish"}
    /\ req \in RequestType
    /\ country \in Countries /\ bandsOf \in Countries
    /\ measuredFor \in Countries \cup {"none", "mixed"} /\ settled \in BOOLEAN
    /\ AutoScanAll \in BOOLEAN /\ chList \in Seq(0..UINT16_MAX)
    /\ rssiNs \in 0..UINT8_MAX /\ rssiN \in [Bands -> 0..UINT8_MAX] /\ clearBand \in Bands
    /\ firstScan \in BOOLEAN /\ clearScanFlag \in BOOLEAN /\ band \in Bands
    /\ pStart \in 0..UINT16_MAX /\ start \in 0..UINT16_MAX /\ stop \in 0..UINT16_MAX
    /\ up \in BOOLEAN /\ scanFlag \in BOOLEAN
    /\ chfreq \in 0..UINT16_MAX /\ timeout \in 0..UINT8_MAX
    /\ muted \in BOOLEAN /\ imr \in BOOLEAN /\ reg \in ScanRegisters
    /\ floor \in [Bands -> 0..UINT8_MAX]
    /\ ret \in 0..UINT16_MAX /\ calls \in 0..MaxCalls

(* The channels the ten bits of the channel registers can name, every 50   *)
(* kHz.                                                                    *)
Tunable == {7600 + 5 * k : k \in 0..1023}

(* The listener hears nothing of a seek, over every change of channel, and *)
(* is back as soon as it ends: the output is muted exactly while a call    *)
(* runs.  Then the chip is tuned where the answer says: to the station     *)
(* found, or the first of the list, or else to the end of the range; and   *)
(* no call leaves the `part of a longer scan' flag behind.                 *)
TunedAtRest ==
    /\ muted = (pc # "idle")
    /\ pc = "idle" => ~AutoScanAll
    /\ pc = "idle" /\ settled =>
          LET tuned == IF req.all THEN (IF ret # 0 THEN chList[1] ELSE PStop)
                       ELSE IF ret # 0 THEN ret ELSE req.stop
          IN  /\ tuned \in Tunable => GetCh(reg) = tuned
              /\ imr = ImageReject(tuned)

(* Channels are judged against a noise floor that is theirs and current:   *)
(* all bands were measured in this call, or the clear channel still reads  *)
(* within the threshold of the value recorded for it; and a channel of the *)
(* range belongs to a band whose measurement covered it.  (After           *)
(* QND_SetCountry without QND_Init, and after QND_Init without a new       *)
(* measurement, neither need hold.)                                        *)
FloorCurrent ==
    Sweeping /\ measuredFor = bandsOf =>
        /\ rssiN = floor \/ Distance(floor[clearBand], rssiNs) < RSSINTHRESHOLD
        /\ country = bandsOf /\ start \in Span.start..Span.stop =>
              InItsBand(start, BandEdges[bandsOf], StepTbl[Span.step])

(* Every call returns, whatever the chip reports on the way (the scan of a *)
(* channel may never end), also for a range so low that the next channel   *)
(* is 0.                                                                   *)
SeekTerminates == pc # "idle" ~> pc = "idle"
=============================================================================
