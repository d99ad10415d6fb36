--------------------------- MODULE QnSharedProofs ---------------------------
(***************************************************************************)
(* What QnShared's callers may rely on, for every number of callers,       *)
(* channels and list entries: the flag of a full scan is never left        *)
(* behind, a full scan no other full scan overlapped has the list to       *)
(* itself, and what was muted is audible in the end.                       *)
(***************************************************************************)
EXTENDS QnShared, SequenceTheorems, TLAPS

-----------------------------------------------------------------------------
(* Where a caller can be: in QND_GetRSSI; the parts of QND_RXSeekCHAll     *)
(* before, inside and after its loop; and what only a full scan reaches.   *)
Listening == {"mode", "muteMode", "setMode", "analog", "listen"}
BeforeLoop == Listening \cup
              {"muteAll", "flag", "update", "decide", "backup", "scan", "restore", "measured", "reset"}
InLoop == {"entry", "muteOne", "search", "seek", "check", "collect", "slot", "count", "loop"}
AfterLoop == {"clear", "unmute", "answer"}
FullOnly == {"muteAll", "flag", "reset", "collect", "slot", "count", "loop", "clear", "unmute"}

Placed(c) ==
    /\ pc[c] \in FullOnly => all[c]
    /\ ~all[c] => ~inside[c] /\ ~alone[c]
    /\ all[c] /\ pc[c] \in InLoop => inside[c]
    /\ pc[c] \in AfterLoop \cup {"muteAll", "flag", "reset", "idle"} => ~inside[c]
    /\ pc[c] = "idle" => ~all[c] /\ own[c] = <<>>

(* It holds a backup of SYSTEM1 from the scan for a clear channel until it *)
(* writes the backup back.                                                 *)
BackedUp(c) ==
    /\ pc[c] \in {"scan", "restore"} => Measuring(c)
    /\ Measuring(c) => pc[c] \in Listening \cup {"scan", "restore"}

(* What it is about to list is a channel.                                  *)
FoundOK(c) == pc[c] = "slot" => temp[c] # 0

(* A scan with no other has nobody beside it.                              *)
Single(c) == alone[c] => \A d \in Callers \ {c} : ~InFullScan(d)

Starting(c) == ~inside[c] /\ pc[c] \in BeforeLoop

(* How far the list may have come where a scan is in its loop: below the   *)
(* channel it is at, or the one it found.                                  *)
Reach(c) ==
    IF pc[c] \in {"check", "tune", "retune", "muteTune", "retuneRX", "unmuteTuned",
                "collect", "slot"}
      THEN IF temp[c] = 0 THEN LastCH + 1 ELSE temp[c]
    ELSE IF pc[c] \in {"count", "loop"}
      THEN IF temp[c] = 0 THEN LastCH + 1 ELSE temp[c] + 1
    ELSE start[c]

(* The list of a scan that has it to itself.                               *)
Listed(c) ==
    alone[c] =>
        /\ Starting(c) => own[c] = <<>>
        /\ ~Starting(c) =>
              /\ ChCount = IF pc[c] = "count" THEN Len(own[c]) - 1 ELSE Len(own[c])
              /\ pc[c] \in {"slot", "count"} => slot[c] = ChCount
              /\ \A i \in 1..Len(own[c]) : i - 1 \in DOMAIN ChList /\ ChList[i - 1] = own[c][i]
              /\ \A i \in 2..Len(own[c]) : own[c][i - 1] < own[c][i]
        /\ inside[c] =>
              /\ \A i \in 1..Len(own[c]) : own[c][i] < Reach(c)
              /\ pc[c] \notin {"count", "loop"} => Len(own[c]) < ChMax
              /\ pc[c] = "count" => temp[c] # 0

IInv ==
    /\ TypeOK
    /\ \A c \in Callers : Placed(c) /\ BackedUp(c) /\ Single(c) /\ FoundOK(c) /\ Listed(c)

-----------------------------------------------------------------------------
(* Types are kept: a channel stored is one found; a mode written is one    *)
(* that was read or backed up.                                             *)
LEMMA TypeStep ==
  ASSUME TypeOK, NEW e \in Callers, FoundOK(e), BackedUp(e),
         (\E full \in BOOLEAN : Call(e, full)) \/ Running(e) \/ UNCHANGED vars
  PROVE  TypeOK'
<1>0. {RX} \in Modes /\ {TX} \in Modes /\ \A m \in Modes : m \cup {RX} \in Modes
  BY DEF Modes
<1> USE BoundAssumption, <1>0 DEF TypeOK, Locations, Flagged, Updates, Channels,
           FoundOK, BackedUp, Measuring, seekVars, accessVars, flagVars,
           chipVars, listVars, callVars, Goto
<1>1. ASSUME NEW full \in BOOLEAN, Call(e, full) PROVE TypeOK'
  <2>1. alone' \in [Callers -> BOOLEAN]
    BY <1>1 DEF Call
  <2>2. pc' \in [Callers -> Locations] /\ all' \in [Callers -> BOOLEAN] /\ calls' \in Nat
    BY <1>1 DEF Call
  <2> QED  BY <1>1, <2>1, <2>2 DEF Call
<1>2. CASE ReadSYSTEM1(e)
  BY <1>2 DEF ReadSYSTEM1, Updates
<1>3. CASE MuteAll(e)
  BY <1>3 DEF MuteAll
<1>4. CASE SetFlag(e)
  BY <1>4 DEF SetFlag
<1>5. CASE Update(e)
  BY <1>5 DEF Update
<1>6. CASE Decide(e)
  BY <1>6 DEF Decide, Measured
<1>7. CASE TestMode(e)
  BY <1>7 DEF TestMode
<1>8. CASE MuteMode(e)
  BY <1>8 DEF MuteMode
<1>9. CASE SetMode(e)
  BY <1>9 DEF SetMode, WriteSYSTEM1
<1>10. CASE SetAnalog(e)
  BY <1>10 DEF SetAnalog, WriteSYSTEM1
<1>11. CASE Listen(e)
  BY <1>11 DEF Listen, WriteSYSTEM1
<1>12. CASE Backup(e)
  BY <1>12 DEF Backup
<1>13. CASE ClearChannelScan(e)
  BY <1>13 DEF ClearChannelScan, WriteSYSTEM1
<1>14. CASE Restore(e)
  BY <1>14 DEF Restore
<1>15. CASE EndFirstScan(e)
  BY <1>15 DEF EndFirstScan, Measured
<1>16. CASE ResetList(e)
  BY <1>16 DEF ResetList
<1>17. CASE EnterSeekCH(e)
  BY <1>17 DEF EnterSeekCH
<1>18. CASE MuteOne(e)
  BY <1>18 DEF MuteOne
<1>19. CASE Search(e)
  <2>1. start' \in [Callers -> Channels]
    <3>1. CASE start[e] < LastCH /\ start' = [start EXCEPT ![e] = @ + 1]
      <4>1. start[e] + 1 \in Channels
        BY <3>1
      <4> QED  BY <3>1, <4>1
    <3>2. CASE UNCHANGED start
      BY <3>2
    <3> QED  BY <1>19, <3>1, <3>2 DEF Search, NextChannel
  <2>2. temp' \in [Callers -> 0..LastCH]
    <3>1. 0 \in 0..LastCH /\ start[e] \in 0..LastCH
      OBVIOUS
    <3>2. temp' = temp \/ temp' = [temp EXCEPT ![e] = 0] \/ temp' = [temp EXCEPT ![e] = start[e]]
      BY <1>19 DEF Search, NextChannel
    <3> QED  BY <3>1, <3>2
  <2>3. pc' \in [Callers -> Locations]
    BY <1>19 DEF Search, NextChannel
  <2>4. read[e] \cup {RX} \in Modes
    BY <1>19 DEF Search, WriteSYSTEM1
  <2> QED  BY <1>19, <2>1, <2>2, <2>3, <2>4 DEF Search, WriteSYSTEM1
<1>20. CASE SeekOne(e)
  <2>1. start' \in [Callers -> Channels]
    <3>1. CASE start[e] < LastCH /\ start' = [start EXCEPT ![e] = @ + 1]
      <4>1. start[e] + 1 \in Channels
        BY <3>1
      <4> QED  BY <3>1, <4>1
    <3>2. CASE UNCHANGED start
      BY <3>2
    <3> QED  BY <1>20, <3>1, <3>2 DEF SeekOne, NextChannel
  <2>2. temp' \in [Callers -> 0..LastCH]
    <3>1. 0 \in 0..LastCH /\ start[e] \in 0..LastCH
      OBVIOUS
    <3>2. temp' = temp \/ temp' = [temp EXCEPT ![e] = 0] \/ temp' = [temp EXCEPT ![e] = start[e]]
      BY <1>20 DEF SeekOne, NextChannel
    <3> QED  BY <3>1, <3>2
  <2>3. pc' \in [Callers -> Locations]
    BY <1>20 DEF SeekOne, NextChannel
  <2>4. read[e] \cup {RX} \in Modes
    BY <1>20 DEF SeekOne, WriteSYSTEM1
  <2> QED  BY <1>20, <2>1, <2>2, <2>3, <2>4 DEF SeekOne, WriteSYSTEM1
<1>21. CASE Check(e)
  BY <1>21 DEF Check
<1>22. CASE TuneToCH(e)
  BY <1>22 DEF TuneToCH
<1>23. CASE Retune(e)
  BY <1>23 DEF Retune, WriteSYSTEM1, Tuned
<1>24. CASE MuteTune(e)
  BY <1>24 DEF MuteTune
<1>25. CASE RetuneRX(e)
  BY <1>25 DEF RetuneRX, WriteSYSTEM1
<1>26. CASE UnmuteTuned(e)
  BY <1>26 DEF UnmuteTuned, Tuned
<1>27. CASE Collect(e)
  BY <1>27 DEF Collect
<1>28. CASE Store(e)
  <2>1. slot[e] \in Nat /\ DOMAIN ChList' \subseteq Nat
    BY <1>28 DEF Store
  <2>2. own' \in [Callers -> Seq(Channels)]
    <3>1. temp[e] \in Channels
      BY <1>28 DEF Store
    <3>2. Append(own[e], temp[e]) \in Seq(Channels)
      BY <3>1, AppendProperties
    <3> QED  BY <1>28, <3>2 DEF Store
  <2> QED  BY <1>28, <2>1, <2>2 DEF Store
<1>29. CASE Count(e)
  BY <1>29 DEF Count
<1>30. CASE Loop(e)
  <2>1. NextStart(e) \in 1..(LastCH + 1)
    BY DEF NextStart
  <2>2. start' \in [Callers -> Channels]
    <3>1. \/ NextStart(e) <= LastCH /\ start' = [start EXCEPT ![e] = NextStart(e)]
          \/ start' = [start EXCEPT ![e] = 1]
      BY <1>30 DEF Loop, LoopFrom
    <3> HIDE DEF TypeOK
    <3>2. start \in [Callers -> Channels] /\ 1 \in Channels
      BY DEF TypeOK
    <3>3. NextStart(e) <= LastCH => NextStart(e) \in Channels
      BY <2>1
    <3> QED  BY <3>1, <3>2, <3>3
  <2>3. pc' \in [Callers -> Locations]
    <3>1. pc' = [pc EXCEPT ![e] = "entry"] \/ pc' = [pc EXCEPT ![e] = "tune"]
      BY <1>30 DEF Loop, LoopFrom
    <3> QED  BY <3>1
  <2>4. inside' \in [Callers -> BOOLEAN]
    BY <1>30 DEF Loop, LoopFrom
  <2>5. temp' \in [Callers -> 0..LastCH]
    <3>1. temp' = [temp EXCEPT ![e] = 0]
      BY <1>30 DEF Loop, LoopFrom
    <3>2. 0 \in 0..LastCH
      OBVIOUS
    <3> QED  BY <3>1, <3>2
  <2> QED  BY <1>30, <2>2, <2>3, <2>4, <2>5 DEF Loop, LoopFrom
<1>31. CASE ClearFlag(e)
  BY <1>31 DEF ClearFlag
<1>32. CASE Unmute(e)
  BY <1>32 DEF Unmute
<1>33. CASE Answer(e)
  BY <1>33 DEF Answer
<1>34. CASE UNCHANGED vars
  BY <1>34 DEF vars
<1> QED
  BY <1>1, <1>2, <1>3, <1>4, <1>5, <1>6, <1>7, <1>8, <1>9, <1>10, <1>11,
     <1>12, <1>13, <1>14, <1>15, <1>16, <1>17, <1>18, <1>19, <1>20, <1>21,
     <1>22, <1>23, <1>24, <1>25, <1>26, <1>27, <1>28, <1>29, <1>30, <1>31,
     <1>32, <1>33, <1>34 DEF Running

(* Every caller stays where its kind of call can be.                       *)
LEMMA PlacedStep ==
  ASSUME TypeOK, NEW e \in Callers, NEW c \in Callers, Placed(c),
         (\E full \in BOOLEAN : Call(e, full)) \/ Running(e) \/ UNCHANGED vars
  PROVE  Placed(c)'
<1> USE DEF TypeOK, Placed, Listening, BeforeLoop, InLoop, AfterLoop, FullOnly, Updates,
           seekVars, accessVars, flagVars,
           chipVars, listVars, callVars, Goto
<1>1. ASSUME NEW full \in BOOLEAN, Call(e, full) PROVE Placed(c)'
  BY <1>1 DEF Call
<1>2. CASE ReadSYSTEM1(e)
  BY <1>2 DEF ReadSYSTEM1, Updates
<1>3. CASE MuteAll(e)
  BY <1>3 DEF MuteAll
<1>4. CASE SetFlag(e)
  BY <1>4 DEF SetFlag
<1>5. CASE Update(e)
  BY <1>5 DEF Update
<1>6. CASE Decide(e)
  BY <1>6 DEF Decide, Measured
<1>7. CASE TestMode(e)
  BY <1>7 DEF TestMode
<1>8. CASE MuteMode(e)
  BY <1>8 DEF MuteMode
<1>9. CASE SetMode(e)
  BY <1>9 DEF SetMode, WriteSYSTEM1
<1>10. CASE SetAnalog(e)
  BY <1>10 DEF SetAnalog, WriteSYSTEM1
<1>11. CASE Listen(e)
  BY <1>11 DEF Listen, WriteSYSTEM1
<1>12. CASE Backup(e)
  BY <1>12 DEF Backup
<1>13. CASE ClearChannelScan(e)
  BY <1>13 DEF ClearChannelScan, WriteSYSTEM1
<1>14. CASE Restore(e)
  BY <1>14 DEF Restore
<1>15. CASE EndFirstScan(e)
  BY <1>15 DEF EndFirstScan, Measured
<1>16. CASE ResetList(e)
  BY <1>16 DEF ResetList
<1>17. CASE EnterSeekCH(e)
  BY <1>17 DEF EnterSeekCH
<1>18. CASE MuteOne(e)
  BY <1>18 DEF MuteOne
<1>19. CASE Search(e)
  BY <1>19 DEF Search, WriteSYSTEM1, NextChannel
<1>20. CASE SeekOne(e)
  BY <1>20 DEF SeekOne, WriteSYSTEM1, NextChannel
<1>21. CASE Check(e)
  BY <1>21 DEF Check
<1>22. CASE TuneToCH(e)
  BY <1>22 DEF TuneToCH
<1>23. CASE Retune(e)
  BY <1>23 DEF Retune, WriteSYSTEM1, Tuned
<1>24. CASE MuteTune(e)
  BY <1>24 DEF MuteTune
<1>25. CASE RetuneRX(e)
  BY <1>25 DEF RetuneRX, WriteSYSTEM1
<1>26. CASE UnmuteTuned(e)
  BY <1>26 DEF UnmuteTuned, Tuned
<1>27. CASE Collect(e)
  BY <1>27 DEF Collect
<1>28. CASE Store(e)
  BY <1>28 DEF Store
<1>29. CASE Count(e)
  BY <1>29 DEF Count
<1>30. CASE Loop(e)
  BY <1>30 DEF Loop, LoopFrom, NextStart
<1>31. CASE ClearFlag(e)
  BY <1>31 DEF ClearFlag
<1>32. CASE Unmute(e)
  BY <1>32 DEF Unmute
<1>33. CASE Answer(e)
  BY <1>33 DEF Answer
<1>34. CASE UNCHANGED vars
  BY <1>34 DEF vars
<1> QED
  BY <1>1, <1>2, <1>3, <1>4, <1>5, <1>6, <1>7, <1>8, <1>9, <1>10, <1>11,
     <1>12, <1>13, <1>14, <1>15, <1>16, <1>17, <1>18, <1>19, <1>20, <1>21,
     <1>22, <1>23, <1>24, <1>25, <1>26, <1>27, <1>28, <1>29, <1>30, <1>31,
     <1>32, <1>33, <1>34 DEF Running

(* Backups are held only while measuring.                                  *)
LEMMA BackedUpStep ==
  ASSUME TypeOK, NEW e \in Callers, NEW c \in Callers, BackedUp(c),
         (\E full \in BOOLEAN : Call(e, full)) \/ Running(e) \/ UNCHANGED vars
  PROVE  BackedUp(c)'
<1> USE DEF TypeOK, BackedUp, Measuring, Listening, Updates, Modes, RX, TX,
           seekVars, accessVars, flagVars,
           chipVars, listVars, callVars, Goto
<1>1. ASSUME NEW full \in BOOLEAN, Call(e, full) PROVE BackedUp(c)'
  BY <1>1 DEF Call
<1>2. CASE ReadSYSTEM1(e)
  BY <1>2 DEF ReadSYSTEM1, Updates
<1>3. CASE MuteAll(e)
  BY <1>3 DEF MuteAll
<1>4. CASE SetFlag(e)
  BY <1>4 DEF SetFlag
<1>5. CASE Update(e)
  BY <1>5 DEF Update
<1>6. CASE Decide(e)
  BY <1>6 DEF Decide, Measured
<1>7. CASE TestMode(e)
  BY <1>7 DEF TestMode
<1>8. CASE MuteMode(e)
  BY <1>8 DEF MuteMode
<1>9. CASE SetMode(e)
  BY <1>9 DEF SetMode, WriteSYSTEM1
<1>10. CASE SetAnalog(e)
  BY <1>10 DEF SetAnalog, WriteSYSTEM1
<1>11. CASE Listen(e)
  BY <1>11 DEF Listen, WriteSYSTEM1
<1>12. CASE Backup(e)
  BY <1>12 DEF Backup
<1>13. CASE ClearChannelScan(e)
  BY <1>13 DEF ClearChannelScan, WriteSYSTEM1
<1>14. CASE Restore(e)
  BY <1>14 DEF Restore
<1>15. CASE EndFirstScan(e)
  BY <1>15 DEF EndFirstScan, Measured
<1>16. CASE ResetList(e)
  BY <1>16 DEF ResetList
<1>17. CASE EnterSeekCH(e)
  BY <1>17 DEF EnterSeekCH
<1>18. CASE MuteOne(e)
  BY <1>18 DEF MuteOne
<1>19. CASE Search(e)
  BY <1>19 DEF Search, WriteSYSTEM1, NextChannel
<1>20. CASE SeekOne(e)
  BY <1>20 DEF SeekOne, WriteSYSTEM1, NextChannel
<1>21. CASE Check(e)
  BY <1>21 DEF Check
<1>22. CASE TuneToCH(e)
  BY <1>22 DEF TuneToCH
<1>23. CASE Retune(e)
  BY <1>23 DEF Retune, WriteSYSTEM1, Tuned
<1>24. CASE MuteTune(e)
  BY <1>24 DEF MuteTune
<1>25. CASE RetuneRX(e)
  BY <1>25 DEF RetuneRX, WriteSYSTEM1
<1>26. CASE UnmuteTuned(e)
  BY <1>26 DEF UnmuteTuned, Tuned
<1>27. CASE Collect(e)
  BY <1>27 DEF Collect
<1>28. CASE Store(e)
  BY <1>28 DEF Store
<1>29. CASE Count(e)
  BY <1>29 DEF Count
<1>30. CASE Loop(e)
  BY <1>30 DEF Loop, LoopFrom, NextStart
<1>31. CASE ClearFlag(e)
  BY <1>31 DEF ClearFlag
<1>32. CASE Unmute(e)
  BY <1>32 DEF Unmute
<1>33. CASE Answer(e)
  BY <1>33 DEF Answer
<1>34. CASE UNCHANGED vars
  BY <1>34 DEF vars
<1> QED
  BY <1>1, <1>2, <1>3, <1>4, <1>5, <1>6, <1>7, <1>8, <1>9, <1>10, <1>11,
     <1>12, <1>13, <1>14, <1>15, <1>16, <1>17, <1>18, <1>19, <1>20, <1>21,
     <1>22, <1>23, <1>24, <1>25, <1>26, <1>27, <1>28, <1>29, <1>30, <1>31,
     <1>32, <1>33, <1>34 DEF Running

(* A scan that is about to list a channel has one.                         *)
LEMMA FoundStep ==
  ASSUME TypeOK, NEW e \in Callers, NEW c \in Callers, FoundOK(c),
         (\E full \in BOOLEAN : Call(e, full)) \/ Running(e) \/ UNCHANGED vars
  PROVE  FoundOK(c)'
<1> USE DEF TypeOK, FoundOK, seekVars, accessVars, flagVars,
           chipVars, listVars, callVars, Goto
<1>1. ASSUME NEW full \in BOOLEAN, Call(e, full) PROVE FoundOK(c)'
  BY <1>1 DEF Call
<1>2. CASE ReadSYSTEM1(e)
  BY <1>2 DEF ReadSYSTEM1, Updates
<1>3. CASE MuteAll(e)
  BY <1>3 DEF MuteAll
<1>4. CASE SetFlag(e)
  BY <1>4 DEF SetFlag
<1>5. CASE Update(e)
  BY <1>5 DEF Update
<1>6. CASE Decide(e)
  BY <1>6 DEF Decide, Measured
<1>7. CASE TestMode(e)
  BY <1>7 DEF TestMode
<1>8. CASE MuteMode(e)
  BY <1>8 DEF MuteMode
<1>9. CASE SetMode(e)
  BY <1>9 DEF SetMode, WriteSYSTEM1
<1>10. CASE SetAnalog(e)
  BY <1>10 DEF SetAnalog, WriteSYSTEM1
<1>11. CASE Listen(e)
  BY <1>11 DEF Listen, WriteSYSTEM1
<1>12. CASE Backup(e)
  BY <1>12 DEF Backup
<1>13. CASE ClearChannelScan(e)
  BY <1>13 DEF ClearChannelScan, WriteSYSTEM1
<1>14. CASE Restore(e)
  BY <1>14 DEF Restore
<1>15. CASE EndFirstScan(e)
  BY <1>15 DEF EndFirstScan, Measured
<1>16. CASE ResetList(e)
  BY <1>16 DEF ResetList
<1>17. CASE EnterSeekCH(e)
  BY <1>17 DEF EnterSeekCH
<1>18. CASE MuteOne(e)
  BY <1>18 DEF MuteOne
<1>19. CASE Search(e)
  BY <1>19 DEF Search, WriteSYSTEM1, NextChannel
<1>20. CASE SeekOne(e)
  BY <1>20 DEF SeekOne, WriteSYSTEM1, NextChannel
<1>21. CASE Check(e)
  BY <1>21 DEF Check
<1>22. CASE TuneToCH(e)
  BY <1>22 DEF TuneToCH
<1>23. CASE Retune(e)
  BY <1>23 DEF Retune, WriteSYSTEM1, Tuned
<1>24. CASE MuteTune(e)
  BY <1>24 DEF MuteTune
<1>25. CASE RetuneRX(e)
  BY <1>25 DEF RetuneRX, WriteSYSTEM1
<1>26. CASE UnmuteTuned(e)
  BY <1>26 DEF UnmuteTuned, Tuned
<1>27. CASE Collect(e)
  BY <1>27 DEF Collect
<1>28. CASE Store(e)
  BY <1>28 DEF Store
<1>29. CASE Count(e)
  BY <1>29 DEF Count
<1>30. CASE Loop(e)
  BY <1>30 DEF Loop, LoopFrom, NextStart
<1>31. CASE ClearFlag(e)
  BY <1>31 DEF ClearFlag
<1>32. CASE Unmute(e)
  BY <1>32 DEF Unmute
<1>33. CASE Answer(e)
  BY <1>33 DEF Answer
<1>34. CASE UNCHANGED vars
  BY <1>34 DEF vars
<1> QED
  BY <1>1, <1>2, <1>3, <1>4, <1>5, <1>6, <1>7, <1>8, <1>9, <1>10, <1>11,
     <1>12, <1>13, <1>14, <1>15, <1>16, <1>17, <1>18, <1>19, <1>20, <1>21,
     <1>22, <1>23, <1>24, <1>25, <1>26, <1>27, <1>28, <1>29, <1>30, <1>31,
     <1>32, <1>33, <1>34 DEF Running

(* Nobody joins a scan that keeps the list to itself.                      *)
LEMMA SingleStep ==
  ASSUME TypeOK, NEW e \in Callers, NEW c \in Callers, Single(c),
         \A d \in Callers : Placed(d),
         (\E full \in BOOLEAN : Call(e, full)) \/ Running(e) \/ UNCHANGED vars
  PROVE  Single(c)'
<1> USE DEF TypeOK, Placed, Single, InFullScan, Updates, seekVars, accessVars, flagVars,
           chipVars, listVars, callVars, Goto
<1>1. ASSUME NEW full \in BOOLEAN, Call(e, full) PROVE Single(c)'
  BY <1>1 DEF Call
<1>2. CASE ReadSYSTEM1(e)
  BY <1>2 DEF ReadSYSTEM1, Updates
<1>3. CASE MuteAll(e)
  BY <1>3 DEF MuteAll
<1>4. CASE SetFlag(e)
  BY <1>4 DEF SetFlag
<1>5. CASE Update(e)
  BY <1>5 DEF Update
<1>6. CASE Decide(e)
  BY <1>6 DEF Decide, Measured
<1>7. CASE TestMode(e)
  BY <1>7 DEF TestMode
<1>8. CASE MuteMode(e)
  BY <1>8 DEF MuteMode
<1>9. CASE SetMode(e)
  BY <1>9 DEF SetMode, WriteSYSTEM1
<1>10. CASE SetAnalog(e)
  BY <1>10 DEF SetAnalog, WriteSYSTEM1
<1>11. CASE Listen(e)
  BY <1>11 DEF Listen, WriteSYSTEM1
<1>12. CASE Backup(e)
  BY <1>12 DEF Backup
<1>13. CASE ClearChannelScan(e)
  BY <1>13 DEF ClearChannelScan, WriteSYSTEM1
<1>14. CASE Restore(e)
  BY <1>14 DEF Restore
<1>15. CASE EndFirstScan(e)
  BY <1>15 DEF EndFirstScan, Measured
<1>16. CASE ResetList(e)
  BY <1>16 DEF ResetList
<1>17. CASE EnterSeekCH(e)
  BY <1>17 DEF EnterSeekCH
<1>18. CASE MuteOne(e)
  BY <1>18 DEF MuteOne
<1>19. CASE Search(e)
  BY <1>19 DEF Search, WriteSYSTEM1, NextChannel
<1>20. CASE SeekOne(e)
  BY <1>20 DEF SeekOne, WriteSYSTEM1, NextChannel
<1>21. CASE Check(e)
  BY <1>21 DEF Check
<1>22. CASE TuneToCH(e)
  BY <1>22 DEF TuneToCH
<1>23. CASE Retune(e)
  BY <1>23 DEF Retune, WriteSYSTEM1, Tuned
<1>24. CASE MuteTune(e)
  BY <1>24 DEF MuteTune
<1>25. CASE RetuneRX(e)
  BY <1>25 DEF RetuneRX, WriteSYSTEM1
<1>26. CASE UnmuteTuned(e)
  BY <1>26 DEF UnmuteTuned, Tuned
<1>27. CASE Collect(e)
  BY <1>27 DEF Collect
<1>28. CASE Store(e)
  BY <1>28 DEF Store
<1>29. CASE Count(e)
  BY <1>29 DEF Count
<1>30. CASE Loop(e)
  BY <1>30 DEF Loop, LoopFrom, NextStart
<1>31. CASE ClearFlag(e)
  BY <1>31 DEF ClearFlag
<1>32. CASE Unmute(e)
  BY <1>32 DEF Unmute
<1>33. CASE Answer(e)
  BY <1>33 DEF Answer
<1>34. CASE UNCHANGED vars
  BY <1>34 DEF vars
<1> QED
  BY <1>1, <1>2, <1>3, <1>4, <1>5, <1>6, <1>7, <1>8, <1>9, <1>10, <1>11,
     <1>12, <1>13, <1>14, <1>15, <1>16, <1>17, <1>18, <1>19, <1>20, <1>21,
     <1>22, <1>23, <1>24, <1>25, <1>26, <1>27, <1>28, <1>29, <1>30, <1>31,
     <1>32, <1>33, <1>34 DEF Running

(* What a caller does leaves the locals of the others alone, and the list *)
(* of a scan that has it to itself.                                        *)
LEMMA OthersKeep ==
  ASSUME TypeOK, NEW e \in Callers, NEW c \in Callers \ {e}, Single(c), Placed(e),
         (\E full \in BOOLEAN : Call(e, full)) \/ Running(e) \/ UNCHANGED vars
  PROVE  (alone[c]' => alone[c]) /\ (alone[c] => UNCHANGED listVars)
         /\ UNCHANGED <<pc[c], inside[c], start[c], temp[c], slot[c], own[c]>>
<1> USE DEF TypeOK, Placed, FullOnly, Single, InFullScan, Updates, seekVars, accessVars, flagVars,
           chipVars, listVars, callVars, Goto
<1>1. ASSUME NEW full \in BOOLEAN, Call(e, full) PROVE (alone[c]' => alone[c]) /\ (alone[c] => UNCHANGED listVars)
         /\ UNCHANGED <<pc[c], inside[c], start[c], temp[c], slot[c], own[c]>>
  BY <1>1 DEF Call
<1>2. CASE ReadSYSTEM1(e)
  BY <1>2 DEF ReadSYSTEM1, Updates
<1>3. CASE MuteAll(e)
  BY <1>3 DEF MuteAll
<1>4. CASE SetFlag(e)
  BY <1>4 DEF SetFlag
<1>5. CASE Update(e)
  BY <1>5 DEF Update
<1>6. CASE Decide(e)
  BY <1>6 DEF Decide, Measured
<1>7. CASE TestMode(e)
  BY <1>7 DEF TestMode
<1>8. CASE MuteMode(e)
  BY <1>8 DEF MuteMode
<1>9. CASE SetMode(e)
  BY <1>9 DEF SetMode, WriteSYSTEM1
<1>10. CASE SetAnalog(e)
  BY <1>10 DEF SetAnalog, WriteSYSTEM1
<1>11. CASE Listen(e)
  BY <1>11 DEF Listen, WriteSYSTEM1
<1>12. CASE Backup(e)
  BY <1>12 DEF Backup
<1>13. CASE ClearChannelScan(e)
  BY <1>13 DEF ClearChannelScan, WriteSYSTEM1
<1>14. CASE Restore(e)
  BY <1>14 DEF Restore
<1>15. CASE EndFirstScan(e)
  BY <1>15 DEF EndFirstScan, Measured
<1>16. CASE ResetList(e)
  BY <1>16 DEF ResetList
<1>17. CASE EnterSeekCH(e)
  BY <1>17 DEF EnterSeekCH
<1>18. CASE MuteOne(e)
  BY <1>18 DEF MuteOne
<1>19. CASE Search(e)
  BY <1>19 DEF Search, WriteSYSTEM1, NextChannel
<1>20. CASE SeekOne(e)
  BY <1>20 DEF SeekOne, WriteSYSTEM1, NextChannel
<1>21. CASE Check(e)
  BY <1>21 DEF Check
<1>22. CASE TuneToCH(e)
  BY <1>22 DEF TuneToCH
<1>23. CASE Retune(e)
  BY <1>23 DEF Retune, WriteSYSTEM1, Tuned
<1>24. CASE MuteTune(e)
  BY <1>24 DEF MuteTune
<1>25. CASE RetuneRX(e)
  BY <1>25 DEF RetuneRX, WriteSYSTEM1
<1>26. CASE UnmuteTuned(e)
  BY <1>26 DEF UnmuteTuned, Tuned
<1>27. CASE Collect(e)
  BY <1>27 DEF Collect
<1>28. CASE Store(e)
  BY <1>28 DEF Store
<1>29. CASE Count(e)
  BY <1>29 DEF Count
<1>30. CASE Loop(e)
  BY <1>30 DEF Loop, LoopFrom, NextStart
<1>31. CASE ClearFlag(e)
  BY <1>31 DEF ClearFlag
<1>32. CASE Unmute(e)
  BY <1>32 DEF Unmute
<1>33. CASE Answer(e)
  BY <1>33 DEF Answer
<1>34. CASE UNCHANGED vars
  BY <1>34 DEF vars
<1> QED
  BY <1>1, <1>2, <1>3, <1>4, <1>5, <1>6, <1>7, <1>8, <1>9, <1>10, <1>11,
     <1>12, <1>13, <1>14, <1>15, <1>16, <1>17, <1>18, <1>19, <1>20, <1>21,
     <1>22, <1>23, <1>24, <1>25, <1>26, <1>27, <1>28, <1>29, <1>30, <1>31,
     <1>32, <1>33, <1>34 DEF Running

(* A scan that has the list to itself keeps it.                            *)
LEMMA OwnStep ==
  ASSUME TypeOK, NEW e \in Callers, Placed(e), FoundOK(e), Listed(e),
         (\E full \in BOOLEAN : Call(e, full)) \/ Running(e) \/ UNCHANGED vars
  PROVE  Listed(e)'
<1> USE BoundAssumption DEF TypeOK, Placed, Listening, BeforeLoop, InLoop, AfterLoop, FullOnly,
           Starting, Updates, seekVars, accessVars, flagVars,
           chipVars, listVars, callVars, Goto
<1>1. ASSUME NEW full \in BOOLEAN, Call(e, full) PROVE Listed(e)'
  BY <1>1 DEF Call, Listed, Reach
<1>2. CASE ReadSYSTEM1(e)
  BY <1>2 DEF ReadSYSTEM1, Updates, Listed, Reach
<1>3. CASE MuteAll(e)
  BY <1>3 DEF MuteAll, Listed, Reach
<1>4. CASE SetFlag(e)
  BY <1>4 DEF SetFlag, Listed, Reach
<1>5. CASE Update(e)
  BY <1>5 DEF Update, Listed, Reach
<1>6. CASE Decide(e)
  BY <1>6 DEF Decide, Measured, Listed, Reach
<1>7. CASE TestMode(e)
  BY <1>7 DEF TestMode, Listed, Reach
<1>8. CASE MuteMode(e)
  BY <1>8 DEF MuteMode, Listed, Reach
<1>9. CASE SetMode(e)
  BY <1>9 DEF SetMode, WriteSYSTEM1, Listed, Reach
<1>10. CASE SetAnalog(e)
  BY <1>10 DEF SetAnalog, WriteSYSTEM1, Listed, Reach
<1>11. CASE Listen(e)
  BY <1>11 DEF Listen, WriteSYSTEM1, Listed, Reach
<1>12. CASE Backup(e)
  BY <1>12 DEF Backup, Listed, Reach
<1>13. CASE ClearChannelScan(e)
  BY <1>13 DEF ClearChannelScan, WriteSYSTEM1, Listed, Reach
<1>14. CASE Restore(e)
  BY <1>14 DEF Restore, Listed, Reach
<1>15. CASE EndFirstScan(e)
  BY <1>15 DEF EndFirstScan, Measured, Listed, Reach
<1>16. CASE ResetList(e)
  BY <1>16 DEF ResetList, Listed, Reach
<1>17. CASE EnterSeekCH(e)
  BY <1>17 DEF EnterSeekCH, Listed, Reach
<1>18. CASE MuteOne(e)
  BY <1>18 DEF MuteOne, Listed, Reach
<1>19. CASE Search(e)
  <2> SUFFICES ASSUME alone[e] PROVE Listed(e)'
    BY <1>19 DEF Search, WriteSYSTEM1, Listed
  <2>1. inside[e] /\ inside'[e] /\ own[e] \in Seq(Channels) /\ Reach(e) = start[e]
    BY <1>19 DEF Search, Reach
  <2>2. Reach(e)' \in {start[e], start[e] + 1}
    <3>1. CASE temp'[e] = start[e] /\ pc'[e] = "check"
      BY <3>1, <1>19 DEF Reach, Channels
    <3>2. CASE start'[e] = start[e] + 1 /\ pc'[e] = "search"
      BY <3>2 DEF Reach
    <3>3. CASE start[e] = LastCH /\ temp'[e] = 0 /\ pc'[e] = "check"
      BY <3>3 DEF Reach
    <3>4. CASE start'[e] = start[e] /\ pc'[e] = "seek"
      BY <3>4 DEF Reach
    <3> QED  BY <1>19, <3>1, <3>2, <3>3, <3>4 DEF Search, NextChannel
  <2>3. \A i \in 1..Len(own[e]) : own[e][i] \in Channels /\ own[e][i] < start[e]
    BY <2>1, <1>19 DEF Search, Listed
  <2>4. \A i \in 1..Len(own'[e]) : own'[e][i] < Reach(e)'
    <3>1. own'[e] = own[e] /\ start[e] \in Channels
      BY <1>19 DEF Search
    <3> HIDE DEF TypeOK, Placed, Starting
    <3> QED  BY <2>2, <2>3, <3>1 DEF Channels
  <2>5. pc'[e] \in {"search", "seek", "check"}
    BY <1>19 DEF Search, NextChannel
  <2> QED  BY <2>1, <2>4, <2>5, <1>19 DEF Search, WriteSYSTEM1, Listed
<1>20. CASE SeekOne(e)
  <2> SUFFICES ASSUME alone[e] PROVE Listed(e)'
    BY <1>20 DEF SeekOne, WriteSYSTEM1, Listed
  <2>1. inside[e] /\ inside'[e] /\ own[e] \in Seq(Channels) /\ Reach(e) = start[e]
    BY <1>20 DEF SeekOne, Reach
  <2>2. Reach(e)' \in {start[e], start[e] + 1}
    <3>1. CASE temp'[e] = start[e] /\ pc'[e] = "check"
      BY <3>1, <1>20 DEF Reach, Channels
    <3>2. CASE start'[e] = start[e] + 1 /\ pc'[e] = "search"
      BY <3>2 DEF Reach
    <3>3. CASE start[e] = LastCH /\ temp'[e] = 0 /\ pc'[e] = "check"
      BY <3>3 DEF Reach
    <3>4. CASE start'[e] = start[e] /\ pc'[e] = "seek"
      BY <3>4 DEF Reach
    <3> QED  BY <1>20, <3>1, <3>2, <3>3, <3>4 DEF SeekOne, NextChannel
  <2>3. \A i \in 1..Len(own[e]) : own[e][i] \in Channels /\ own[e][i] < start[e]
    BY <2>1, <1>20 DEF SeekOne, Listed
  <2>4. \A i \in 1..Len(own'[e]) : own'[e][i] < Reach(e)'
    <3>1. own'[e] = own[e] /\ start[e] \in Channels
      BY <1>20 DEF SeekOne
    <3> HIDE DEF TypeOK, Placed, Starting
    <3> QED  BY <2>2, <2>3, <3>1 DEF Channels
  <2>5. pc'[e] \in {"search", "seek", "check"}
    BY <1>20 DEF SeekOne, NextChannel
  <2> QED  BY <2>1, <2>4, <2>5, <1>20 DEF SeekOne, WriteSYSTEM1, Listed
<1>21. CASE Check(e)
  BY <1>21 DEF Check, Listed, Reach
<1>22. CASE TuneToCH(e)
  BY <1>22 DEF TuneToCH, Listed, Reach
<1>23. CASE Retune(e)
  BY <1>23 DEF Retune, WriteSYSTEM1, Tuned, Listed, Reach
<1>24. CASE MuteTune(e)
  BY <1>24 DEF MuteTune, Listed, Reach
<1>25. CASE RetuneRX(e)
  BY <1>25 DEF RetuneRX, WriteSYSTEM1, Listed, Reach
<1>26. CASE UnmuteTuned(e)
  BY <1>26 DEF UnmuteTuned, Tuned, Listed, Reach
<1>27. CASE Collect(e)
  BY <1>27 DEF Collect, Listed, Reach
<1>28. CASE Store(e)
  <2> SUFFICES ASSUME alone[e] PROVE Listed(e)'
    BY <1>28 DEF Store, Listed
  <2>1. inside[e] /\ slot[e] = Len(own[e]) /\ own[e] \in Seq(Channels) /\ temp[e] \in Channels
    BY <1>28 DEF Store, Listed, FoundOK, Channels
  <2>2. /\ own'[e] = Append(own[e], temp[e])
        /\ Len(own'[e]) = Len(own[e]) + 1
        /\ \A i \in 1..Len(own[e]) : own'[e][i] = own[e][i]
        /\ own'[e][Len(own[e]) + 1] = temp[e]
    BY <2>1, <1>28, AppendProperties DEF Store
  <2>3. \A i \in 1..Len(own[e]) : own[e][i] < temp[e]
    <3>1. Reach(e) = temp[e]
      BY <2>1, <1>28 DEF Store, Reach, Channels
    <3> QED  BY <2>1, <3>1 DEF Listed
  <2>4. ASSUME NEW i \in 1..Len(own'[e])
        PROVE  i - 1 \in DOMAIN ChList' /\ ChList'[i - 1] = own'[e][i]
    <3>1. /\ DOMAIN ChList' = DOMAIN ChList \cup {slot[e]}
          /\ \A k \in DOMAIN ChList' : ChList'[k] = IF k = slot[e] THEN temp[e] ELSE ChList[k]
      BY <1>28 DEF Store
    <3>2. CASE i = Len(own[e]) + 1
      BY <2>1, <2>2, <3>1, <3>2
    <3>3. CASE i \in 1..Len(own[e])
      <4>1. i - 1 \in DOMAIN ChList /\ ChList[i - 1] = own[e][i]
        BY <3>3, <1>28 DEF Store, Listed
      <4> QED  BY <2>1, <2>2, <3>1, <3>3, <4>1
    <3> QED  BY <2>1, <2>2, <3>2, <3>3
  <2>5. \A i \in 2..Len(own'[e]) : own'[e][i - 1] < own'[e][i]
    BY <2>1, <2>2, <2>3, <1>28 DEF Store, Listed
  <2>6. \A i \in 1..Len(own'[e]) : own'[e][i] < temp[e] + 1
    <3> HIDE DEF TypeOK, Placed, Starting
    <3> QED  BY <2>1, <2>2, <2>3 DEF Channels
  <2>7. /\ pc'[e] = "count" /\ inside'[e] /\ temp'[e] = temp[e] /\ slot'[e] = ChCount'
        /\ ChCount' = Len(own'[e]) - 1
    BY <2>1, <2>2, <1>28 DEF Store, Listed
  <2>8. Reach(e)' = temp[e] + 1
    BY <2>1, <2>7 DEF Reach, Channels
  <2>9. ~Starting(e)' /\ temp'[e] # 0
    BY <2>1, <2>7 DEF Channels
  <2> HIDE DEF Starting, TypeOK, Placed
  <2> QED  BY <2>4, <2>5, <2>6, <2>7, <2>8, <2>9 DEF Listed
<1>29. CASE Count(e)
  BY <1>29 DEF Count, Listed, Reach
<1>30. CASE Loop(e)
  BY <1>30 DEF Loop, LoopFrom, NextStart, Listed, Reach
<1>31. CASE ClearFlag(e)
  BY <1>31 DEF ClearFlag, Listed, Reach
<1>32. CASE Unmute(e)
  BY <1>32 DEF Unmute, Listed, Reach
<1>33. CASE Answer(e)
  BY <1>33 DEF Answer, Listed, Reach
<1>34. CASE UNCHANGED vars
  BY <1>34 DEF vars, Listed, Reach
<1> QED
  BY <1>1, <1>2, <1>3, <1>4, <1>5, <1>6, <1>7, <1>8, <1>9, <1>10, <1>11,
     <1>12, <1>13, <1>14, <1>15, <1>16, <1>17, <1>18, <1>19, <1>20, <1>21,
     <1>22, <1>23, <1>24, <1>25, <1>26, <1>27, <1>28, <1>29, <1>30, <1>31,
     <1>32, <1>33, <1>34 DEF Running

(* The invariant: Init, and every step of any caller.                      *)
LEMMA InitIInv == Init => IInv
  <1> SUFFICES ASSUME Init PROVE IInv
    OBVIOUS
  <1>1. TypeOK
    <2>1. 1 \in Channels /\ 0 \in 0..LastCH /\ <<>> \in Seq(Channels) /\ DOMAIN <<>> \subseteq Nat
      BY BoundAssumption DEF Channels
    <2>2. DOMAIN ChList \subseteq Nat /\ own \in [Callers -> Seq(Channels)]
      BY <2>1 DEF Init
    <2> QED  BY <2>1, <2>2 DEF Init, TypeOK, Locations, Modes, RX, TX
  <1>2. \A c \in Callers : Placed(c) /\ BackedUp(c) /\ Single(c) /\ FoundOK(c) /\ Listed(c)
    BY DEF Init, Placed, BackedUp, Single, FoundOK, Listed, FullOnly, InLoop, AfterLoop, Measuring
  <1> QED  BY <1>1, <1>2 DEF IInv

LEMMA StepIInv == IInv /\ [Next]_vars => IInv'
  <1> SUFFICES ASSUME IInv, NEW e \in Callers,
                      (\E full \in BOOLEAN : Call(e, full)) \/ Running(e) \/ UNCHANGED vars
               PROVE  IInv'
    <2>1. CASE Callers = {}
      <3>1. ~Next
        BY <2>1 DEF Next
      <3>2. [Next]_vars => UNCHANGED vars
        BY <3>1
      <3>3. UNCHANGED vars /\ TypeOK => TypeOK'
        BY <2>1 DEF vars, TypeOK, seekVars, accessVars, flagVars, chipVars, listVars, callVars
      <3> QED  BY <2>1, <3>2, <3>3 DEF IInv
    <2> QED  BY <2>1 DEF Next
  <1>1. TypeOK'
    BY TypeStep DEF IInv
  <1> SUFFICES ASSUME NEW c \in Callers
               PROVE  Placed(c)' /\ BackedUp(c)' /\ Single(c)' /\ FoundOK(c)' /\ Listed(c)'
    BY <1>1 DEF IInv
  <1>2. Placed(c)'
    BY PlacedStep DEF IInv
  <1>3. Single(c)'
    BY SingleStep DEF IInv
  <1>4. FoundOK(c)'
    BY FoundStep DEF IInv
  <1>5. Listed(c)'
    <2>1. CASE c = e
      BY <2>1, OwnStep DEF IInv
    <2>2. CASE c # e
      <3>1. /\ (alone[c]' => alone[c]) /\ (alone[c] => UNCHANGED listVars)
            /\ UNCHANGED <<pc[c], inside[c], start[c], temp[c], slot[c], own[c]>>
        BY <2>2, OthersKeep DEF IInv
      <3> QED  BY <3>1 DEF IInv, Listed, Starting, Reach, listVars
    <2> QED  BY <2>1, <2>2
  <1>6. BackedUp(c)'
    BY BackedUpStep DEF IInv
  <1> QED  BY <1>2, <1>3, <1>4, <1>5, <1>6

(* The invariant holds, and with it the types.                             *)
THEOREM Invariance == Spec => []IInv
  <1> QED  BY InitIInv, StepIInv, PTL DEF Spec

(* A full scan that no other full scan overlapped returns the number of    *)
(* channels it found and leaves exactly these in qnd_ChList, in order and  *)
(* within the capacity of the list, whatever single seeks do meanwhile.    *)
THEOREM ListIsOwn == Spec => []OwnListWhenAlone
  <1>1. IInv => OwnListWhenAlone
    <2> SUFFICES ASSUME IInv, NEW c \in Callers, all[c], alone[c]
                 PROVE  /\ pc[c] = "answer" =>
                             /\ ChCount = Len(own[c])
                             /\ \A i \in 1..Len(own[c]) : ChList[i - 1] = own[c][i]
                             /\ \A i \in 2..Len(own[c]) : own[c][i - 1] < own[c][i]
                        /\ pc[c] = "slot" => slot[c] < ChMax
      BY DEF OwnListWhenAlone
    <2>1. CASE pc[c] = "answer"
      BY <2>1 DEF IInv, Listed, Starting, BeforeLoop, Listening
    <2>2. CASE pc[c] = "slot"
      <3>1. inside[c] /\ ~Starting(c)
        BY <2>2 DEF IInv, Placed, InLoop, Starting
      <3>2. slot[c] = Len(own[c]) /\ Len(own[c]) < ChMax
        BY <2>2, <3>1 DEF IInv, Listed
      <3> QED  BY <2>2, <3>2
    <2> QED  BY <2>1, <2>2
  <1> QED  BY <1>1, Invariance, PTL

-----------------------------------------------------------------------------
(* The flag is only ever set on behalf of a full scan that will clear it.  *)
LEMMA FlagStep ==
  ASSUME TypeOK, NEW e \in Callers, \A d \in Callers : Placed(d), FlagOfAScan,
         (\E full \in BOOLEAN : Call(e, full)) \/ Running(e) \/ UNCHANGED vars
  PROVE  FlagOfAScan'
<1> USE DEF TypeOK, FlagOfAScan, Flagged, Updates, Placed, FullOnly, seekVars, accessVars, flagVars,
           chipVars, listVars, callVars, Goto
<1>1. ASSUME NEW full \in BOOLEAN, Call(e, full) PROVE FlagOfAScan'
  BY <1>1 DEF Call
<1>2. CASE ReadSYSTEM1(e)
  BY <1>2 DEF ReadSYSTEM1, Updates
<1>3. CASE MuteAll(e)
  BY <1>3 DEF MuteAll
<1>4. CASE SetFlag(e)
  BY <1>4 DEF SetFlag
<1>5. CASE Update(e)
  BY <1>5 DEF Update
<1>6. CASE Decide(e)
  BY <1>6 DEF Decide, Measured
<1>7. CASE TestMode(e)
  BY <1>7 DEF TestMode
<1>8. CASE MuteMode(e)
  BY <1>8 DEF MuteMode
<1>9. CASE SetMode(e)
  BY <1>9 DEF SetMode, WriteSYSTEM1
<1>10. CASE SetAnalog(e)
  BY <1>10 DEF SetAnalog, WriteSYSTEM1
<1>11. CASE Listen(e)
  BY <1>11 DEF Listen, WriteSYSTEM1
<1>12. CASE Backup(e)
  BY <1>12 DEF Backup
<1>13. CASE ClearChannelScan(e)
  BY <1>13 DEF ClearChannelScan, WriteSYSTEM1
<1>14. CASE Restore(e)
  BY <1>14 DEF Restore
<1>15. CASE EndFirstScan(e)
  BY <1>15 DEF EndFirstScan, Measured
<1>16. CASE ResetList(e)
  BY <1>16 DEF ResetList
<1>17. CASE EnterSeekCH(e)
  BY <1>17 DEF EnterSeekCH
<1>18. CASE MuteOne(e)
  BY <1>18 DEF MuteOne
<1>19. CASE Search(e)
  BY <1>19 DEF Search, WriteSYSTEM1, NextChannel
<1>20. CASE SeekOne(e)
  BY <1>20 DEF SeekOne, WriteSYSTEM1, NextChannel
<1>21. CASE Check(e)
  BY <1>21 DEF Check
<1>22. CASE TuneToCH(e)
  BY <1>22 DEF TuneToCH
<1>23. CASE Retune(e)
  BY <1>23 DEF Retune, WriteSYSTEM1, Tuned
<1>24. CASE MuteTune(e)
  BY <1>24 DEF MuteTune
<1>25. CASE RetuneRX(e)
  BY <1>25 DEF RetuneRX, WriteSYSTEM1
<1>26. CASE UnmuteTuned(e)
  BY <1>26 DEF UnmuteTuned, Tuned
<1>27. CASE Collect(e)
  BY <1>27 DEF Collect
<1>28. CASE Store(e)
  BY <1>28 DEF Store
<1>29. CASE Count(e)
  BY <1>29 DEF Count
<1>30. CASE Loop(e)
  BY <1>30 DEF Loop, LoopFrom, NextStart
<1>31. CASE ClearFlag(e)
  BY <1>31 DEF ClearFlag
<1>32. CASE Unmute(e)
  BY <1>32 DEF Unmute
<1>33. CASE Answer(e)
  BY <1>33 DEF Answer
<1>34. CASE UNCHANGED vars
  BY <1>34 DEF vars
<1> QED
  BY <1>1, <1>2, <1>3, <1>4, <1>5, <1>6, <1>7, <1>8, <1>9, <1>10, <1>11,
     <1>12, <1>13, <1>14, <1>15, <1>16, <1>17, <1>18, <1>19, <1>20, <1>21,
     <1>22, <1>23, <1>24, <1>25, <1>26, <1>27, <1>28, <1>29, <1>30, <1>31,
     <1>32, <1>33, <1>34 DEF Running

(* qnd_AutoScanAll is only set while a full scan runs that will clear it.  *)
THEOREM FlagIsOwned == Spec => []FlagOfAScan
  <1>1. Init => FlagOfAScan
    BY DEF Init, FlagOfAScan
  <1>2. IInv /\ FlagOfAScan /\ [Next]_vars => FlagOfAScan'
    <2> SUFFICES ASSUME IInv, FlagOfAScan, [Next]_vars PROVE FlagOfAScan'
      OBVIOUS
    <2>1. CASE UNCHANGED vars
      BY <2>1 DEF vars, callVars, flagVars, FlagOfAScan
    <2>2. CASE Next
      <3>1. PICK e \in Callers : (\E full \in BOOLEAN : Call(e, full)) \/ Running(e)
        BY <2>2 DEF Next
      <3> QED  BY <3>1, FlagStep DEF IInv
    <2> QED  BY <2>1, <2>2
  <1> QED  BY <1>1, <1>2, Invariance, PTL DEF Spec

-----------------------------------------------------------------------------
(* As long as no two measurements overlapped and no lost update brought    *)
(* TXREQ back, the only measurement there is works on a receiver: it finds *)
(* one, saves one and writes one back, and lets the chip transmit only     *)
(* from its scan for a clear channel until it has set the mode to listen.  *)
Transmitting(c) == Measuring(c) /\ pc[c] \in {"mode", "muteMode", "setMode"}

ModeInv == ~disturbed =>
    /\ \A c, d \in Callers : Measuring(c) /\ Measuring(d) => c = d
    /\ \A c \in Callers : Measuring(c) => saved[c] = {RX}
    /\ (\A c \in Callers : ~Transmitting(c)) => SYSTEM1 = {RX}

(* Whoever muted the output, some call has yet to unmute it: neither one   *)
(* about to return, nor a single seek that has found a transmitter.        *)
WillUnmute(c) == pc[c] \notin {"idle", "answer"} /\ (pc[c] = "retune" => all[c])

MuteInv == ~disturbed /\ muted => \E c \in Callers : WillUnmute(c)

(* What an update keeps of the mode is a receiver if it has not read TXREQ; *)
(* if it has, somebody is still transmitting, or TXREQ is brought back.    *)
LEMMA UpdateKeepsMode ==
  ASSUME TypeOK, NEW e \in Callers, NEW mode \in {read[e], read[e] \cup {RX}},
         ModeInv, WriteSYSTEM1(e, mode),
         ~Transmitting(e), \A c \in Callers : Transmitting(c)' <=> Transmitting(c)
  PROVE  ModeInv'
<1> SUFFICES ASSUME ~disturbed' PROVE ModeInv'
  BY DEF ModeInv
<1>1. ~disturbed /\ saved' = saved /\ SYSTEM1' = mode
  BY DEF WriteSYSTEM1
<1>2. (\A c \in Callers : ~Transmitting(c)) => SYSTEM1 = {RX}
  BY <1>1 DEF ModeInv
<1>3. TX \in mode => TX \in SYSTEM1
  <2>1. TX \in mode => TX \in read[e]
    BY DEF RX, TX
  <2>2. ~(TX \in (read[e] \cap mode) \ SYSTEM1)
    BY DEF WriteSYSTEM1
  <2> QED  BY <2>1, <2>2
<1>4. mode = {RX} \/ TX \in mode
  <2>1. read[e] \in Modes
    BY DEF WriteSYSTEM1, TypeOK
  <2> QED  BY <2>1 DEF Modes
<1>5. (\A c \in Callers : ~Transmitting(c)') => SYSTEM1' = {RX}
  BY <1>1, <1>2, <1>3, <1>4 DEF RX, TX
<1> QED  BY <1>1, <1>5 DEF ModeInv, Measuring

(* The only measurement keeps to its receiver.                             *)
LEMMA ModeStep ==
  ASSUME TypeOK, NEW e \in Callers, BackedUp(e), ModeInv,
         (\E full \in BOOLEAN : Call(e, full)) \/ Running(e) \/ UNCHANGED vars
  PROVE  ModeInv'
<1> USE DEF TypeOK, ModeInv, Transmitting, BackedUp, Measuring, Updates, Modes, RX, TX,
           seekVars, accessVars, flagVars,
           chipVars, listVars, callVars, Goto
<1>1. ASSUME NEW full \in BOOLEAN, Call(e, full) PROVE ModeInv'
  BY <1>1 DEF Call
<1>2. CASE ReadSYSTEM1(e)
  BY <1>2 DEF ReadSYSTEM1, Updates
<1>3. CASE MuteAll(e)
  BY <1>3 DEF MuteAll
<1>4. CASE SetFlag(e)
  BY <1>4 DEF SetFlag
<1>5. CASE Update(e)
  BY <1>5 DEF Update
<1>6. CASE Decide(e)
  BY <1>6 DEF Decide, Measured
<1>7. CASE TestMode(e)
  BY <1>7 DEF TestMode
<1>8. CASE MuteMode(e)
  BY <1>8 DEF MuteMode
<1>9. CASE SetMode(e)
  BY <1>9 DEF SetMode, WriteSYSTEM1
<1>10. CASE SetAnalog(e)
  <2>1. pc[e] \notin {"mode", "muteMode", "setMode"} /\ pc'[e] \notin {"mode", "muteMode", "setMode"}
    BY <1>10 DEF SetAnalog
  <2>2. \A c \in Callers : Transmitting(c)' <=> Transmitting(c)
    BY <1>10, <2>1 DEF SetAnalog, WriteSYSTEM1
  <2>3. WriteSYSTEM1(e, read[e])
    BY <1>10 DEF SetAnalog
  <2> HIDE DEF ModeInv, TypeOK
  <2> QED  BY <2>1, <2>2, <2>3, UpdateKeepsMode
<1>11. CASE Listen(e)
  <2>1. pc[e] \notin {"mode", "muteMode", "setMode"} /\ pc'[e] \notin {"mode", "muteMode", "setMode"}
    BY <1>11 DEF Listen
  <2>2. \A c \in Callers : Transmitting(c)' <=> Transmitting(c)
    BY <1>11, <2>1 DEF Listen, WriteSYSTEM1
  <2>3. WriteSYSTEM1(e, read[e])
    BY <1>11 DEF Listen
  <2> HIDE DEF ModeInv, TypeOK
  <2> QED  BY <2>1, <2>2, <2>3, UpdateKeepsMode
<1>12. CASE Backup(e)
  BY <1>12 DEF Backup
<1>13. CASE ClearChannelScan(e)
  BY <1>13 DEF ClearChannelScan, WriteSYSTEM1
<1>14. CASE Restore(e)
  BY <1>14 DEF Restore
<1>15. CASE EndFirstScan(e)
  BY <1>15 DEF EndFirstScan, Measured
<1>16. CASE ResetList(e)
  BY <1>16 DEF ResetList
<1>17. CASE EnterSeekCH(e)
  BY <1>17 DEF EnterSeekCH
<1>18. CASE MuteOne(e)
  BY <1>18 DEF MuteOne
<1>19. CASE Search(e)
  <2>1. pc[e] \notin {"mode", "muteMode", "setMode"} /\ pc'[e] \notin {"mode", "muteMode", "setMode"}
    BY <1>19 DEF Search, NextChannel
  <2>2. \A c \in Callers : Transmitting(c)' <=> Transmitting(c)
    BY <1>19, <2>1 DEF Search, NextChannel, WriteSYSTEM1
  <2>3. WriteSYSTEM1(e, read[e] \cup {RX})
    BY <1>19 DEF Search
  <2> HIDE DEF ModeInv, TypeOK
  <2> QED  BY <2>1, <2>2, <2>3, UpdateKeepsMode
<1>20. CASE SeekOne(e)
  <2>1. pc[e] \notin {"mode", "muteMode", "setMode"} /\ pc'[e] \notin {"mode", "muteMode", "setMode"}
    BY <1>20 DEF SeekOne, NextChannel
  <2>2. \A c \in Callers : Transmitting(c)' <=> Transmitting(c)
    BY <1>20, <2>1 DEF SeekOne, NextChannel, WriteSYSTEM1
  <2>3. WriteSYSTEM1(e, read[e] \cup {RX})
    BY <1>20 DEF SeekOne
  <2> HIDE DEF ModeInv, TypeOK
  <2> QED  BY <2>1, <2>2, <2>3, UpdateKeepsMode
<1>21. CASE Check(e)
  BY <1>21 DEF Check
<1>22. CASE TuneToCH(e)
  BY <1>22 DEF TuneToCH
<1>23. CASE Retune(e)
  <2>1. pc[e] \notin {"mode", "muteMode", "setMode"} /\ pc'[e] \notin {"mode", "muteMode", "setMode"}
    BY <1>23 DEF Retune, Tuned
  <2>2. \A c \in Callers : Transmitting(c)' <=> Transmitting(c)
    BY <1>23, <2>1 DEF Retune, Tuned, WriteSYSTEM1
  <2>3. WriteSYSTEM1(e, read[e])
    BY <1>23 DEF Retune
  <2> HIDE DEF ModeInv, TypeOK
  <2> QED  BY <2>1, <2>2, <2>3, UpdateKeepsMode
<1>24. CASE MuteTune(e)
  BY <1>24 DEF MuteTune
<1>25. CASE RetuneRX(e)
  <2>1. pc[e] \notin {"mode", "muteMode", "setMode"} /\ pc'[e] \notin {"mode", "muteMode", "setMode"}
    BY <1>25 DEF RetuneRX
  <2>2. \A c \in Callers : Transmitting(c)' <=> Transmitting(c)
    BY <1>25, <2>1 DEF RetuneRX, WriteSYSTEM1
  <2>3. WriteSYSTEM1(e, read[e])
    BY <1>25 DEF RetuneRX
  <2> HIDE DEF ModeInv, TypeOK
  <2> QED  BY <2>1, <2>2, <2>3, UpdateKeepsMode
<1>26. CASE UnmuteTuned(e)
  BY <1>26 DEF UnmuteTuned, Tuned
<1>27. CASE Collect(e)
  BY <1>27 DEF Collect
<1>28. CASE Store(e)
  BY <1>28 DEF Store
<1>29. CASE Count(e)
  BY <1>29 DEF Count
<1>30. CASE Loop(e)
  BY <1>30 DEF Loop, LoopFrom, NextStart
<1>31. CASE ClearFlag(e)
  BY <1>31 DEF ClearFlag
<1>32. CASE Unmute(e)
  BY <1>32 DEF Unmute
<1>33. CASE Answer(e)
  BY <1>33 DEF Answer
<1>34. CASE UNCHANGED vars
  BY <1>34 DEF vars
<1> QED
  BY <1>1, <1>2, <1>3, <1>4, <1>5, <1>6, <1>7, <1>8, <1>9, <1>10, <1>11,
     <1>12, <1>13, <1>14, <1>15, <1>16, <1>17, <1>18, <1>19, <1>20, <1>21,
     <1>22, <1>23, <1>24, <1>25, <1>26, <1>27, <1>28, <1>29, <1>30, <1>31,
     <1>32, <1>33, <1>34 DEF Running

(* A seek that leaves the unmuting to the flag leaves it to the full scan  *)
(* that set the flag; one that finds a transmitter and does not unmute     *)
(* leaves it to the call that is measuring.                                *)
LEMMA MuteStep ==
  ASSUME TypeOK, NEW e \in Callers, Placed(e), FlagOfAScan, ModeInv, MuteInv,
         (\E full \in BOOLEAN : Call(e, full)) \/ Running(e) \/ UNCHANGED vars
  PROVE  MuteInv'
<1> USE DEF TypeOK, MuteInv, WillUnmute, Updates, seekVars, accessVars, flagVars,
           chipVars, listVars, callVars, Goto
<1>1. ASSUME NEW full \in BOOLEAN, Call(e, full) PROVE MuteInv'
  BY <1>1 DEF Call
<1>2. CASE ReadSYSTEM1(e)
  BY <1>2 DEF ReadSYSTEM1, Updates
<1>3. CASE MuteAll(e)
  BY <1>3 DEF MuteAll
<1>4. CASE SetFlag(e)
  BY <1>4 DEF SetFlag
<1>5. CASE Update(e)
  BY <1>5 DEF Update
<1>6. CASE Decide(e)
  BY <1>6 DEF Decide, Measured
<1>7. CASE TestMode(e)
  BY <1>7 DEF TestMode
<1>8. CASE MuteMode(e)
  BY <1>8 DEF MuteMode
<1>9. CASE SetMode(e)
  BY <1>9 DEF SetMode, WriteSYSTEM1
<1>10. CASE SetAnalog(e)
  BY <1>10 DEF SetAnalog, WriteSYSTEM1
<1>11. CASE Listen(e)
  BY <1>11 DEF Listen, WriteSYSTEM1
<1>12. CASE Backup(e)
  BY <1>12 DEF Backup
<1>13. CASE ClearChannelScan(e)
  BY <1>13 DEF ClearChannelScan, WriteSYSTEM1
<1>14. CASE Restore(e)
  BY <1>14 DEF Restore
<1>15. CASE EndFirstScan(e)
  BY <1>15 DEF EndFirstScan, Measured
<1>16. CASE ResetList(e)
  BY <1>16 DEF ResetList
<1>17. CASE EnterSeekCH(e)
  BY <1>17 DEF EnterSeekCH
<1>18. CASE MuteOne(e)
  BY <1>18 DEF MuteOne
<1>19. CASE Search(e)
  BY <1>19 DEF Search, WriteSYSTEM1, NextChannel
<1>20. CASE SeekOne(e)
  BY <1>20 DEF SeekOne, WriteSYSTEM1, NextChannel
<1>21. CASE Check(e)
  BY <1>21 DEF Check, FlagOfAScan, Flagged
<1>22. CASE TuneToCH(e)
  BY <1>22 DEF TuneToCH, ModeInv, Transmitting, RX, TX
<1>23. CASE Retune(e)
  BY <1>23 DEF Retune, WriteSYSTEM1, Tuned
<1>24. CASE MuteTune(e)
  BY <1>24 DEF MuteTune
<1>25. CASE RetuneRX(e)
  BY <1>25 DEF RetuneRX, WriteSYSTEM1
<1>26. CASE UnmuteTuned(e)
  BY <1>26 DEF UnmuteTuned, Tuned
<1>27. CASE Collect(e)
  BY <1>27 DEF Collect
<1>28. CASE Store(e)
  BY <1>28 DEF Store
<1>29. CASE Count(e)
  BY <1>29 DEF Count
<1>30. CASE Loop(e)
  BY <1>30 DEF Loop, LoopFrom, NextStart
<1>31. CASE ClearFlag(e)
  BY <1>31 DEF ClearFlag
<1>32. CASE Unmute(e)
  BY <1>32 DEF Unmute
<1>33. CASE Answer(e)
  BY <1>33 DEF Answer
<1>34. CASE UNCHANGED vars
  BY <1>34 DEF vars
<1> QED
  BY <1>1, <1>2, <1>3, <1>4, <1>5, <1>6, <1>7, <1>8, <1>9, <1>10, <1>11,
     <1>12, <1>13, <1>14, <1>15, <1>16, <1>17, <1>18, <1>19, <1>20, <1>21,
     <1>22, <1>23, <1>24, <1>25, <1>26, <1>27, <1>28, <1>29, <1>30, <1>31,
     <1>32, <1>33, <1>34 DEF Running

(* Whoever muted the output, and whichever of the calls finds out that it  *)
(* is not its business to unmute it: when all have returned it is audible  *)
(* and the chip receives, provided no two noise measurements overlapped    *)
(* and no update of SYSTEM1 wrote back a TXREQ cleared since it was read.  *)
THEOREM AudibleWhenDone == Spec => []AudibleAtRest
  <1>1. Init => ModeInv /\ MuteInv
    BY DEF Init, ModeInv, MuteInv, Measuring
  <1>2. IInv /\ FlagOfAScan /\ ModeInv /\ MuteInv /\ [Next]_vars => (ModeInv /\ MuteInv)'
    <2> SUFFICES ASSUME IInv, FlagOfAScan, ModeInv, MuteInv, [Next]_vars
                 PROVE  (ModeInv /\ MuteInv)'
      OBVIOUS
    <2>1. CASE UNCHANGED vars
      BY <2>1 DEF vars, callVars, accessVars, chipVars, ModeInv, Transmitting, MuteInv, WillUnmute, Measuring
    <2>2. CASE Next
      <3>1. PICK e \in Callers : (\E full \in BOOLEAN : Call(e, full)) \/ Running(e)
        BY <2>2 DEF Next
      <3> QED  BY <3>1, ModeStep, MuteStep DEF IInv
    <2> QED  BY <2>1, <2>2
  <1>3. ModeInv /\ MuteInv => AudibleAtRest
    BY DEF ModeInv, Transmitting, MuteInv, WillUnmute, AudibleAtRest
  <1> QED  BY <1>1, <1>2, <1>3, Invariance, FlagIsOwned, PTL DEF Spec
=============================================================================
