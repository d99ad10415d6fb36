------------------------------ MODULE QnShared ------------------------------
(***************************************************************************)
(* The two seek functions of the FM driver under several callers at once.  *)
(* The ioctl takes no lock (the service calls it on binder threads), so    *)
(* the calls share qnd_AutoScanAll, qnd_ChCount, qnd_ChList, qnd_FirstScan *)
(* and the chip.  A step is one access to one of these: QNF_SetRegBit,     *)
(* which changes some bits of SYSTEM1 and keeps the others, reads it in    *)
(* one step and writes it in another, and what others have written between *)
(* is lost.  The mute bits are the only ones that anything here changes in *)
(* their register: its update counts as its write.  One access to a        *)
(* register is whole, as QnI2c shows for one bus master.  What the chip    *)
(* hears is arbitrary: QND_RXSeekCH may accept any channel, and any        *)
(* reading of the clear channel may start a new noise measurement.         *)
(* Channels are numbered in the order of the sweep, one step apart.        *)
(***************************************************************************)
EXTENDS Integers, Sequences

CONSTANTS
    Callers,    \* binder threads
    LastCH,     \* channels are 1..LastCH
    ChMax,      \* capacity of qnd_ChList (50 in the code)
    MaxCalls    \* bound on the number of calls

ASSUME BoundAssumption ==
    /\ LastCH \in Nat \ {0}
    /\ ChMax \in Nat \ {0}
    /\ MaxCalls \in Nat

VARIABLES
    pc,         \* where each caller is
    all,        \* is its call QND_RXSeekCHAll?
    inside,     \* is it in the loop of QND_RXSeekCHAll?
    start,      \* the channel QND_RXSeekCH is at, or pStart
    temp,       \* the channel QND_RXSeekCH returned, 0 for none
    slot,       \* the value of qnd_ChCount it is about to use
    read,       \* SYSTEM1 as QNF_SetRegBit has read it, {} before
    saved,      \* SYSTEM1 as QNF_UpdateRSSIn saved it, {} outside of it
    \* globals of the driver
    AutoScanAll, ChCount, ChList, FirstScan,
    \* the chip: mode bits of SYSTEM1, mute bits
    SYSTEM1, muted,
    \* history: the channels each full scan found, whether no other full
    \* scan overlapped it; whether two noise measurements ever overlapped
    \* or a write of SYSTEM1 ever brought back a cleared TXREQ
    own, alone, disturbed,
    calls

seekVars == <<inside, start, temp, slot, own>>
accessVars == <<read, saved, disturbed>>
flagVars == <<AutoScanAll, FirstScan>>
chipVars == <<SYSTEM1, muted>>
listVars == <<ChCount, ChList>>
callVars == <<all, alone, calls>>
vars == <<pc, seekVars, accessVars, flagVars, chipVars, listVars, callVars>>

Channels == 1..LastCH
RX == "RXREQ"
TX == "TXREQ"
Modes == {{RX}, {TX}, {RX, TX}}

(* Locations at which QNF_SetRegBit changes SYSTEM1; those at which a scan *)
(* of all has set its flag and not cleared it yet.                         *)
Updates == {"scan", "setMode", "analog", "listen", "search", "seek", "retune", "retuneRX"}
Flagged == Updates \cup
           {"update", "mode", "muteMode", "decide", "backup", "restore", "measured", "reset",
            "entry", "muteOne", "check", "tune", "muteTune", "unmuteTuned",
            "collect", "slot", "count", "loop", "clear"}
Locations == {"idle", "muteAll", "flag", "unmute", "answer"} \cup Flagged

InFullScan(c) == pc[c] # "idle" /\ all[c]
Measuring(c) == saved[c] # {}

-----------------------------------------------------------------------------
(* The driver has been loaded; a seek may already have run and measured.   *)
Init ==
    /\ pc = [c \in Callers |-> "idle"]
    /\ all = [c \in Callers |-> FALSE] /\ inside = [c \in Callers |-> FALSE]
    /\ start = [c \in Callers |-> 1] /\ temp = [c \in Callers |-> 0]
    /\ slot = [c \in Callers |-> 0]
    /\ read = [c \in Callers |-> {}] /\ saved = [c \in Callers |-> {}]
    /\ AutoScanAll = FALSE /\ FirstScan \in BOOLEAN
    /\ ChCount = 0 /\ ChList = <<>>
    /\ SYSTEM1 = {RX} /\ muted = FALSE
    /\ own = [c \in Callers |-> <<>>] /\ alone = [c \in Callers |-> FALSE]
    /\ disturbed = FALSE
    /\ calls = 0

Goto(c, location) == pc' = [pc EXCEPT ![c] = location]

(* An ioctl arrives: QND_RXSeekCHAll if `full', else QND_RXSeekCH; either  *)
(* from channel 1.                                                         *)
Call(c, full) ==
    /\ pc[c] = "idle" /\ calls < MaxCalls
    /\ calls' = calls + 1
    /\ Goto(c, IF full THEN "muteAll" ELSE "entry")
    /\ all' = [all EXCEPT ![c] = full]
    /\ alone' = [d \in Callers |->
                    IF d = c THEN full /\ \A e \in Callers \ {c} : ~InFullScan(e)
                             ELSE alone[d] /\ ~full]
    /\ UNCHANGED <<seekVars, accessVars, flagVars, chipVars, listVars>>

-----------------------------------------------------------------------------
(* QNF_SetRegBit on SYSTEM1: reads the register, and writes it with the    *)
(* bits of the mask changed.                                               *)
ReadSYSTEM1(c) ==
    /\ pc[c] \in Updates /\ read[c] = {}
    /\ read' = [read EXCEPT ![c] = SYSTEM1]
    /\ UNCHANGED <<pc, seekVars, saved, disturbed, flagVars, chipVars, listVars, callVars>>

WriteSYSTEM1(c, mode) ==
    /\ read[c] # {}
    /\ SYSTEM1' = mode /\ read' = [read EXCEPT ![c] = {}]
    /\ disturbed' = (disturbed \/ TX \in (read[c] \cap mode) \ SYSTEM1)
    /\ UNCHANGED <<saved, muted, flagVars, listVars, callVars>>

(* QND_RXSeekCHAll up to its noise measurement.                            *)
MuteAll(c) ==
    /\ pc[c] = "muteAll" /\ Goto(c, "flag")
    /\ muted' = TRUE
    /\ UNCHANGED <<seekVars, accessVars, flagVars, SYSTEM1, listVars, callVars>>

SetFlag(c) ==
    /\ pc[c] = "flag" /\ Goto(c, "update")
    /\ AutoScanAll' = TRUE
    /\ UNCHANGED <<seekVars, accessVars, FirstScan, chipVars, listVars, callVars>>

(* QND_UpdateRSSIn(0): unless this is the first scan, listen to the clear  *)
(* channel; measure on the first scan, or if the reading has changed.      *)
Update(c) ==
    /\ pc[c] = "update" /\ Goto(c, IF FirstScan THEN "decide" ELSE "mode")
    /\ UNCHANGED <<seekVars, accessVars, flagVars, chipVars, listVars, callVars>>

Measured(c) == IF all[c] /\ ~inside[c] THEN "reset" ELSE "search"

Decide(c) ==
    /\ pc[c] = "decide"
    /\ Goto(c, "backup") \/ (~FirstScan /\ Goto(c, Measured(c)))
    /\ UNCHANGED <<seekVars, accessVars, flagVars, chipVars, listVars, callVars>>

(* QND_GetRSSI: QND_SetSysMode makes the chip a receiver, muted, unless it *)
(* is one; the other two updates keep the mode they have read.             *)
TestMode(c) ==
    /\ pc[c] = "mode" /\ Goto(c, IF SYSTEM1 = {RX} THEN "analog" ELSE "muteMode")
    /\ UNCHANGED <<seekVars, accessVars, flagVars, chipVars, listVars, callVars>>

MuteMode(c) ==
    /\ pc[c] = "muteMode" /\ Goto(c, "setMode")
    /\ muted' = TRUE
    /\ UNCHANGED <<seekVars, accessVars, flagVars, SYSTEM1, listVars, callVars>>

SetMode(c) ==
    /\ pc[c] = "setMode" /\ Goto(c, "analog")
    /\ WriteSYSTEM1(c, {RX}) /\ UNCHANGED seekVars

SetAnalog(c) ==
    /\ pc[c] = "analog" /\ Goto(c, "listen")
    /\ WriteSYSTEM1(c, read[c]) /\ UNCHANGED seekVars

Listen(c) ==
    /\ pc[c] = "listen" /\ Goto(c, IF Measuring(c) THEN "restore" ELSE "decide")
    /\ WriteSYSTEM1(c, read[c]) /\ UNCHANGED seekVars

(* QNF_UpdateRSSIn(0): back SYSTEM1 up; scan for a clear channel, as a     *)
(* transmitter, and listen to it; write the backup back.  One band stands  *)
(* for all, which are measured alike.                                      *)
Backup(c) ==
    /\ pc[c] = "backup" /\ Goto(c, "scan")
    /\ saved' = [saved EXCEPT ![c] = SYSTEM1]
    /\ disturbed' = (disturbed \/ \E d \in Callers : Measuring(d))
    /\ UNCHANGED <<seekVars, read, flagVars, chipVars, listVars, callVars>>

ClearChannelScan(c) ==
    /\ pc[c] = "scan" /\ Goto(c, "mode")
    /\ WriteSYSTEM1(c, {TX}) /\ UNCHANGED seekVars

Restore(c) ==
    /\ pc[c] = "restore" /\ Goto(c, "measured")
    /\ SYSTEM1' = saved[c] /\ saved' = [saved EXCEPT ![c] = {}]
    /\ UNCHANGED <<seekVars, read, disturbed, flagVars, muted, listVars, callVars>>

EndFirstScan(c) ==
    /\ pc[c] = "measured" /\ Goto(c, Measured(c))
    /\ FirstScan' = FALSE
    /\ UNCHANGED <<seekVars, accessVars, AutoScanAll, chipVars, listVars, callVars>>

ResetList_Keeps(c) ==
    /\ pc[c] = "reset" /\ Goto(c, "entry")
    /\ inside' = [inside EXCEPT ![c] = TRUE]
    /\ UNCHANGED <<start, temp, slot, own, accessVars, flagVars, chipVars, listVars, callVars>>

ResetList(c) ==
    /\ pc[c] = "reset" /\ Goto(c, "entry")
    /\ ChCount' = 0
    /\ inside' = [inside EXCEPT ![c] = TRUE]
    /\ UNCHANGED <<start, temp, slot, own, accessVars, flagVars, ChList, chipVars, callVars>>

-----------------------------------------------------------------------------
(* QND_RXSeekCH asks the flag whether it is on its own: if so it mutes and *)
(* measures first.                                                         *)
EnterSeekCH(c) ==
    /\ pc[c] = "entry" /\ Goto(c, IF AutoScanAll THEN "search" ELSE "muteOne")
    /\ UNCHANGED <<seekVars, accessVars, flagVars, chipVars, listVars, callVars>>

MuteOne(c) ==
    /\ pc[c] = "muteOne" /\ Goto(c, "update")
    /\ muted' = TRUE
    /\ UNCHANGED <<seekVars, accessVars, flagVars, SYSTEM1, listVars, callVars>>

(* One channel: the receiver is switched on for it, whatever else is on.   *)
(* One that is strong enough is sought for its own sake, and accepted, or  *)
(* the next one is due, or there is none left.                             *)
NextChannel(c) ==
    \/ /\ start[c] < LastCH
       /\ start' = [start EXCEPT ![c] = @ + 1]
       /\ Goto(c, "search") /\ UNCHANGED temp
    \/ /\ start[c] = LastCH
       /\ temp' = [temp EXCEPT ![c] = 0]
       /\ Goto(c, "check") /\ UNCHANGED start

Search(c) ==
    /\ pc[c] = "search"
    /\ WriteSYSTEM1(c, read[c] \cup {RX})
    /\ NextChannel(c) \/ (Goto(c, "seek") /\ UNCHANGED <<start, temp>>)
    /\ UNCHANGED <<inside, slot, own>>

SeekOne(c) ==
    /\ pc[c] = "seek"
    /\ WriteSYSTEM1(c, read[c] \cup {RX})
    /\ \/ NextChannel(c)
       \/ /\ temp' = [temp EXCEPT ![c] = start[c]]
          /\ Goto(c, "check") /\ UNCHANGED start
    /\ UNCHANGED <<inside, slot, own>>

(* It asks the flag again: on its own it tunes, else that is left to       *)
(* QND_RXSeekCHAll.                                                        *)
Check(c) ==
    /\ pc[c] = "check"
    /\ Goto(c, IF ~AutoScanAll THEN "tune" ELSE IF all[c] THEN "collect" ELSE "answer")
    /\ UNCHANGED <<seekVars, accessVars, flagVars, chipVars, listVars, callVars>>

(* QND_TuneToCH: a transmitter is only retuned; a receiver is muted for    *)
(* the change of channel.                                                  *)
Tuned(c) == IF ~all[c] THEN "answer" ELSE IF inside[c] THEN "collect" ELSE "clear"

TuneToCH(c) ==
    /\ pc[c] = "tune" /\ Goto(c, IF TX \in SYSTEM1 THEN "retune" ELSE "muteTune")
    /\ UNCHANGED <<seekVars, accessVars, flagVars, chipVars, listVars, callVars>>

Retune(c) ==
    /\ pc[c] = "retune" /\ Goto(c, Tuned(c))
    /\ WriteSYSTEM1(c, read[c]) /\ UNCHANGED seekVars

MuteTune(c) ==
    /\ pc[c] = "muteTune" /\ Goto(c, "retuneRX")
    /\ muted' = TRUE
    /\ UNCHANGED <<seekVars, accessVars, flagVars, SYSTEM1, listVars, callVars>>

RetuneRX(c) ==
    /\ pc[c] = "retuneRX" /\ Goto(c, "unmuteTuned")
    /\ WriteSYSTEM1(c, read[c]) /\ UNCHANGED seekVars

UnmuteTuned(c) ==
    /\ pc[c] = "unmuteTuned" /\ Goto(c, Tuned(c))
    /\ muted' = FALSE
    /\ UNCHANGED <<seekVars, accessVars, flagVars, SYSTEM1, listVars, callVars>>

-----------------------------------------------------------------------------
(* qnd_ChList[qnd_ChCount++] = temp, unless nothing was found.             *)
Collect(c) ==
    /\ pc[c] = "collect" /\ Goto(c, IF temp[c] # 0 THEN "slot" ELSE "loop")
    /\ slot' = [slot EXCEPT ![c] = IF temp[c] # 0 THEN ChCount ELSE 0]
    /\ UNCHANGED <<inside, start, temp, own, accessVars, flagVars, chipVars, listVars, callVars>>

Store(c) ==
    /\ pc[c] = "slot" /\ Goto(c, "count")
    /\ ChList' = [i \in DOMAIN ChList \cup {slot[c]} |->
                    IF i = slot[c] THEN temp[c] ELSE ChList[i]]
    /\ own' = [own EXCEPT ![c] = Append(@, temp[c])]
    /\ UNCHANGED <<inside, start, temp, slot, accessVars, flagVars, ChCount, chipVars, callVars>>

Count(c) ==
    /\ pc[c] = "count" /\ Goto(c, "loop")
    /\ ChCount' = slot[c] + 1 /\ slot' = [slot EXCEPT ![c] = 0]
    /\ UNCHANGED <<inside, start, temp, own, accessVars, flagVars, ChList, chipVars, callVars>>

(* The next part starts one step after the channel found, as long as the   *)
(* range and the list go on.                                               *)
LoopFrom(c, next, room) ==
    /\ pc[c] = "loop"
    /\ IF next <= LastCH /\ room
         THEN /\ Goto(c, "entry")
              /\ start' = [start EXCEPT ![c] = next]
              /\ UNCHANGED inside
         ELSE /\ Goto(c, "tune")
              /\ start' = [start EXCEPT ![c] = 1]
              /\ inside' = [inside EXCEPT ![c] = FALSE]
    /\ temp' = [temp EXCEPT ![c] = 0]
    /\ UNCHANGED <<slot, own, accessVars, flagVars, chipVars, listVars, callVars>>

NextStart(c) == IF temp[c] = 0 THEN LastCH + 1 ELSE temp[c] + 1

Loop_NoStep(c) == LoopFrom(c, IF temp[c] = 0 THEN LastCH ELSE temp[c] + 1, ChCount < ChMax)

Loop(c) == LoopFrom(c, NextStart(c), ChCount < ChMax)

(* The end of QND_RXSeekCHAll: the flag is cleared before the output is    *)
(* unmuted, so that who still finds the flag set is unmuted by this.       *)
ClearFlag_Found(c) ==
    /\ pc[c] = "clear" /\ Goto(c, "unmute")
    /\ AutoScanAll' = (AutoScanAll /\ ChCount = 0)
    /\ UNCHANGED <<seekVars, accessVars, FirstScan, chipVars, listVars, callVars>>

ClearFlag(c) ==
    /\ pc[c] = "clear" /\ Goto(c, "unmute")
    /\ AutoScanAll' = FALSE
    /\ UNCHANGED <<seekVars, accessVars, FirstScan, chipVars, listVars, callVars>>

Unmute_Redundant(c) ==
    /\ pc[c] = "unmute" /\ Goto(c, "answer")
    /\ UNCHANGED <<seekVars, accessVars, flagVars, chipVars, listVars, callVars>>

Unmute(c) ==
    /\ pc[c] = "unmute" /\ Goto(c, "answer")
    /\ muted' = FALSE
    /\ UNCHANGED <<seekVars, accessVars, flagVars, SYSTEM1, listVars, callVars>>

(* The function returns, QND_RXSeekCHAll with the value of qnd_ChCount;    *)
(* its locals and its history are gone.                                    *)
Answer(c) ==
    /\ pc[c] = "answer" /\ Goto(c, "idle")
    /\ start' = [start EXCEPT ![c] = 1] /\ temp' = [temp EXCEPT ![c] = 0]
    /\ own' = [own EXCEPT ![c] = <<>>]
    /\ all' = [all EXCEPT ![c] = FALSE] /\ alone' = [alone EXCEPT ![c] = FALSE]
    /\ UNCHANGED <<inside, slot, accessVars, flagVars, chipVars, listVars, calls>>

-----------------------------------------------------------------------------
Running(c) ==
    \/ ReadSYSTEM1(c)
    \/ MuteAll(c) \/ SetFlag(c) \/ Update(c) \/ Decide(c)
    \/ TestMode(c) \/ MuteMode(c) \/ SetMode(c) \/ SetAnalog(c) \/ Listen(c)
    \/ Backup(c) \/ ClearChannelScan(c) \/ Restore(c) \/ EndFirstScan(c)
    \/ ResetList(c) \/ EnterSeekCH(c) \/ MuteOne(c)
    \/ Search(c) \/ SeekOne(c) \/ Check(c)
    \/ TuneToCH(c) \/ Retune(c) \/ MuteTune(c) \/ RetuneRX(c) \/ UnmuteTuned(c)
    \/ Collect(c) \/ Store(c) \/ Count(c) \/ Loop(c)
    \/ ClearFlag(c) \/ Unmute(c) \/ Answer(c)

Next == \E c \in Callers :
    \/ \E full \in BOOLEAN : Call(c, full)
    \/ Running(c)

Spec == Init /\ [][Next]_vars

(* Every caller is scheduled while its call runs, and the chip answers.    *)
FairSpec == Spec /\ \A c \in Callers : WF_vars(Running(c))

-----------------------------------------------------------------------------
(* Types of the state.                                                     *)
TypeOK ==
    /\ pc \in [Callers -> Locations]
    /\ all \in [Callers -> BOOLEAN] /\ inside \in [Callers -> BOOLEAN]
    /\ start \in [Callers -> Channels]
    /\ temp \in [Callers -> 0..LastCH]
    /\ slot \in [Callers -> Nat]
    /\ read \in [Callers -> Modes \cup {{}}] /\ saved \in [Callers -> Modes \cup {{}}]
    /\ AutoScanAll \in BOOLEAN /\ FirstScan \in BOOLEAN
    /\ ChCount \in Nat /\ DOMAIN ChList \subseteq Nat
    /\ SYSTEM1 \in Modes /\ muted \in BOOLEAN
    /\ own \in [Callers -> Seq(Channels)]
    /\ alone \in [Callers -> BOOLEAN] /\ disturbed \in BOOLEAN
    /\ calls \in Nat

(* The flag is only ever set on behalf of a full scan that still runs and  *)
(* will clear it: a single seek that skips muting, measuring and tuning    *)
(* because of the flag leaves them to somebody.                            *)
FlagOfAScan ==
    AutoScanAll => \E c \in Callers : all[c] /\ pc[c] \in Flagged

(* A full scan that no other full scan overlapped returns the number of    *)
(* channels it found and leaves exactly these in the list, in order and    *)
(* within its capacity, whatever single seeks run at the same time.        *)
OwnListWhenAlone ==
    \A c \in Callers : all[c] /\ alone[c] =>
        /\ pc[c] = "answer" =>
              /\ ChCount = Len(own[c])
              /\ \A i \in 1..Len(own[c]) : ChList[i - 1] = own[c][i]
              /\ \A i \in 2..Len(own[c]) : own[c][i - 1] < own[c][i]
        /\ pc[c] = "slot" => slot[c] < ChMax

(* Whoever muted the output, and whichever of the calls finds out that it  *)
(* is not its business to unmute it: when all have returned it is audible  *)
(* and the chip receives.  Two things excepted can leave it muted, with    *)
(* TXREQ set: noise measurements that overlap, where one backs up and      *)
(* restores what the other has set, and an update by QNF_SetRegBit that    *)
(* reads TXREQ during a measurement and writes it back after its end.      *)
AudibleAtRest ==
    (\A c \in Callers : pc[c] = "idle") /\ ~disturbed => ~muted /\ SYSTEM1 = {RX}

(* Every call returns, whatever the others do to the flag and the list.    *)
EverySeekEnds == \A c \in Callers : pc[c] # "idle" ~> pc[c] = "idle"
=============================================================================
