----------------------------- MODULE BtRelayer -----------------------------
(***************************************************************************)
(* The relayer between a PC on a serial port and the Bluetooth chip        *)
(* (bt_relayer.cpp on top of bt_em.c): RELAYER_start powers the chip,      *)
(* opens the port and creates two threads; bt_tx_monitor carries packets   *)
(* from the PC to the chip, bt_rx_monitor from the chip to the PC;         *)
(* RELAYER_exit asks them to end, waits for both and closes everything.    *)
(* One application thread calls start and exit, in turn.                   *)
(*                                                                         *)
(* The PC and the chip are external: each read meets any of the packets    *)
(* given by the constants, a byte that is no packet type, or silence.      *)
(***************************************************************************)
EXTENDS Integers

CONSTANTS
    BufLen,     \* size of a thread's packet buffer (512 in the code)
    Payloads,   \* payload lengths that packets declare
    MaxDebug    \* debug events the chip sends in a row at most

ASSUME BufLenAssumption  == BufLen \in Nat /\ BufLen >= 5
ASSUME PayloadAssumption == \A n \in Payloads : n \in Nat /\ n < 65536
ASSUME DebugAssumption   == MaxDebug \in Nat

Threads == {"tx", "rx"}

(* The packet types each direction accepts, with the bytes that precede    *)
(* the payload, and those whose length field is a single byte.             *)
HeaderLen == [tx |-> [cmd |-> 4, acl |-> 5, sco |-> 4],
              rx |-> [evt |-> 3, debug |-> 3, acl |-> 5, sco |-> 4]]
PacketTypes(t) == DOMAIN HeaderLen[t]
LengthOf(type) == IF type = "acl" THEN Payloads ELSE Payloads \cap 0..255

Attempts == 3       \* tries to read the first byte of a packet

VARIABLES
    main,       \* where the application thread is
    fExit,
    chip,       \* the library is loaded and the chip powered
    uart,       \* uart_fd is an open port
    thread,     \* where each thread is
    packet,     \* what each thread has read: type, and length so far
    count,      \* failed attempts of the read in progress
    chatter,    \* debug events dropped in a row
    cause       \* why a thread of this session may not run: "none",
                \* "asked" to end, or a transfer or pthread_create "failed"

deviceVars == <<chip, uart>>
threadVars == <<thread, packet, count, chatter>>
vars == <<main, fExit, deviceVars, threadVars, cause>>

Nothing == [type |-> "none", len |-> 0]

Live(t) == thread[t] \in {"check", "first", "rest", "write"}

(* What a thread reads from and writes to.                                 *)
Source(t) == IF t = "tx" THEN uart ELSE chip
Sink(t)   == IF t = "tx" THEN chip ELSE uart

-----------------------------------------------------------------------------
Init ==
    /\ main = "stopped"
    /\ fExit = FALSE
    /\ chip = FALSE /\ uart = FALSE
    /\ thread = [t \in Threads |-> "none"]
    /\ packet = [t \in Threads |-> Nothing]
    /\ count = [t \in Threads |-> 0]
    /\ chatter = 0
    /\ cause = "none"

(* RELAYER_start: power the chip; the library, one of its symbols or the   *)
(* driver may be missing, and then nothing is left loaded.                 *)
EM_BT_init ==
    /\ main = "stopped"
    /\ \E ok \in BOOLEAN :
          /\ chip' = ok
          /\ main' = IF ok THEN "open" ELSE "stopped"
    /\ cause' = "none"
    /\ UNCHANGED <<fExit, uart, threadVars>>

(* Open the port; a start that fails here powers the chip off again.       *)
OpenPort_KeepsChip ==
    /\ main = "open"
    /\ \E ok \in BOOLEAN :
          /\ uart' = ok
          /\ chip' = chip
          /\ main' = IF ok THEN "createTx" ELSE "stopped"
    /\ UNCHANGED <<fExit, threadVars, cause>>

OpenPort ==
    /\ main = "open"
    /\ \E ok \in BOOLEAN :
          /\ uart' = ok
          /\ chip' = ok
          /\ main' = IF ok THEN "createTx" ELSE "stopped"
    /\ UNCHANGED <<fExit, threadVars, cause>>

(* pthread_create, which may fail: its result is not looked at.            *)
CreateThread(t, here, next) ==
    /\ main = here
    /\ main' = next
    /\ \/ thread' = [thread EXCEPT ![t] = "check"] /\ UNCHANGED cause
       \/ cause' = "failed" /\ UNCHANGED thread
    /\ UNCHANGED <<fExit, deviceVars, packet, count, chatter>>

CreateTx == CreateThread("tx", "createTx", "createRx")
CreateRx == CreateThread("rx", "createRx", "clear")

(* Only now is the exit flag of an earlier session cleared.                *)
ClearExit ==
    /\ main = "clear"
    /\ fExit' = FALSE
    /\ main' = "started"
    /\ UNCHANGED <<deviceVars, threadVars, cause>>

(* RELAYER_exit.                                                           *)
AskExit_Forgets ==
    /\ main = "started"
    /\ cause' = "asked"
    /\ main' = "joinTx"
    /\ UNCHANGED <<fExit, deviceVars, threadVars>>

AskExit ==
    /\ main = "started"
    /\ fExit' = TRUE
    /\ cause' = "asked"
    /\ main' = "joinTx"
    /\ UNCHANGED <<deviceVars, threadVars>>

(* pthread_join; it returns at once if this session has no such thread.    *)
Join(t, here, next) ==
    /\ main = here /\ ~Live(t)
    /\ main' = next
    /\ UNCHANGED <<fExit, deviceVars, threadVars, cause>>

JoinTx == Join("tx", "joinTx", "joinRx")

JoinRx_NoWait ==
    /\ main = "joinRx"
    /\ main' = "close"
    /\ UNCHANGED <<fExit, deviceVars, threadVars, cause>>

JoinRx == Join("rx", "joinRx", "close")

ClosePort ==
    /\ main = "close"
    /\ uart' = FALSE
    /\ main' = "deinit"
    /\ UNCHANGED <<fExit, chip, threadVars, cause>>

EM_BT_deinit ==
    /\ main = "deinit"
    /\ chip' = FALSE
    /\ main' = "stopped"
    /\ UNCHANGED <<fExit, uart, threadVars, cause>>

-----------------------------------------------------------------------------
(* The loop of a monitor thread.                                           *)
Check_RxForever(t) ==
    /\ thread[t] = "check"
    /\ thread' = [thread EXCEPT ![t] = IF fExit /\ t = "tx" THEN "ended" ELSE "first"]
    /\ packet' = [packet EXCEPT ![t] = Nothing]
    /\ count' = [count EXCEPT ![t] = 0]
    /\ chatter' = IF t = "rx" THEN 0 ELSE chatter
    /\ UNCHANGED <<main, fExit, deviceVars, cause>>

Check_KeepsCount(t) ==
    /\ thread[t] = "check"
    /\ thread' = [thread EXCEPT ![t] = IF fExit THEN "ended" ELSE "first"]
    /\ packet' = [packet EXCEPT ![t] = Nothing]
    /\ count' = count
    /\ chatter' = IF t = "rx" THEN 0 ELSE chatter
    /\ UNCHANGED <<main, fExit, deviceVars, cause>>

Check(t) ==
    /\ thread[t] = "check"
    /\ thread' = [thread EXCEPT ![t] = IF fExit THEN "ended" ELSE "first"]
    /\ packet' = [packet EXCEPT ![t] = Nothing]
    /\ count' = [count EXCEPT ![t] = 0]
    /\ chatter' = IF t = "rx" THEN 0 ELSE chatter
    /\ UNCHANGED <<main, fExit, deviceVars, cause>>

(* A failed transfer ends the session; a read that met no packet at all    *)
(* does not.                                                               *)
GiveUp(t) ==
    /\ fExit' = TRUE
    /\ cause' = "failed"
    /\ thread' = [thread EXCEPT ![t] = "check"]

Retry(t) ==
    /\ thread' = [thread EXCEPT ![t] = "check"]
    /\ UNCHANGED <<fExit, cause>>

(* RELAYER_read and EM_BT_read, the first byte.  After three silences the  *)
(* read fails with length 0.  A byte that is no packet type fails the read *)
(* too: from the PC with length 0, from the chip with length 1.            *)
Silence(t) ==
    /\ thread[t] = "first"
    /\ count' = [count EXCEPT ![t] = @ + 1]
    /\ IF count'[t] < Attempts
         THEN UNCHANGED <<thread, fExit, cause>>
         ELSE Retry(t)
    /\ UNCHANGED <<main, deviceVars, packet, chatter>>

Garbage(t) ==
    /\ thread[t] = "first"
    /\ IF t = "tx" THEN Retry(t) ELSE GiveUp(t)
    /\ UNCHANGED <<main, deviceVars, packet, count, chatter>>

FirstByte(t, type) ==
    /\ thread[t] = "first" /\ Source(t)
    /\ type = "debug" => chatter < MaxDebug
    /\ packet' = [packet EXCEPT ![t] = [type |-> type, len |-> 1]]
    /\ thread' = [thread EXCEPT ![t] = "rest"]
    /\ UNCHANGED <<main, fExit, deviceVars, count, chatter, cause>>

(* The rest of the packet: it may not come, or be too long for the buffer. *)
(* A debug event of the chip is dropped, and the read starts over.         *)
Broken(t) ==
    /\ thread[t] = "rest"
    /\ GiveUp(t)
    /\ UNCHANGED <<main, deviceVars, packet, count, chatter>>

Rest_OffByOne(t, n) ==
    LET whole == HeaderLen[t][packet[t].type] + n
    IN  /\ thread[t] = "rest"
        /\ n \in LengthOf(packet[t].type)
        /\ whole <= BufLen + 1
        /\ packet' = [packet EXCEPT ![t].len = whole]
        /\ IF packet[t].type = "debug"
             THEN /\ thread' = [thread EXCEPT ![t] = "first"]
                  /\ count' = [count EXCEPT ![t] = 0]
                  /\ chatter' = chatter + 1
             ELSE /\ thread' = [thread EXCEPT ![t] = "write"]
                  /\ UNCHANGED <<count, chatter>>
        /\ UNCHANGED <<main, deviceVars, fExit, cause>>

Rest(t, n) ==
    LET whole == HeaderLen[t][packet[t].type] + n
    IN  /\ thread[t] = "rest"
        /\ n \in LengthOf(packet[t].type)
        /\ whole <= BufLen
        /\ packet' = [packet EXCEPT ![t].len = whole]
        /\ IF packet[t].type = "debug"
             THEN /\ thread' = [thread EXCEPT ![t] = "first"]
                  /\ count' = [count EXCEPT ![t] = 0]
                  /\ chatter' = chatter + 1
             ELSE /\ thread' = [thread EXCEPT ![t] = "write"]
                  /\ UNCHANGED <<count, chatter>>
        /\ UNCHANGED <<main, deviceVars, fExit, cause>>

TooLong(t, n) ==
    /\ thread[t] = "rest"
    /\ n \in LengthOf(packet[t].type)
    /\ HeaderLen[t][packet[t].type] + n > BufLen
    /\ GiveUp(t)
    /\ UNCHANGED <<main, deviceVars, packet, count, chatter>>

(* EM_BT_write and RELAYER_write: the transfer succeeds, or fails.         *)
Write(t) ==
    /\ thread[t] = "write"
    /\ (Sink(t) /\ Retry(t)) \/ GiveUp(t)
    /\ UNCHANGED <<main, deviceVars, packet, count, chatter>>

-----------------------------------------------------------------------------
Caller ==
    \/ EM_BT_init \/ OpenPort \/ CreateTx \/ CreateRx \/ ClearExit
    \/ AskExit \/ JoinTx \/ JoinRx \/ ClosePort \/ EM_BT_deinit

Monitor(t) ==
    \/ Check(t) \/ Silence(t) \/ Garbage(t) \/ Broken(t) \/ Write(t)
    \/ \E type \in PacketTypes(t) : FirstByte(t, type)
    \/ \E n \in Payloads : Rest(t, n) \/ TooLong(t, n)

Next == Caller \/ \E t \in Threads : Monitor(t)

Spec == Init /\ [][Next]_vars

(* The threads run, and a call that has begun runs to its end: every wait  *)
(* in a read has a timeout.  Nobody has to call.                           *)
FairSpec ==
    /\ Spec
    /\ \A t \in Threads : WF_vars(Monitor(t))
    /\ WF_vars(Caller /\ main \notin {"stopped", "started"})

-----------------------------------------------------------------------------
(* Types of the state.                                                     *)
TypeOK ==
    /\ main \in {"stopped", "open", "createTx", "createRx", "clear",
                 "started", "joinTx", "joinRx", "close", "deinit"}
    /\ fExit \in BOOLEAN
    /\ chip \in BOOLEAN /\ uart \in BOOLEAN
    /\ thread \in [Threads -> {"none", "check", "first", "rest", "write", "ended"}]
    /\ packet \in [Threads -> [type : {"none"} \cup PacketTypes("tx") \cup PacketTypes("rx"),
                               len : Nat]]
    /\ count \in [Threads -> 0..Attempts]
    /\ chatter \in 0..MaxDebug
    /\ cause \in {"none", "asked", "failed"}

(* RELAYER_exit waits for both threads before it closes the port and       *)
(* powers the chip off, so a thread never works on a closed device.        *)
DevicesOutliveThreads == (\E t \in Threads : Live(t)) => chip /\ uart

(* A start that fails, and an exit, leave neither the chip powered nor the *)
(* port open.                                                              *)
StoppedIsOff == main = "stopped" => ~chip /\ ~uart

(* A packet handed on is complete, of a type its receiver accepts, and no  *)
(* longer than the buffer it was read into.                                *)
RelayedWhole ==
    \A t \in Threads : thread[t] = "write" =>
        /\ packet[t].type \in PacketTypes(t) \ {"debug"}
        /\ packet[t].len \in HeaderLen[t][packet[t].type] .. BufLen

(* When one direction fails, the other does not stay behind: once the      *)
(* session is started, a failed transfer ends both threads.                *)
FailureStopsBoth ==
    (main = "started" /\ fExit) ~> \A t \in Threads : ~Live(t)

(* RELAYER_exit returns: neither thread can keep it waiting.               *)
ExitReturns == main = "joinTx" ~> main = "stopped"

(* "BT Relayer mode start": once RELAYER_start has announced it, both      *)
(* directions run until a transfer fails or RELAYER_exit is called, if     *)
(* both threads could be created.                                          *)
StartedRelays ==
    main = "started" /\ cause = "none" => \A t \in Threads : Live(t)
=============================================================================
