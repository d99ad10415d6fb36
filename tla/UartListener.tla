---------------------------- MODULE UartListener ----------------------------
(***************************************************************************)
(* The direct use of the serial port to the BT803 (bluetooth_bttest.cpp    *)
(* and RELAYER_open, RELAYER_close of bt_relayer.cpp): one application     *)
(* thread registers a listener, opens the port, starts a reader thread on  *)
(* it and closes or reopens it; the reader waits for data at most two      *)
(* seconds at a time and hands it to the listener, a Java callback.        *)
(* RELAYER_close clears mOpen and sleeps two seconds for the reader to go. *)
(* Other threads send packets meanwhile, with one non-blocking write each. *)
(*                                                                         *)
(* The application is external.  It registers a listener only while the    *)
(* port is closed and starts one reader for each time it opens the port.   *)
(***************************************************************************)
EXTENDS Integers

CONSTANTS
    Readers,    \* reader threads, reused once they have ended
    Prompt,     \* does every reader end within the two seconds' sleep?
    Senders,    \* threads that send packets
    MaxPayload  \* bound: bytes of a packet before its CR LF

ASSUME ReaderAssumption == Readers # {}
ASSUME PromptAssumption == Prompt \in BOOLEAN
ASSUME PayloadAssumption == MaxPayload \in Nat

VARIABLES
    main,       \* where the application thread is
    reopen,     \* is the close in progress part of RELAYER_open?
    mOpen, uart_fd,
    listener,   \* the registered listener, 0 for none
    started,    \* was a reader started since the port was opened?
    reader,     \* where each reader thread is
    arg,        \* the listener it was given
    sender,     \* where each sending thread is
    len, sent,  \* its packet's length, and the bytes that reached the port
    ret,        \* what send returned
    opened      \* has the port been opened since the call began?

mainVars == <<main, reopen, started>>
sendVars == <<sender, len, sent, ret, opened>>
vars == <<mainVars, mOpen, uart_fd, listener, reader, arg, sendVars>>

CLOSED == -1
Live(r) == reader[r] \in {"check", "select", "read", "deliver"}

Init ==
    /\ main = "idle" /\ reopen = FALSE /\ started = FALSE
    /\ mOpen = 0
    /\ uart_fd = CLOSED
    /\ listener = 0
    /\ reader = [r \in Readers |-> "ended"]
    /\ arg = [r \in Readers |-> 0]
    /\ sender = [s \in Senders |-> "idle"]
    /\ len = [s \in Senders |-> 0] /\ sent = [s \in Senders |-> 0]
    /\ ret = [s \in Senders |-> 0] /\ opened = [s \in Senders |-> FALSE]

-----------------------------------------------------------------------------
(* native_uartEvent: the old listener is deleted.                          *)
UartEvent ==
    /\ main = "idle" /\ uart_fd = CLOSED
    /\ listener' = IF listener = 1 THEN 2 ELSE 1
    /\ UNCHANGED <<mainVars, mOpen, uart_fd, reader, arg, sendVars>>

(* RELAYER_close, and RELAYER_open, which begins with it.                  *)
BeginClose_KeepsOpen(again) ==
    /\ main = "idle" /\ uart_fd # CLOSED
    /\ main' = "sleep"
    /\ reopen' = again
    /\ UNCHANGED <<started, mOpen, uart_fd, listener, reader, arg, sendVars>>

BeginClose(again) ==
    /\ main = "idle" /\ uart_fd # CLOSED
    /\ mOpen' = 0
    /\ main' = "sleep"
    /\ reopen' = again
    /\ UNCHANGED <<started, uart_fd, listener, reader, arg, sendVars>>

EndSleep_NoWait ==
    /\ main = "sleep"
    /\ uart_fd' = CLOSED
    /\ main' = IF reopen THEN "open" ELSE "idle"
    /\ UNCHANGED <<reopen, started, mOpen, listener, reader, arg, sendVars>>

EndSleep ==
    /\ main = "sleep"
    /\ Prompt => \A r \in Readers : ~Live(r)
    /\ uart_fd' = CLOSED
    /\ main' = IF reopen THEN "open" ELSE "idle"
    /\ UNCHANGED <<reopen, started, mOpen, listener, reader, arg, sendVars>>

OpenPort_Code ==
    /\ main = "open" \/ (main = "idle" /\ uart_fd = CLOSED)
    /\ \E fd \in {CLOSED, 3} : uart_fd' = fd /\ mOpen' = fd
    /\ main' = "idle"
    /\ started' = FALSE
    /\ opened' = [s \in Senders |-> TRUE]
    /\ UNCHANGED <<reopen, listener, reader, arg, sender, len, sent, ret>>

OpenPort ==
    /\ main = "open" \/ (main = "idle" /\ uart_fd = CLOSED)
    /\ \/ uart_fd' = 3 /\ mOpen' = 1
       \/ uart_fd' = CLOSED /\ mOpen' = 0
    /\ main' = "idle"
    /\ started' = FALSE
    /\ opened' = [s \in Senders |-> TRUE]
    /\ UNCHANGED <<reopen, listener, reader, arg, sender, len, sent, ret>>

(* native_listenUart; a reader without a listener ends at once.            *)
ListenUart(r) ==
    /\ main = "idle" /\ uart_fd # CLOSED /\ ~started
    /\ reader[r] = "ended"
    /\ reader' = [reader EXCEPT ![r] = IF listener = 0 THEN "ended" ELSE "check"]
    /\ arg' = [arg EXCEPT ![r] = listener]
    /\ started' = TRUE
    /\ UNCHANGED <<main, reopen, mOpen, uart_fd, listener, sendVars>>

-----------------------------------------------------------------------------
(* threadreadTtyData.                                                      *)
Goes(r, to) ==
    /\ reader' = [reader EXCEPT ![r] = to]
    /\ UNCHANGED <<mainVars, mOpen, uart_fd, listener, arg, sendVars>>

Check(r) ==
    /\ reader[r] = "check"
    /\ Goes(r, IF mOpen = 1 THEN "select" ELSE "ended")

(* The wait ends with data, after two seconds, or with an error.           *)
SelectReturns(r) ==
    /\ reader[r] = "select"
    /\ \E to \in {"read", "check", "ended"} : Goes(r, to)

(* The read that select has announced succeeds: the code does not look,    *)
(* and OnEvent would be called with length -1, for which memcpy is         *)
(* undefined.                                                              *)
ReadData(r) ==
    /\ reader[r] = "read"
    /\ Goes(r, "deliver")

(* JNIMyObserver::OnEvent has returned.                                    *)
Delivered(r) ==
    /\ reader[r] = "deliver"
    /\ Goes(r, "check")

Reader(r) == Check(r) \/ SelectReturns(r) \/ ReadData(r) \/ Delivered(r)

-----------------------------------------------------------------------------
(* BtTest_sendstr, BtTest_sendbin and BtTest_senddata copy a payload and   *)
(* append CR LF; an empty one, and a window that does not end before the   *)
(* last byte of its array, returns 0 without a call of send.               *)
SendPacket(s) ==
    /\ sender[s] \in {"idle", "done"}
    /\ sender' = [sender EXCEPT ![s] = "check"]
    /\ \E n \in 1..MaxPayload : len' = [len EXCEPT ![s] = n + 2]
    /\ sent' = [sent EXCEPT ![s] = 0]
    /\ ret' = [ret EXCEPT ![s] = 0]
    /\ opened' = [opened EXCEPT ![s] = FALSE]
    /\ UNCHANGED <<mainVars, mOpen, uart_fd, listener, reader, arg>>

(* send looks at uart_fd, and reads it again for what it does next.        *)
SendChecks(s) ==
    /\ sender[s] = "check"
    /\ sender' = [sender EXCEPT
                    ![s] = IF uart_fd = CLOSED THEN "refuse" ELSE "write"]
    /\ UNCHANGED <<mainVars, mOpen, uart_fd, listener, reader, arg, len, sent,
                   ret, opened>>

(* send of thread s returns r with k bytes in the port's queue.            *)
SendReturns(s, r, k) ==
    /\ sender' = [sender EXCEPT ![s] = "done"]
    /\ ret' = [ret EXCEPT ![s] = r]
    /\ sent' = [sent EXCEPT ![s] = k]
    /\ UNCHANGED <<mainVars, mOpen, uart_fd, listener, reader, arg, len,
                   opened>>

SendWrites_Len(s) ==
    /\ sender[s] = "write"
    /\ \/ uart_fd # CLOSED /\ \E k \in 1..len[s] : SendReturns(s, len[s], k)
       \/ SendReturns(s, -1, 0)

(* The queue takes all of the packet, its beginning, or nothing; a closed  *)
(* descriptor takes nothing.                                               *)
SendWrites(s) ==
    /\ sender[s] = "write"
    /\ \/ uart_fd # CLOSED /\ \E k \in 1..len[s] : SendReturns(s, k, k)
       \/ SendReturns(s, -1, 0)

SendRefuses(s) == sender[s] = "refuse" /\ SendReturns(s, uart_fd, 0)

Sender(s) == SendPacket(s) \/ SendChecks(s) \/ SendWrites(s) \/ SendRefuses(s)

Next ==
    \/ UartEvent \/ EndSleep \/ OpenPort
    \/ \E again \in BOOLEAN : BeginClose(again)
    \/ \E r \in Readers : ListenUart(r) \/ Reader(r)
    \/ \E s \in Senders : Sender(s)

Spec == Init /\ [][Next]_vars

(* Threads run, waits have timeouts, a close that has begun goes on.       *)
FairSpec ==
    /\ Spec
    /\ \A r \in Readers : WF_vars(Reader(r))
    /\ WF_vars(EndSleep) /\ WF_vars(OpenPort /\ main = "open")

-----------------------------------------------------------------------------
(* Types of the state.                                                     *)
TypeOK ==
    /\ main \in {"idle", "sleep", "open"}
    /\ reopen \in BOOLEAN /\ started \in BOOLEAN
    /\ mOpen \in {0, 1}
    /\ uart_fd \in {CLOSED, 3}
    /\ listener \in 0..2 /\ arg \in [Readers -> 0..2]
    /\ reader \in [Readers -> {"check", "select", "read", "deliver", "ended"}]
    /\ sender \in [Senders -> {"idle", "check", "write", "refuse", "done"}]
    /\ len \in [Senders -> 0..MaxPayload + 2]
    /\ sent \in [Senders -> 0..MaxPayload + 2]
    /\ ret \in [Senders -> -1..MaxPayload + 3]
    /\ opened \in [Senders -> BOOLEAN]

(* Closing and reopening the port never leaves two readers on it, each     *)
(* taking a part of the data; and a reader reads from an open port and     *)
(* hands what it read to a listener that is still registered.              *)
ReaderHasItsOwn ==
    /\ \A q, r \in Readers : Live(q) /\ Live(r) => q = r
    /\ \A r \in Readers : reader[r] \in {"read", "deliver"} =>
          uart_fd # CLOSED /\ arg[r] = listener

(* What send returns is the part of the packet that reached the port, or   *)
(* -1 when nothing did, so its caller can tell a packet that went out with *)
(* its CR LF from one cut short or lost to a close; except that a port     *)
(* opened during the call lets it return the descriptor's number.          *)
SendTells ==
    \A s \in Senders : sender[s] = "done" =>
        \/ ret[s] = IF sent[s] = 0 THEN -1 ELSE sent[s]
        \/ opened[s] /\ sent[s] = 0 /\ ret[s] = 3

(* RELAYER_close and RELAYER_open return, whatever the reader is doing.    *)
CloseReturns == main = "sleep" ~> main = "idle"
=============================================================================
