------------------------- MODULE UartListenerProofs -------------------------
(***************************************************************************)
(* For any number of reader and sender threads: if readers end within the  *)
(* two seconds RELAYER_close sleeps, each has the port and the listener to *)
(* itself (ReaderHasItsOwn), and what send returns can be relied on,       *)
(* prompt readers or not (SendTells).                                      *)
(***************************************************************************)
EXTENDS UartListener, TLAPS

(* The application thread and the port.                                    *)
PortInv ==
    /\ main = "sleep" => uart_fd # CLOSED
    /\ main = "open" => uart_fd = CLOSED

(* A live reader is the one started on the port that is open now.          *)
ReaderInv ==
    /\ \A r \in Readers : Live(r) =>
          started /\ uart_fd # CLOSED /\ main # "open" /\ arg[r] = listener
    /\ \A q, r \in Readers : Live(q) /\ Live(r) => q = r

(* A sender refused by an open port has seen it opened during its call.    *)
SendInv ==
    \A s \in Senders : sender[s] = "refuse" =>
        uart_fd = CLOSED \/ (uart_fd = 3 /\ opened[s])

-----------------------------------------------------------------------------
LEMMA TypeInit == Init => TypeOK
<1>1. 0 \in 0..MaxPayload + 2 /\ 0 \in -1..MaxPayload + 3
    BY PayloadAssumption DEF PayloadAssumption
<1> SUFFICES ASSUME Init PROVE TypeOK
    OBVIOUS
<1>2. len \in [Senders -> 0..MaxPayload + 2] /\ sent \in [Senders -> 0..MaxPayload + 2]
    BY <1>1 DEF Init
<1>3. ret \in [Senders -> -1..MaxPayload + 3]
    BY <1>1 DEF Init
<1>4. /\ reader \in [Readers -> {"check", "select", "read", "deliver", "ended"}]
      /\ sender \in [Senders -> {"idle", "check", "write", "refuse", "done"}]
    BY DEF Init
<1>5. arg \in [Readers -> 0..2] /\ opened \in [Senders -> BOOLEAN]
    BY DEF Init
<1>6. main \in {"idle", "sleep", "open"} /\ reopen \in BOOLEAN /\ started \in BOOLEAN
    BY DEF Init
<1>7. mOpen \in {0, 1} /\ uart_fd \in {CLOSED, 3} /\ listener \in 0..2
    BY DEF Init, CLOSED
<1> QED BY <1>2, <1>3, <1>4, <1>5, <1>6, <1>7 DEF TypeOK

LEMMA TypeStep == TypeOK /\ [Next]_vars => TypeOK'
<1> SUFFICES ASSUME TypeOK, [Next]_vars PROVE TypeOK'
    OBVIOUS
<1> USE DEF TypeOK, CLOSED, PayloadAssumption
<1>1. CASE UartEvent
    BY <1>1 DEF UartEvent, mainVars, sendVars
<1>2. CASE EndSleep
    BY <1>2 DEF EndSleep, sendVars
<1>3. CASE OpenPort
    BY <1>3 DEF OpenPort
<1>4. ASSUME NEW again \in BOOLEAN, BeginClose(again) PROVE TypeOK'
    BY <1>4 DEF BeginClose, sendVars
<1>5. ASSUME NEW r \in Readers, ListenUart(r) PROVE TypeOK'
    <2>1. reader' \in [Readers -> {"check", "select", "read", "deliver", "ended"}]
        BY <1>5 DEF ListenUart
    <2>2. arg' \in [Readers -> 0..2]
        BY <1>5 DEF ListenUart
    <2> QED BY <1>5, <2>1, <2>2 DEF ListenUart, sendVars
<1>6. ASSUME NEW r \in Readers, Reader(r) PROVE TypeOK'
    <2>1. PICK to \in {"check", "select", "read", "deliver", "ended"} : Goes(r, to)
        BY <1>6 DEF Reader, Check, SelectReturns, ReadData, Delivered
    <2>2. reader' \in [Readers -> {"check", "select", "read", "deliver", "ended"}]
        BY <2>1 DEF Goes
    <2> QED BY <2>1, <2>2 DEF Goes, mainVars, sendVars
<1>7. ASSUME NEW s \in Senders, Sender(s) PROVE TypeOK'
    <2>1. CASE SendPacket(s)
        <3>1. PICK n \in 1..MaxPayload : len' = [len EXCEPT ![s] = n + 2]
            BY <2>1 DEF SendPacket
        <3>2. n + 2 \in 0..MaxPayload + 2
            BY <3>1, PayloadAssumption
        <3>3. len' \in [Senders -> 0..MaxPayload + 2]
            BY <3>1, <3>2
        <3>4. sender' \in [Senders -> {"idle", "check", "write", "refuse", "done"}]
            BY <2>1 DEF SendPacket
        <3>5. 0 \in 0..MaxPayload + 2 /\ 0 \in -1..MaxPayload + 3
            BY PayloadAssumption
        <3>6. sent' \in [Senders -> 0..MaxPayload + 2]
            BY <2>1, <3>5 DEF SendPacket
        <3>7. ret' \in [Senders -> -1..MaxPayload + 3]
            BY <2>1, <3>5 DEF SendPacket
        <3>8. opened' \in [Senders -> BOOLEAN]
            BY <2>1 DEF SendPacket
        <3> QED BY <2>1, <3>3, <3>4, <3>6, <3>7, <3>8 DEF SendPacket, mainVars
    <2>2. CASE SendChecks(s)
        <3>1. sender' \in [Senders -> {"idle", "check", "write", "refuse", "done"}]
            BY <2>2 DEF SendChecks
        <3> QED BY <2>2, <3>1 DEF SendChecks, mainVars
    <2>3. ASSUME NEW x \in -1..MaxPayload + 3, NEW k \in 0..MaxPayload + 2,
                 SendReturns(s, x, k)
          PROVE  TypeOK'
        <3>1. sender' \in [Senders -> {"idle", "check", "write", "refuse", "done"}]
            BY <2>3 DEF SendReturns
        <3>2. ret' \in [Senders -> -1..MaxPayload + 3]
            BY <2>3 DEF SendReturns
        <3>3. sent' \in [Senders -> 0..MaxPayload + 2]
            BY <2>3 DEF SendReturns
        <3> QED BY <2>3, <3>1, <3>2, <3>3 DEF SendReturns, mainVars
    <2>4. -1 \in -1..MaxPayload + 3 /\ 3 \in -1..MaxPayload + 3
          /\ 0 \in 0..MaxPayload + 2
        BY PayloadAssumption
    <2>5. CASE SendWrites(s)
        <3>1. CASE SendReturns(s, -1, 0)
            BY <3>1, <2>3, <2>4
        <3>2. ASSUME NEW k \in 1..len[s], SendReturns(s, k, k) PROVE TypeOK'
            <4>1. len[s] \in 0..MaxPayload + 2
                OBVIOUS
            <4>2. k \in -1..MaxPayload + 3 /\ k \in 0..MaxPayload + 2
                BY <4>1, PayloadAssumption
            <4> QED BY <2>3, <3>2, <4>2
        <3> QED BY <2>5, <3>1, <3>2 DEF SendWrites
    <2>6. CASE SendRefuses(s)
        <3>1. SendReturns(s, -1, 0) \/ SendReturns(s, 3, 0)
            BY <2>6 DEF SendRefuses
        <3> QED BY <3>1, <2>3, <2>4
    <2> QED BY <1>7, <2>1, <2>2, <2>5, <2>6 DEF Sender
<1>8. CASE UNCHANGED vars
    BY <1>8 DEF vars, mainVars, sendVars
<1> QED BY <1>1, <1>2, <1>3, <1>4, <1>5, <1>6, <1>7, <1>8 DEF Next

(* Every variable keeps its type, whatever the threads do.                 *)
THEOREM Typed == Spec => []TypeOK
BY TypeInit, TypeStep, PTL DEF Spec

-----------------------------------------------------------------------------
IInv == TypeOK /\ PortInv /\ ReaderInv

LEMMA InvInit == Init => IInv /\ SendInv /\ SendTells
BY TypeInit DEF Init, IInv, PortInv, ReaderInv, Live, SendInv, SendTells, CLOSED

LEMMA ReaderStep ==
    ASSUME Prompt
    PROVE  IInv /\ [Next]_vars => IInv'
<1> SUFFICES ASSUME IInv, [Next]_vars PROVE PortInv' /\ ReaderInv'
    BY TypeStep DEF IInv
<1> USE DEF IInv, TypeOK, PortInv, ReaderInv, Live, CLOSED
<1>1. CASE UartEvent
    BY <1>1 DEF UartEvent, mainVars
<1>2. CASE EndSleep
    BY <1>2 DEF EndSleep
<1>3. CASE OpenPort
    BY <1>3 DEF OpenPort
<1>4. ASSUME NEW again \in BOOLEAN, BeginClose(again)
      PROVE  PortInv' /\ ReaderInv'
    BY <1>4 DEF BeginClose
<1>5. ASSUME NEW r \in Readers, ListenUart(r) PROVE PortInv' /\ ReaderInv'
    <2>1. \A q \in Readers : ~Live(q)
        BY <1>5 DEF ListenUart
    <2>2. \A q \in Readers : q # r => reader'[q] = reader[q] /\ arg'[q] = arg[q]
        BY <1>5 DEF ListenUart
    <2>3. arg'[r] = listener'
        BY <1>5 DEF ListenUart
    <2> QED BY <1>5, <2>1, <2>2, <2>3 DEF ListenUart
<1>6. ASSUME NEW r \in Readers, Reader(r) PROVE PortInv' /\ ReaderInv'
    <2>1. /\ Live(r)
          /\ \E to \in {"check", "select", "read", "deliver", "ended"} : Goes(r, to)
        BY <1>6 DEF Reader, Check, SelectReturns, ReadData, Delivered
    <2>2. \A q \in Readers : q # r => reader'[q] = reader[q]
        BY <2>1 DEF Goes
    <2> QED BY <2>1, <2>2 DEF Goes, mainVars
<1>7. ASSUME NEW s \in Senders, Sender(s) PROVE PortInv' /\ ReaderInv'
    <2>1. UNCHANGED <<mainVars, uart_fd, listener, reader, arg>>
        BY <1>7 DEF Sender, SendPacket, SendChecks, SendWrites, SendRefuses,
            SendReturns
    <2> QED BY <2>1 DEF mainVars
<1>8. CASE UNCHANGED vars
    BY <1>8 DEF vars, mainVars
<1> QED BY <1>1, <1>2, <1>3, <1>4, <1>5, <1>6, <1>7, <1>8 DEF Next

(* If readers end within the sleep, closing and reopening the port never   *)
(* leaves two of them on it, nor one that reads a closed port or calls a   *)
(* listener that is gone.                                                  *)
THEOREM ReadersApart ==
    ASSUME Prompt
    PROVE  Spec => []ReaderHasItsOwn
<1>1. Init => IInv
    BY InvInit
<1>2. IInv /\ [Next]_vars => IInv'
    BY ReaderStep
<1>3. IInv => ReaderHasItsOwn
    BY DEF IInv, ReaderInv, ReaderHasItsOwn, Live
<1> QED BY <1>1, <1>2, <1>3, PTL DEF Spec

-----------------------------------------------------------------------------
LEMMA SendStep ==
    TypeOK /\ SendInv /\ SendTells /\ [Next]_vars => (SendInv /\ SendTells)'
<1> SUFFICES ASSUME TypeOK, SendInv, SendTells, [Next]_vars,
                    NEW t \in Senders
             PROVE  /\ (sender[t] = "refuse" =>
                            uart_fd = CLOSED \/ (uart_fd = 3 /\ opened[t]))'
                    /\ (sender[t] = "done" =>
                            \/ ret[t] = IF sent[t] = 0 THEN -1 ELSE sent[t]
                            \/ opened[t] /\ sent[t] = 0 /\ ret[t] = 3)'
    BY DEF SendInv, SendTells
<1> USE DEF TypeOK, SendInv, SendTells, CLOSED
<1>1. CASE UNCHANGED <<uart_fd, sendVars>>
    BY <1>1 DEF sendVars
<1>2. CASE EndSleep
    BY <1>2 DEF EndSleep, sendVars
<1>3. CASE OpenPort
    <2>1. opened'[t] /\ uart_fd' \in {-1, 3}
        BY <1>3 DEF OpenPort
    <2> QED BY <1>3, <2>1 DEF OpenPort
<1>4. ASSUME NEW s \in Senders, Sender(s)
      PROVE  /\ (sender[t] = "refuse" =>
                     uart_fd = CLOSED \/ (uart_fd = 3 /\ opened[t]))'
             /\ (sender[t] = "done" =>
                     \/ ret[t] = IF sent[t] = 0 THEN -1 ELSE sent[t]
                     \/ opened[t] /\ sent[t] = 0 /\ ret[t] = 3)'
    <2>1. CASE SendPacket(s)
        BY <2>1 DEF SendPacket
    <2>2. CASE SendChecks(s)
        BY <2>2 DEF SendChecks
    <2>3. CASE SendWrites(s)
        <3>1. ASSUME NEW k \in 1..len[s], SendReturns(s, k, k)
              PROVE  /\ sender'[t] # "refuse" \/ s # t
                     /\ s = t => ret'[t] = sent'[t] /\ sent'[t] # 0
                     /\ s # t => /\ sender'[t] = sender[t] /\ ret'[t] = ret[t]
                                 /\ sent'[t] = sent[t]
                     /\ uart_fd' = uart_fd /\ opened' = opened
            BY <3>1 DEF SendReturns
        <3>2. CASE SendReturns(s, -1, 0)
            BY <3>2 DEF SendReturns
        <3>3. CASE \E k \in 1..len[s] : SendReturns(s, k, k)
            BY <3>1, <3>3
        <3> QED BY <2>3, <3>2, <3>3 DEF SendWrites
    <2>4. CASE SendRefuses(s)
        BY <2>4 DEF SendRefuses, SendReturns
    <2> QED BY <1>4, <2>1, <2>2, <2>3, <2>4 DEF Sender
<1>5. ASSUME \/ UartEvent
             \/ \E again \in BOOLEAN : BeginClose(again)
             \/ \E r \in Readers : ListenUart(r) \/ Reader(r)
      PROVE  UNCHANGED <<uart_fd, sendVars>>
    BY <1>5 DEF UartEvent, BeginClose, ListenUart, Reader, Check,
        SelectReturns, ReadData, Delivered, Goes
<1>6. CASE UNCHANGED vars
    BY <1>6, <1>1 DEF vars
<1> QED BY <1>1, <1>2, <1>3, <1>4, <1>5, <1>6 DEF Next

(* However packets, closes and opens interleave, the caller of send learns *)
(* how much of its packet reached the port.                                *)
THEOREM SendIsHonest == Spec => []SendTells
<1>1. Init => TypeOK /\ SendInv /\ SendTells
    BY TypeInit, InvInit
<1>2. TypeOK /\ SendInv /\ SendTells /\ [Next]_vars
        => (TypeOK /\ SendInv /\ SendTells)'
    BY TypeStep, SendStep
<1> QED BY <1>1, <1>2, PTL DEF Spec
=============================================================================
