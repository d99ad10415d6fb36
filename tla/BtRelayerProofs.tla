-------------------------- MODULE BtRelayerProofs --------------------------
(* What holds of the relayer for every buffer size, payload and chip.      *)
EXTENDS BtRelayer, TLAPS

(* Where the application thread can be while each monitor thread lives.    *)
LiveAt == [tx |-> {"createRx", "clear", "started", "joinTx"},
           rx |-> {"clear", "started", "joinTx", "joinRx"}]

(* The devices are open exactly while the application thread is between    *)
(* opening and closing them, and it is there while a thread lives.         *)
DeviceInv ==
    /\ main \in {"stopped", "open", "createTx", "createRx", "clear",
                 "started", "joinTx", "joinRx", "close", "deinit"}
    /\ thread \in [Threads -> {"none", "check", "first", "rest", "write", "ended"}]
    /\ chip \in BOOLEAN /\ (chip <=> main # "stopped")
    /\ uart \in BOOLEAN /\ (uart <=> main \notin {"stopped", "open", "deinit"})
    /\ \A t \in Threads : Live(t) => main \in LiveAt[t]

(* A step of a thread moves no other thread, leaves the application thread *)
(* and the devices alone, and does not bring an ended thread back.         *)
LEMMA ThreadStep ==
    ASSUME NEW t \in Threads, DeviceInv, Monitor(t)
    PROVE  /\ UNCHANGED <<main, deviceVars>>
           /\ Live(t)
           /\ \E p \in {"check", "first", "rest", "write", "ended"} :
                 thread' = [thread EXCEPT ![t] = p]
<1> USE DEF Live, DeviceInv
<1>1. CASE Check(t)
  BY <1>1 DEF Check, deviceVars
<1>2. CASE Silence(t)
  BY <1>2 DEF Silence, Retry, deviceVars
<1>3. CASE Garbage(t)
  BY <1>3 DEF Garbage, Retry, GiveUp, deviceVars
<1>4. CASE Broken(t)
  BY <1>4 DEF Broken, GiveUp, deviceVars
<1>5. CASE Write(t)
  BY <1>5 DEF Write, Retry, GiveUp, deviceVars
<1>6. CASE \E type \in PacketTypes(t) : FirstByte(t, type)
  BY <1>6 DEF FirstByte, deviceVars
<1>7. CASE \E n \in Payloads : Rest(t, n) \/ TooLong(t, n)
  BY <1>7 DEF Rest, TooLong, GiveUp, deviceVars
<1> QED
  BY <1>1, <1>2, <1>3, <1>4, <1>5, <1>6, <1>7 DEF Monitor

(* The devices are open whenever a thread may use them.                    *)
LEMMA DeviceInvariant == Spec => []DeviceInv
<1>1. Init => DeviceInv
  BY DEF Init, DeviceInv, Live, Threads
<1>2. DeviceInv /\ [Next]_vars => DeviceInv'
  <2> SUFFICES ASSUME DeviceInv, [Next]_vars
               PROVE  DeviceInv'
    OBVIOUS
  <2> USE DEF DeviceInv, Live, LiveAt, Threads
  <2>1. CASE EM_BT_init
    BY <2>1 DEF EM_BT_init, threadVars
  <2>2. CASE OpenPort
    BY <2>2 DEF OpenPort, threadVars
  <2>3. CASE CreateTx
    BY <2>3 DEF CreateTx, CreateThread, deviceVars
  <2>4. CASE CreateRx
    BY <2>4 DEF CreateRx, CreateThread, deviceVars
  <2>5. CASE ClearExit
    BY <2>5 DEF ClearExit, deviceVars, threadVars
  <2>6. CASE AskExit
    BY <2>6 DEF AskExit, deviceVars, threadVars
  <2>7. CASE JoinTx
    BY <2>7 DEF JoinTx, Join, deviceVars, threadVars
  <2>8. CASE JoinRx
    BY <2>8 DEF JoinRx, Join, deviceVars, threadVars
  <2>9. CASE ClosePort
    BY <2>9 DEF ClosePort, threadVars
  <2>10. CASE EM_BT_deinit
    BY <2>10 DEF EM_BT_deinit, threadVars
  <2>11. ASSUME NEW t \in Threads, Monitor(t)
         PROVE  DeviceInv'
    <3>1. /\ UNCHANGED <<main, deviceVars>>
          /\ Live(t)
          /\ \E p \in {"check", "first", "rest", "write", "ended"} :
                thread' = [thread EXCEPT ![t] = p]
      BY <2>11, ThreadStep
    <3> QED
      BY <3>1 DEF deviceVars
  <2>12. CASE UNCHANGED vars
    BY <2>12 DEF vars, deviceVars, threadVars
  <2> QED
    BY <2>1, <2>2, <2>3, <2>4, <2>5, <2>6, <2>7, <2>8, <2>9, <2>10, <2>11, <2>12
       DEF Next, Caller
<1> QED
  BY <1>1, <1>2, PTL DEF Spec

(* RELAYER_exit waits for both threads before it closes what they use.     *)
THEOREM DevicesOutlive == Spec => []DevicesOutliveThreads
<1>1. DeviceInv => DevicesOutliveThreads
  BY DEF DeviceInv, DevicesOutliveThreads, LiveAt, Threads
<1> QED
  BY <1>1, DeviceInvariant, PTL

(* A failed start and an exit leave the chip off and the port closed.      *)
THEOREM Stopped == Spec => []StoppedIsOff
<1>1. DeviceInv => StoppedIsOff
  BY DEF DeviceInv, StoppedIsOff
<1> QED
  BY <1>1, DeviceInvariant, PTL

-----------------------------------------------------------------------------
(* What a thread holds while it reads the rest of a packet, and when it    *)
(* hands the packet on.                                                    *)
PacketInv ==
    \A t \in Threads :
        /\ thread[t] = "rest" => packet[t].type \in PacketTypes(t)
        /\ thread[t] = "write" =>
              /\ packet[t].type \in PacketTypes(t) \ {"debug"}
              /\ packet[t].len \in HeaderLen[t][packet[t].type] .. BufLen

Shape ==
    /\ thread \in [Threads -> {"none", "check", "first", "rest", "write", "ended"}]
    /\ packet \in [Threads -> [type : {"none"} \cup PacketTypes("tx") \cup PacketTypes("rx"),
                               len : Int]]

LEMMA Headers ==
    ASSUME NEW t \in Threads, NEW type \in PacketTypes(t)
    PROVE  HeaderLen[t][type] \in 3..5
BY DEF Threads, PacketTypes, HeaderLen

LEMMA Fits ==
    ASSUME NEW h \in 3..5, NEW n \in Nat, h + n <= BufLen
    PROVE  h + n \in Int /\ h + n \in h .. BufLen
BY BufLenAssumption DEF BufLenAssumption

(* A packet read to its end fits the buffer, and a debug event is not      *)
(* handed on.                                                              *)
LEMMA RestStep ==
    ASSUME Shape, PacketInv, NEW t \in Threads, NEW n \in Payloads, Rest(t, n)
    PROVE  Shape' /\ PacketInv'
<1> PICK ty : ty = packet[t].type
  OBVIOUS
<1> PICK h : h = HeaderLen[t][ty]
  OBVIOUS
<1>1. ty \in PacketTypes(t)
  BY DEF Rest, PacketInv
<1>2. h \in 3..5
  BY <1>1, Headers
<1>3. n \in Nat
  BY PayloadAssumption DEF PayloadAssumption
<1>4. h + n <= BufLen
  BY DEF Rest
<1>5. h + n \in Int /\ h + n \in h .. BufLen
  BY <1>2, <1>3, <1>4, Fits
<1>6. packet' = [packet EXCEPT ![t].len = h + n]
  BY DEF Rest
<1>7. \/ thread' = [thread EXCEPT ![t] = "first"]
      \/ thread' = [thread EXCEPT ![t] = "write"] /\ ty # "debug"
  BY DEF Rest
<1>8. PICK whole \in Int : whole = h + n
  BY <1>5
<1>9. packet' = [packet EXCEPT ![t].len = whole] /\ whole \in HeaderLen[t][ty] .. BufLen
  BY <1>5, <1>6, <1>8
<1>10. ty \in {"none"} \cup PacketTypes("tx") \cup PacketTypes("rx")
  BY <1>1 DEF Threads
<1>11. /\ packet'[t].type = ty /\ packet'[t].len = whole
       /\ \A u \in Threads : u # t => packet'[u] = packet[u]
  BY <1>9 DEF Shape
<1>12. packet' \in [Threads -> [type : {"none"} \cup PacketTypes("tx") \cup PacketTypes("rx"),
                               len : Int]]
  BY <1>9 DEF Shape
<1>13. thread' \in [Threads -> {"none", "check", "first", "rest", "write", "ended"}]
  BY <1>7 DEF Shape
<1>14. ASSUME NEW u \in Threads
       PROVE  /\ (thread[u] = "rest" => packet[u].type \in PacketTypes(u))'
              /\ (thread[u] = "write" =>
                    /\ packet[u].type \in PacketTypes(u) \ {"debug"}
                    /\ packet[u].len \in HeaderLen[u][packet[u].type] .. BufLen)'
  <2>1. CASE u = t
    <3>1. thread'[t] = "first" \/ (thread'[t] = "write" /\ ty # "debug")
      BY <1>7 DEF Shape
    <3> QED BY <1>1, <1>9, <1>11, <2>1, <3>1
  <2>2. CASE u # t
    <3>1. thread'[u] = thread[u] /\ packet'[u] = packet[u]
      BY <1>7, <1>11, <2>2 DEF Shape
    <3> QED BY <3>1 DEF PacketInv
  <2> QED BY <2>1, <2>2
<1> QED BY <1>12, <1>13, <1>14 DEF Shape, PacketInv

(* What the steps of a thread t do to its packet, and to no other.         *)
LEMMA PacketStep ==
    ASSUME Shape, PacketInv, NEW t \in Threads, Monitor(t)
    PROVE  Shape' /\ PacketInv'
<1> USE DEF Shape, PacketInv
<1>1. ASSUME NEW p \in {"check", "first", "rest", "ended"},
             p = "rest" => thread[t] = "rest",
             thread' = [thread EXCEPT ![t] = p], packet' = packet
      PROVE  Shape' /\ PacketInv'
  BY <1>1
<1>2. CASE Check(t)
  <2>1. packet' \in [Threads -> [type : {"none"} \cup PacketTypes("tx") \cup PacketTypes("rx"),
                                len : Int]]
    BY <1>2 DEF Check, Nothing
  <2>2. PICK p \in {"ended", "first"} : thread' = [thread EXCEPT ![t] = p]
    BY <1>2 DEF Check
  <2>3. \A u \in Threads : u # t => packet'[u] = packet[u] /\ thread'[u] = thread[u]
    BY <1>2, <2>2 DEF Check
  <2> QED BY <2>1, <2>2, <2>3
<1>3. CASE Silence(t)
  <2>1. packet' = packet
    BY <1>3 DEF Silence
  <2>2. CASE UNCHANGED thread
    BY <2>1, <2>2
  <2>3. CASE Retry(t)
    BY <1>1, <2>1, <2>3 DEF Retry
  <2> QED BY <1>3, <2>2, <2>3 DEF Silence
<1>4. CASE Garbage(t) \/ Broken(t) \/ Write(t)
  BY <1>1, <1>4 DEF Garbage, Broken, Write, Retry, GiveUp
<1>5. ASSUME NEW type \in PacketTypes(t), FirstByte(t, type)
      PROVE  Shape' /\ PacketInv'
  <2>1. type \in PacketTypes("tx") \cup PacketTypes("rx")
    BY DEF Threads
  <2>2. packet'[t].type = type
    BY <1>5 DEF FirstByte
  <2>3. packet' \in [Threads -> [type : {"none"} \cup PacketTypes("tx") \cup PacketTypes("rx"),
                                len : Int]]
    BY <1>5, <2>1 DEF FirstByte
  <2>4. thread' = [thread EXCEPT ![t] = "rest"]
    BY <1>5 DEF FirstByte
  <2>5. \A u \in Threads : u # t => packet'[u] = packet[u] /\ thread'[u] = thread[u]
    BY <1>5 DEF FirstByte
  <2> QED BY <2>2, <2>3, <2>4, <2>5
<1>6. ASSUME NEW n \in Payloads, Rest(t, n) PROVE Shape' /\ PacketInv'
  BY <1>6, RestStep
<1>7. ASSUME NEW n \in Payloads, TooLong(t, n) PROVE Shape' /\ PacketInv'
  BY <1>1, <1>7 DEF TooLong, GiveUp
<1> QED BY <1>2, <1>3, <1>4, <1>5, <1>6, <1>7 DEF Monitor

(* No step breaks what the threads hold.                                   *)
LEMMA PacketInvariant == Spec => [](Shape /\ PacketInv)
<1>1. Init => Shape /\ PacketInv
  <2> SUFFICES ASSUME Init PROVE Shape /\ PacketInv
    OBVIOUS
  <2>1. packet \in [Threads -> [type : {"none"} \cup PacketTypes("tx") \cup PacketTypes("rx"),
                               len : Int]]
    BY DEF Init, Nothing
  <2> QED BY <2>1 DEF Init, Shape, PacketInv
<1>2. Shape /\ PacketInv /\ [Next]_vars => (Shape /\ PacketInv)'
  <2> SUFFICES ASSUME Shape, PacketInv, [Next]_vars PROVE (Shape /\ PacketInv)'
    OBVIOUS
  <2>1. ASSUME NEW t \in Threads, CreateThread(t, main, main')
        PROVE  (Shape /\ PacketInv)'
    BY <2>1 DEF CreateThread, Shape, PacketInv
  <2>2. CASE CreateTx \/ CreateRx
    BY <2>1, <2>2 DEF CreateTx, CreateRx, CreateThread, Threads
  <2>3. CASE UNCHANGED threadVars
    BY <2>3 DEF threadVars, Shape, PacketInv
  <2>4. ASSUME \/ EM_BT_init \/ OpenPort \/ ClearExit \/ AskExit \/ JoinTx
               \/ JoinRx \/ ClosePort \/ EM_BT_deinit
        PROVE  UNCHANGED threadVars
    BY <2>4 DEF EM_BT_init, OpenPort, ClearExit, AskExit, JoinTx, JoinRx, Join,
        ClosePort, EM_BT_deinit
  <2>5. CASE \E t \in Threads : Monitor(t)
    BY <2>5, PacketStep
  <2> QED
    BY <2>2, <2>3, <2>4, <2>5 DEF Next, Caller, vars
<1> QED
  BY <1>1, <1>2, PTL DEF Spec

(* A packet is handed on complete, with a type its receiver accepts, and   *)
(* never longer than the buffer, for every buffer and every declared       *)
(* length.                                                                 *)
THEOREM Whole == Spec => []RelayedWhole
<1>1. PacketInv => RelayedWhole
  BY DEF PacketInv, RelayedWhole
<1> QED
  BY <1>1, PacketInvariant, PTL

-----------------------------------------------------------------------------
(* The counters stay within their bounds: a read that is still waiting for *)
(* its first byte has an attempt left, and a debug event that is being     *)
(* read is not one too many.                                               *)
CountInv ==
    /\ fExit \in BOOLEAN /\ cause \in {"none", "asked", "failed"}
    /\ \A t \in Threads : packet[t].len >= 0
    /\ count \in [Threads -> 0..Attempts]
    /\ \A t \in Threads : thread[t] = "first" => count[t] < Attempts
    /\ chatter \in 0..MaxDebug
    /\ thread["rx"] = "rest" /\ packet["rx"].type = "debug" => chatter < MaxDebug

(* A thread goes on, or gives up, with the packet and the counters it has. *)
LEMMA CountMoves ==
    ASSUME Shape, CountInv, NEW t \in Threads, NEW p \in {"check", "ended", "write"},
           thread' = [thread EXCEPT ![t] = p], UNCHANGED <<packet, count, chatter>>,
           fExit' \in BOOLEAN, cause' \in {"none", "asked", "failed"}
    PROVE  CountInv'
<1>1. \A u \in Threads : thread'[u] \in {"first", "rest"} => thread'[u] = thread[u]
  BY DEF Shape
<1> QED
  BY <1>1 DEF CountInv, Threads

LEMMA CountRest ==
    ASSUME Shape, PacketInv, CountInv, NEW t \in Threads, NEW n \in Payloads, Rest(t, n)
    PROVE  CountInv'
<1> PICK h : h = HeaderLen[t][packet[t].type]
  OBVIOUS
<1>1. h \in 3..5 /\ n \in Nat
  BY Headers, PayloadAssumption DEF PayloadAssumption, Rest, PacketInv
<1>2. packet' = [packet EXCEPT ![t].len = h + n]
  BY DEF Rest
<1>3. PICK whole \in Nat : whole = h + n
  BY <1>1
<1>4. \A u \in Threads : packet'[u].len >= 0 /\ packet'[u].type = packet[u].type
  BY <1>2, <1>3 DEF Shape, CountInv
<1>5. UNCHANGED <<fExit, cause>>
  BY DEF Rest
<1>6. CASE packet[t].type = "debug"
  <2>1. t = "rx"
    BY <1>6 DEF Rest, PacketInv, PacketTypes, HeaderLen, Threads
  <2>2. chatter \in 0..MaxDebug /\ chatter < MaxDebug /\ MaxDebug \in Nat
    BY <1>6, <2>1, DebugAssumption DEF Rest, CountInv, DebugAssumption
  <2>3. chatter' \in 0..MaxDebug
    BY <1>6, <2>2 DEF Rest
  <2>4. /\ thread'["rx"] = "first" /\ count' = [count EXCEPT !["rx"] = 0]
        /\ \A u \in Threads : u # "rx" => thread'[u] = thread[u]
    BY <1>6, <2>1 DEF Rest, Shape
  <2>5. /\ count' \in [Threads -> 0..Attempts]
        /\ \A u \in Threads : thread'[u] = "first" => count'[u] < Attempts
    BY <2>1, <2>4 DEF CountInv, Attempts
  <2> QED
    BY <1>4, <1>5, <2>3, <2>4, <2>5 DEF CountInv
<1>7. CASE packet[t].type # "debug"
  <2>1. UNCHANGED <<count, chatter>> /\ thread' = [thread EXCEPT ![t] = "write"]
    BY <1>7 DEF Rest
  <2>2. \A u \in Threads : thread'[u] \in {"first", "rest"} => thread'[u] = thread[u]
    BY <2>1 DEF Shape
  <2> QED
    BY <1>4, <1>5, <2>1, <2>2 DEF CountInv, Threads
<1> QED
  BY <1>6, <1>7

LEMMA CountMonitor ==
    ASSUME Shape, PacketInv, CountInv, NEW t \in Threads, Monitor(t)
    PROVE  CountInv'
<1>1. CASE Check(t)
  <2>1. /\ packet' = [packet EXCEPT ![t] = Nothing] /\ count' = [count EXCEPT ![t] = 0]
        /\ chatter' = 0 \/ chatter' = chatter
        /\ UNCHANGED <<fExit, cause>>
        /\ \A u \in Threads : thread'[u] = "first" => u = t \/ thread[u] = "first"
        /\ \A u \in Threads : thread'[u] = "rest" => u # t /\ thread[u] = "rest"
    BY <1>1 DEF Check, Shape
  <2>2. \A u \in Threads : packet'[u].len >= 0 /\ (u # t => packet'[u] = packet[u])
    BY <2>1 DEF Nothing, Shape, CountInv
  <2>3. /\ count' \in [Threads -> 0..Attempts]
        /\ \A u \in Threads : thread'[u] = "first" => count'[u] < Attempts
    BY <2>1 DEF CountInv, Attempts
  <2>4. chatter' \in 0..MaxDebug
    BY <2>1, DebugAssumption DEF CountInv, DebugAssumption
  <2>5. thread'["rx"] = "rest" /\ packet'["rx"].type = "debug" => chatter' < MaxDebug
    BY <1>1, <2>1, <2>2 DEF Check, CountInv, Threads
  <2> QED
    BY <2>1, <2>2, <2>3, <2>4, <2>5 DEF CountInv
<1>2. CASE Silence(t)
  <2>1. /\ count[t] \in 0..Attempts /\ count[t] < Attempts
        /\ count' = [count EXCEPT ![t] = @ + 1] /\ UNCHANGED <<packet, chatter, fExit, cause>>
    BY <1>2 DEF Silence, CountInv, Retry
  <2>2. count' \in [Threads -> 0..Attempts] /\ count'[t] = count[t] + 1
    BY <2>1 DEF CountInv, Attempts
  <2>3. \/ count'[t] < Attempts /\ UNCHANGED thread
        \/ thread' = [thread EXCEPT ![t] = "check"]
    BY <1>2 DEF Silence, Retry
  <2>4. \A u \in Threads : u # t => count'[u] = count[u]
    BY <2>1 DEF CountInv
  <2>5. /\ \A u \in Threads : thread'[u] = "first" => thread[u] = "first" /\ (u = t => count'[t] < Attempts)
        /\ \A u \in Threads : thread'[u] = "rest" => thread[u] = "rest"
    BY <2>3 DEF Shape
  <2> QED
    BY <2>1, <2>2, <2>4, <2>5 DEF CountInv, Threads
<1>3. CASE Garbage(t)
  BY <1>3, CountMoves DEF Garbage, Retry, GiveUp, CountInv
<1>4. CASE Broken(t)
  BY <1>4, CountMoves DEF Broken, GiveUp
<1>5. CASE Write(t)
  BY <1>5, CountMoves DEF Write, Retry, GiveUp, CountInv
<1>6. ASSUME NEW type \in PacketTypes(t), FirstByte(t, type) PROVE CountInv'
  <2>1. /\ packet' = [packet EXCEPT ![t] = [type |-> type, len |-> 1]]
        /\ thread' = [thread EXCEPT ![t] = "rest"]
        /\ UNCHANGED <<count, chatter, fExit, cause>>
        /\ type = "debug" => chatter < MaxDebug
    BY <1>6 DEF FirstByte
  <2>2. \A u \in Threads : packet'[u].len >= 0
    BY <2>1 DEF Shape, CountInv
  <2>3. \A u \in Threads : u # t => thread'[u] = thread[u] /\ packet'[u] = packet[u]
    BY <2>1
  <2>4. thread'[t] = "rest" /\ packet'[t].type = type
    BY <2>1 DEF Shape
  <2> QED
    BY <2>1, <2>2, <2>3, <2>4 DEF CountInv, Threads
<1>7. ASSUME NEW n \in Payloads, Rest(t, n) PROVE CountInv'
  BY <1>7, CountRest
<1>8. ASSUME NEW n \in Payloads, TooLong(t, n) PROVE CountInv'
  BY <1>8, CountMoves DEF TooLong, GiveUp
<1> QED
  BY <1>1, <1>2, <1>3, <1>4, <1>5, <1>6, <1>7, <1>8 DEF Monitor

(* Every variable of the relayer keeps its type: no read is tried more     *)
(* often than the code allows, and no length is negative.                  *)
THEOREM TypeCorrect == Spec => []TypeOK
<1>1. Init => CountInv
  <2> SUFFICES ASSUME Init PROVE CountInv
    OBVIOUS
  <2>1. chatter \in 0..MaxDebug
    BY DebugAssumption DEF Init, DebugAssumption
  <2>2. \A t \in Threads : packet[t].len >= 0 /\ thread[t] = "none"
    BY DEF Init, Nothing
  <2>3. count \in [Threads -> 0..Attempts]
    BY DEF Init, Attempts
  <2> QED
    BY <2>1, <2>2, <2>3 DEF Init, CountInv, Threads
<1>2. Shape /\ PacketInv /\ CountInv /\ [Next]_vars => CountInv'
  <2> SUFFICES ASSUME Shape, PacketInv, CountInv, [Next]_vars PROVE CountInv'
    OBVIOUS
  <2>1. ASSUME NEW t \in Threads, CreateThread(t, main, main') PROVE CountInv'
    <3>1. \A u \in Threads : thread'[u] \in {"first", "rest"} => thread'[u] = thread[u]
      BY <2>1 DEF CreateThread, Shape
    <3> QED
      BY <2>1, <3>1 DEF CreateThread, CountInv, Threads
  <2>2. CASE CreateTx \/ CreateRx
    BY <2>1, <2>2 DEF CreateTx, CreateRx, CreateThread, Threads
  <2>3. ASSUME UNCHANGED threadVars, fExit' \in BOOLEAN, cause' \in {"none", "asked", "failed"}
        PROVE  CountInv'
    BY <2>3 DEF threadVars, CountInv
  <2>4. CASE \/ EM_BT_init \/ OpenPort \/ ClearExit \/ AskExit \/ JoinTx
             \/ JoinRx \/ ClosePort \/ EM_BT_deinit
    BY <2>3, <2>4 DEF EM_BT_init, OpenPort, ClearExit, AskExit, JoinTx, JoinRx, Join,
        ClosePort, EM_BT_deinit, CountInv
  <2>5. CASE \E t \in Threads : Monitor(t)
    BY <2>5, CountMonitor
  <2>6. CASE UNCHANGED vars
    BY <2>3, <2>6 DEF vars, CountInv
  <2> QED
    BY <2>2, <2>4, <2>5, <2>6 DEF Next, Caller
<1>3. DeviceInv /\ Shape /\ CountInv => TypeOK
  <2> SUFFICES ASSUME DeviceInv, Shape, CountInv PROVE TypeOK
    OBVIOUS
  <2> DEFINE Types == {"none"} \cup PacketTypes("tx") \cup PacketTypes("rx")
  <2>1. /\ packet \in [Threads -> [type : Types, len : Int]]
        /\ \A t \in Threads : packet[t].len >= 0
    BY DEF Shape, CountInv
  <2>2. ASSUME NEW t \in Threads PROVE packet[t] \in [type : Types, len : Nat]
    <3> HIDE DEF Types
    <3> QED  BY <2>1
  <2>3. packet \in [Threads -> [type : Types, len : Nat]]
    <3> HIDE DEF Types
    <3> QED  BY <2>1, <2>2
  <2> QED
    <3>1. packet \in [Threads -> [type : {"none"} \cup PacketTypes("tx") \cup PacketTypes("rx"),
                                  len : Nat]]
      BY <2>3
    <3>2. /\ main \in {"stopped", "open", "createTx", "createRx", "clear",
                       "started", "joinTx", "joinRx", "close", "deinit"}
          /\ chip \in BOOLEAN /\ uart \in BOOLEAN
          /\ thread \in [Threads -> {"none", "check", "first", "rest", "write", "ended"}]
      BY DEF DeviceInv
    <3>3. /\ fExit \in BOOLEAN /\ cause \in {"none", "asked", "failed"}
          /\ count \in [Threads -> 0..Attempts] /\ chatter \in 0..MaxDebug
      BY DEF CountInv
    <3> QED
      BY <3>1, <3>2, <3>3, Zenon DEF TypeOK
<1> QED
  BY <1>1, <1>2, <1>3, DeviceInvariant, PacketInvariant, PTL DEF Spec
=============================================================================
