--------------------------- MODULE Bt803KeyProofs ---------------------------
(***************************************************************************)
(* Proofs about Bt803Key, for every number of changes of the line and of   *)
(* writes to the sysfs file.                                               *)
(***************************************************************************)
EXTENDS Bt803Key, TLAPS

(* Nobody writes a number wider than a byte to the sysfs file.             *)
ByteStores == StoreValues \subseteq 0..255

(* What the handler has done so far, as long as no write to the sysfs file *)
(* interfered since it started.                                            *)
HandlerInv ==
    ~written =>
        /\ tpc = "idle" => polarity = Not(cur_bt803_status)
        /\ tpc = "toggle" => old = U8(cur_bt803_status)
        /\ tpc \in {"event", "flag", "polarity", "unmask"} =>
              cur_bt803_status = Not(old)
        /\ tpc = "unmask" => polarity = Not(Not(old))

(* The handler runs with the interrupt masked, and a scheduled tasklet has *)
(* not started.                                                            *)
MaskInv ==
    /\ tpc # "idle" => masked
    /\ scheduled => masked /\ tpc = "idle"

-----------------------------------------------------------------------------
(* The state is well typed: the status, the event and the polarity stay    *)
(* bits although the code stores them in ints it negates.                  *)
THEOREM TypeCorrect == Spec => []TypeOK
<1>1. Init => TypeOK
  <2> SUFFICES ASSUME Init
               PROVE  TypeOK
    OBVIOUS
  <2>1. /\ masked \in BOOLEAN /\ scheduled \in BOOLEAN
        /\ written \in BOOLEAN /\ clean \in BOOLEAN
    BY DEF Init
  <2>2. changes \in 0..MaxChanges /\ stores \in 0..MaxStores
    BY BoundAssumption DEF BoundAssumption, Init
  <2> QED
    BY <2>1, <2>2 DEF Init, TypeOK, Status, MCU_WAKEUP, MCU_SLEEP, NoKey
<1>2. TypeOK /\ [Next]_vars => TypeOK'
  <2> SUFFICES ASSUME TypeOK, [Next]_vars
               PROVE  TypeOK'
    OBVIOUS
  <2> USE BoundAssumption, StoreAssumption DEF BoundAssumption, StoreAssumption,
          TypeOK, Status, MCU_WAKEUP, MCU_SLEEP, NoKey, Not
  <2>1. CASE LineChanges
    BY <2>1 DEF LineChanges, sysfsVars, eintVars, taskletVars, threadVars
  <2>2. CASE \E s \in StoreValues : Store(s)
    BY <2>2 DEF Store, lineVars, eintVars, taskletVars, threadVars
  <2>3. CASE Interrupt
    BY <2>3 DEF Interrupt, lineVars, sysfsVars, threadVars
  <2>4. CASE HandlerStarts
    <3>1. cur_bt803_status \in Nat
      OBVIOUS
    <3>2. old' \in 0..255
      BY <2>4, <3>1 DEF HandlerStarts, U8
    <3> QED
      BY <2>4, <3>2 DEF HandlerStarts, lineVars, threadVars
  <2>5. CASE TogglesStatus
    BY <2>5 DEF TogglesStatus, lineVars, sysfsVars, eintVars, threadVars
  <2>6. CASE SetsEvent
    BY <2>6 DEF SetsEvent, lineVars, sysfsVars, eintVars, threadVars
  <2>7. CASE SetsFlag
    BY <2>7 DEF SetsFlag, lineVars, sysfsVars, eintVars, threadVars
  <2>8. CASE SetsPolarity
    BY <2>8 DEF SetsPolarity, lineVars, sysfsVars, threadVars
  <2>9. CASE Unmasks
    <3>1. masked' \in BOOLEAN /\ tpc' = "idle"
      BY <2>9 DEF Unmasks
    <3> QED
      BY <2>9, <3>1 DEF Unmasks, lineVars, sysfsVars, threadVars
  <2>10. CASE ThreadWakes
    BY <2>10 DEF ThreadWakes, lineVars, sysfsVars, eintVars, taskletVars
  <2>11. CASE ComparesWakeup
    BY <2>11 DEF ComparesWakeup, lineVars, sysfsVars, eintVars, taskletVars
  <2>12. CASE ReportsWakeup
    BY <2>12 DEF ReportsWakeup, lineVars, sysfsVars, eintVars, taskletVars
  <2>13. CASE ComparesSleep
    BY <2>13 DEF ComparesSleep, lineVars, sysfsVars, eintVars, taskletVars
  <2>14. CASE ClearsFlag
    BY <2>14 DEF ClearsFlag, lineVars, sysfsVars, eintVars, taskletVars
  <2>15. CASE UNCHANGED vars
    BY <2>15 DEF vars, lineVars, sysfsVars, eintVars, taskletVars, threadVars
  <2> QED
    BY <2>1, <2>2, <2>3, <2>4, <2>5, <2>6, <2>7, <2>8, <2>9, <2>10, <2>11,
       <2>12, <2>13, <2>14, <2>15 DEF Next, Handler, Thread
<1> QED
  BY <1>1, <1>2, PTL DEF Spec

-----------------------------------------------------------------------------
(* The handler runs masked: only it unmasks the interrupt, and only an     *)
(* unmasked interrupt schedules it.                                        *)
LEMMA MaskInvariant == Spec => []MaskInv
<1>1. Init => MaskInv
  BY DEF Init, MaskInv
<1>2. MaskInv /\ [Next]_vars => MaskInv'
  <2> SUFFICES ASSUME MaskInv, [Next]_vars
               PROVE  MaskInv'
    OBVIOUS
  <2>1. CASE LineChanges
    BY <2>1 DEF LineChanges, MaskInv, eintVars, taskletVars
  <2>2. CASE \E s \in StoreValues : Store(s)
    BY <2>2 DEF Store, MaskInv, eintVars, taskletVars
  <2>3. CASE Interrupt
    BY <2>3 DEF Interrupt, MaskInv
  <2>4. CASE HandlerStarts \/ SetsPolarity \/ Unmasks
    BY <2>4 DEF HandlerStarts, SetsPolarity, Unmasks, MaskInv
  <2>5. CASE TogglesStatus \/ SetsEvent \/ SetsFlag
    BY <2>5 DEF TogglesStatus, SetsEvent, SetsFlag, MaskInv, eintVars
  <2>6. CASE Thread
    BY <2>6 DEF Thread, ThreadWakes, ComparesWakeup, ReportsWakeup,
                ComparesSleep, ClearsFlag, MaskInv, eintVars, taskletVars
  <2>7. CASE UNCHANGED vars
    BY <2>7 DEF vars, MaskInv, eintVars, taskletVars
  <2> QED
    BY <2>1, <2>2, <2>3, <2>4, <2>5, <2>6, <2>7 DEF Next, Handler
<1> QED
  BY <1>1, <1>2, PTL DEF Spec

(* The handler's progress is preserved by every step: no other context     *)
(* writes these variables except a sysfs write, which sets `written'.      *)
LEMMA HandlerInvariant ==
    ASSUME ByteStores
    PROVE  Spec => []HandlerInv
<1>1. Init => HandlerInv
  BY DEF Init, HandlerInv, MCU_WAKEUP, Not
<1>2. TypeOK /\ HandlerInv /\ [Next]_vars => HandlerInv'
  <2> SUFFICES ASSUME TypeOK, HandlerInv, [Next]_vars
               PROVE  HandlerInv'
    OBVIOUS
  <2>1. CASE LineChanges
    BY <2>1 DEF LineChanges, HandlerInv, sysfsVars, eintVars, taskletVars
  <2>2. CASE \E s \in StoreValues : Store(s)
    BY <2>2 DEF Store, HandlerInv, eintVars, taskletVars
  <2>3. CASE Interrupt
    BY <2>3 DEF Interrupt, HandlerInv, sysfsVars
  <2>4. CASE HandlerStarts
    BY <2>4 DEF HandlerStarts, HandlerInv
  <2>5. CASE TogglesStatus
    <3>1. cur_bt803_status \in 0..255
      BY DEF TypeOK, ByteStores, Status, MCU_SLEEP, MCU_WAKEUP
    <3>2. U8(cur_bt803_status) = cur_bt803_status
      BY <3>1 DEF U8
    <3> QED
      BY <2>5, <3>2 DEF TogglesStatus, HandlerInv, sysfsVars, eintVars
  <2>6. CASE SetsEvent
    BY <2>6 DEF SetsEvent, HandlerInv, sysfsVars, eintVars
  <2>7. CASE SetsFlag
    BY <2>7 DEF SetsFlag, HandlerInv, sysfsVars, eintVars
  <2>8. CASE SetsPolarity
    BY <2>8 DEF SetsPolarity, HandlerInv, sysfsVars
  <2>9. CASE Unmasks
    BY <2>9 DEF Unmasks, HandlerInv, sysfsVars, Not
  <2>10. CASE Thread
    BY <2>10 DEF Thread, ThreadWakes, ComparesWakeup, ReportsWakeup,
                 ComparesSleep, ClearsFlag, HandlerInv,
                 sysfsVars, eintVars, taskletVars
  <2>11. CASE UNCHANGED vars
    BY <2>11 DEF vars, HandlerInv, sysfsVars, eintVars, taskletVars
  <2> QED
    BY <2>1, <2>2, <2>3, <2>4, <2>5, <2>6, <2>7, <2>8, <2>9, <2>10, <2>11
       DEF Next, Handler
<1> QED
  BY <1>1, <1>2, TypeCorrect, PTL DEF Spec

(* Between runs of the handler the controller waits for the level opposite *)
(* to the recorded status, unless the sysfs file was written since the     *)
(* handler last started, if no number written to it exceeds a byte.        *)
THEOREM Armed ==
    ASSUME ByteStores
    PROVE  Spec => []ArmedForReturn
<1>1. TypeOK /\ HandlerInv => ArmedForReturn
  BY DEF TypeOK, HandlerInv, ArmedForReturn, Not
<1> QED
  BY <1>1, TypeCorrect, HandlerInvariant, PTL

(* The tasklet is never scheduled while it runs: one change of the line    *)
(* toggles the status once.                                                *)
THEOREM OneRun == Spec => []OneRunPerInterrupt
<1>1. MaskInv => OneRunPerInterrupt
  BY DEF MaskInv, OneRunPerInterrupt
<1> QED
  BY <1>1, MaskInvariant, PTL

-----------------------------------------------------------------------------
(* Where the event of a clean notification is: signalled, in the thread's  *)
(* hands, or reported.                                                     *)
DeliveryInv ==
    clean /\ tpc # "flag" =>
        \/ kpc = "wait" /\ send_event_flag = 1
        \/ kpc = "wakeup"
        \/ kpc = "report" /\ bt803_key_event = MCU_WAKEUP
        \/ kpc = "sleep" /\ bt803_key_event = MCU_SLEEP
        \/ kpc \in {"clear", "wait"} /\ lastKey = bt803_key_event

(* A notification that finds the thread waiting is delivered, whatever     *)
(* else happens to the line and to the sysfs file.                         *)
THEOREM Delivered == Spec => []CleanEventDelivered
<1>1. Init => DeliveryInv
  BY DEF Init, DeliveryInv
<1>2. TypeOK /\ DeliveryInv /\ [Next]_vars => DeliveryInv'
  <2> SUFFICES ASSUME TypeOK, DeliveryInv, [Next]_vars
               PROVE  DeliveryInv'
    OBVIOUS
  <2> USE DEF DeliveryInv
  <2>1. CASE LineChanges \/ Interrupt \/ \E s \in StoreValues : Store(s)
    BY <2>1 DEF LineChanges, Interrupt, Store, taskletVars, threadVars
  <2>2. CASE HandlerStarts \/ TogglesStatus \/ SetsPolarity \/ Unmasks
    BY <2>2 DEF HandlerStarts, TogglesStatus, SetsPolarity, Unmasks, threadVars
  <2>3. CASE SetsEvent
    BY <2>3 DEF SetsEvent
  <2>4. CASE SetsFlag
    BY <2>4 DEF SetsFlag, threadVars
  <2>5. CASE ThreadWakes
    BY <2>5 DEF ThreadWakes, taskletVars
  <2>6. CASE ComparesWakeup
    BY <2>6 DEF ComparesWakeup, taskletVars, TypeOK, Status
  <2>7. CASE ReportsWakeup
    BY <2>7 DEF ReportsWakeup, taskletVars
  <2>8. CASE ComparesSleep
    BY <2>8 DEF ComparesSleep, taskletVars
  <2>9. CASE ClearsFlag
    BY <2>9 DEF ClearsFlag, taskletVars
  <2>10. CASE UNCHANGED vars
    BY <2>10 DEF vars, taskletVars, threadVars
  <2> QED
    BY <2>1, <2>2, <2>3, <2>4, <2>5, <2>6, <2>7, <2>8, <2>9, <2>10
       DEF Next, Handler, Thread
<1>3. DeliveryInv => CleanEventDelivered
  BY DEF DeliveryInv, CleanEventDelivered, AtRest
<1> QED
  BY <1>1, <1>2, <1>3, TypeCorrect, PTL DEF Spec
=============================================================================
