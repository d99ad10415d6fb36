------------------------------ MODULE Bt803Key ------------------------------
(***************************************************************************)
(* The wake-up line of the BT803 bluetooth module (bt803_driver.c): a      *)
(* level-sensitive interrupt (EINT) schedules a tasklet, the tasklet       *)
(* toggles cur_bt803_status and notifies a kernel thread, the thread       *)
(* reports KEY_WAKEUP or KEY_SLEEP to the input layer.  Three contexts     *)
(* share cur_bt803_status, bt803_key_event and send_event_flag without a   *)
(* lock; a world-writable sysfs file writes cur_bt803_status as well.      *)
(***************************************************************************)
EXTENDS Integers

CONSTANTS
    MaxChanges,     \* bound on the changes of the line
    MaxStores,      \* bound on the writes to the sysfs file
    StoreValues     \* the numbers written to it

ASSUME BoundAssumption == MaxChanges \in Nat /\ MaxStores \in Nat
ASSUME StoreAssumption == StoreValues \subseteq Nat

MCU_SLEEP  == 0
MCU_WAKEUP == 1
Status == {MCU_SLEEP, MCU_WAKEUP}
NoKey  == 2

(* C truth values of a status, and its truncation to a byte.               *)
Not(x) == IF x = 0 THEN 1 ELSE 0
U8(x)  == x % 256

VARIABLES
    line,       \* level of the line the BT803 drives (external)
    polarity,   \* level the EINT controller triggers on (external)
    masked,     \* is the EINT masked? (external)
    scheduled,  \* is bt803_tasklet scheduled?
    tpc,        \* where bt803_eint_handler is
    old,        \* its old_bt803_state
    cur_bt803_status, bt803_key_event, send_event_flag,
    kpc,        \* where the thread sendKeyEvent is
    lastKey,    \* the key reported last (external)
    written,    \* was the sysfs file written since the handler last started?
    clean,      \* was the thread waiting during the last notification?
    changes, stores

lineVars    == <<line, changes>>
sysfsVars   == <<written, stores>>
eintVars    == <<polarity, masked>>
taskletVars == <<scheduled, tpc, old>>
threadVars  == <<kpc, lastKey>>
vars == <<lineVars, sysfsVars, eintVars, taskletVars, threadVars, clean,
          cur_bt803_status, bt803_key_event, send_event_flag>>

(* The driver registers the EINT for the low level while its status is     *)
(* MCU_WAKEUP.                                                             *)
Init ==
    /\ line \in Status
    /\ polarity = 0 /\ masked = FALSE
    /\ scheduled = FALSE /\ tpc = "idle" /\ old = MCU_WAKEUP
    /\ cur_bt803_status = MCU_WAKEUP
    /\ bt803_key_event = 0
    /\ send_event_flag = 0
    /\ kpc = "wait" /\ lastKey = NoKey
    /\ written = FALSE /\ clean = FALSE
    /\ changes = 0 /\ stores = 0

-----------------------------------------------------------------------------
(* The BT803 goes to sleep or wakes up.                                    *)
LineChanges ==
    /\ changes < MaxChanges
    /\ line' = 1 - line
    /\ changes' = changes + 1
    /\ UNCHANGED <<sysfsVars, eintVars, taskletVars, threadVars, clean,
                   cur_bt803_status, bt803_key_event, send_event_flag>>

(* bt803_status_info_store: whoever writes the file sets the status, to    *)
(* any number.                                                             *)
Store(s) ==
    /\ stores < MaxStores
    /\ cur_bt803_status' = s
    /\ written' = TRUE
    /\ stores' = stores + 1
    /\ UNCHANGED <<lineVars, eintVars, taskletVars, threadVars, clean,
                   bt803_key_event, send_event_flag>>

(* The controller delivers the interrupt while the line is at the level it *)
(* triggers on.  It masks the line itself: the handler is registered       *)
(* without automatic unmasking, and unmasks when it is done.               *)
Interrupt ==
    /\ ~masked /\ line = polarity
    /\ masked' = TRUE
    /\ scheduled' = TRUE
    /\ UNCHANGED <<lineVars, sysfsVars, polarity, tpc, old, threadVars, clean,
                   cur_bt803_status, bt803_key_event, send_event_flag>>

-----------------------------------------------------------------------------
(* bt803_eint_handler, one access to shared state at a time.               *)
HandlerStarts ==
    /\ tpc = "idle" /\ scheduled
    /\ scheduled' = FALSE
    /\ old' = U8(cur_bt803_status)
    /\ masked' = TRUE
    /\ written' = FALSE
    /\ tpc' = "toggle"
    /\ UNCHANGED <<lineVars, stores, polarity, threadVars, clean,
                   cur_bt803_status, bt803_key_event, send_event_flag>>

TogglesStatus_Bitwise ==
    /\ tpc = "toggle"
    /\ cur_bt803_status' = -1 - cur_bt803_status
    /\ tpc' = "event"
    /\ UNCHANGED <<lineVars, sysfsVars, eintVars, scheduled, old, threadVars, clean,
                   bt803_key_event, send_event_flag>>

TogglesStatus_Unmasks ==
    /\ tpc = "toggle"
    /\ cur_bt803_status' = Not(cur_bt803_status)
    /\ masked' = FALSE
    /\ tpc' = "event"
    /\ UNCHANGED <<lineVars, sysfsVars, polarity, scheduled, old, threadVars, clean,
                   bt803_key_event, send_event_flag>>

TogglesStatus ==
    /\ tpc = "toggle"
    /\ cur_bt803_status' = Not(cur_bt803_status)
    /\ tpc' = "event"
    /\ UNCHANGED <<lineVars, sysfsVars, eintVars, scheduled, old, threadVars, clean,
                   bt803_key_event, send_event_flag>>

(* notify_sendKeyEvent.                                                    *)
SetsEvent ==
    /\ tpc = "event"
    /\ bt803_key_event' = IF cur_bt803_status # 0 THEN MCU_WAKEUP ELSE MCU_SLEEP
    /\ clean' = (kpc = "wait")
    /\ tpc' = "flag"
    /\ UNCHANGED <<lineVars, sysfsVars, eintVars, scheduled, old, threadVars,
                   cur_bt803_status, send_event_flag>>

SetsFlag_Never ==
    /\ tpc = "flag"
    /\ tpc' = "polarity"
    /\ UNCHANGED <<lineVars, sysfsVars, eintVars, scheduled, old, threadVars, clean,
                   cur_bt803_status, bt803_key_event, send_event_flag>>

SetsFlag ==
    /\ tpc = "flag"
    /\ send_event_flag' = 1
    /\ clean' = (clean /\ kpc = "wait")
    /\ tpc' = "polarity"
    /\ UNCHANGED <<lineVars, sysfsVars, eintVars, scheduled, old, threadVars,
                   cur_bt803_status, bt803_key_event>>

SetsPolarity_Fixed ==
    /\ tpc = "polarity"
    /\ polarity' = polarity
    /\ tpc' = "unmask"
    /\ UNCHANGED <<lineVars, sysfsVars, masked, scheduled, old, threadVars, clean,
                   cur_bt803_status, bt803_key_event, send_event_flag>>

SetsPolarity_Current ==
    /\ tpc = "polarity"
    /\ polarity' = Not(Not(cur_bt803_status))
    /\ tpc' = "unmask"
    /\ UNCHANGED <<lineVars, sysfsVars, masked, scheduled, old, threadVars, clean,
                   cur_bt803_status, bt803_key_event, send_event_flag>>

SetsPolarity ==
    /\ tpc = "polarity"
    /\ polarity' = Not(Not(old))
    /\ tpc' = "unmask"
    /\ UNCHANGED <<lineVars, sysfsVars, masked, scheduled, old, threadVars, clean,
                   cur_bt803_status, bt803_key_event, send_event_flag>>

Unmasks ==
    /\ tpc = "unmask"
    /\ masked' = FALSE
    /\ tpc' = "idle"
    /\ UNCHANGED <<lineVars, sysfsVars, polarity, scheduled, old, threadVars, clean,
                   cur_bt803_status, bt803_key_event, send_event_flag>>

Handler ==
    \/ HandlerStarts \/ TogglesStatus \/ SetsEvent \/ SetsFlag
    \/ SetsPolarity \/ Unmasks

-----------------------------------------------------------------------------
(* sendKeyEvent.  The event is not volatile: the second comparison may or  *)
(* may not read it again.                                                  *)
ThreadWakes ==
    /\ kpc = "wait"
    /\ send_event_flag # 0
    /\ kpc' = "wakeup"
    /\ UNCHANGED <<lineVars, sysfsVars, eintVars, taskletVars, lastKey, clean,
                   cur_bt803_status, bt803_key_event, send_event_flag>>

ComparesWakeup ==
    /\ kpc = "wakeup"
    /\ kpc' = IF bt803_key_event = MCU_WAKEUP THEN "report" ELSE "sleep"
    /\ UNCHANGED <<lineVars, sysfsVars, eintVars, taskletVars, lastKey, clean,
                   cur_bt803_status, bt803_key_event, send_event_flag>>

ReportsWakeup ==
    /\ kpc = "report"
    /\ lastKey' = MCU_WAKEUP
    /\ kpc' = "clear"
    /\ UNCHANGED <<lineVars, sysfsVars, eintVars, taskletVars, clean,
                   cur_bt803_status, bt803_key_event, send_event_flag>>

ComparesSleep ==
    /\ kpc = "sleep"
    /\ \E seen \in {bt803_key_event, MCU_SLEEP} :
          lastKey' = IF seen = MCU_SLEEP THEN MCU_SLEEP ELSE lastKey
    /\ kpc' = "clear"
    /\ UNCHANGED <<lineVars, sysfsVars, eintVars, taskletVars, clean,
                   cur_bt803_status, bt803_key_event, send_event_flag>>

ClearsFlag ==
    /\ kpc = "clear"
    /\ send_event_flag' = 0
    /\ kpc' = "wait"
    /\ UNCHANGED <<lineVars, sysfsVars, eintVars, taskletVars, lastKey, clean,
                   cur_bt803_status, bt803_key_event>>

Thread ==
    ThreadWakes \/ ComparesWakeup \/ ReportsWakeup \/ ComparesSleep \/ ClearsFlag

-----------------------------------------------------------------------------
Next ==
    \/ LineChanges
    \/ \E s \in StoreValues : Store(s)
    \/ Interrupt
    \/ Handler
    \/ Thread

Spec == Init /\ [][Next]_vars

(* A level interrupt stays asserted until it is taken; softirqs and the    *)
(* thread are scheduled.                                                   *)
FairSpec == Spec /\ WF_vars(Interrupt) /\ WF_vars(Handler) /\ WF_vars(Thread)

-----------------------------------------------------------------------------
(* Types of the state.                                                     *)
TypeOK ==
    /\ line \in Status /\ polarity \in Status
    /\ masked \in BOOLEAN /\ scheduled \in BOOLEAN /\ written \in BOOLEAN
    /\ tpc \in {"idle", "toggle", "event", "flag", "polarity", "unmask"}
    /\ old \in 0..255
    /\ cur_bt803_status \in Status \cup StoreValues
    /\ bt803_key_event \in Status
    /\ send_event_flag \in {0, 1}
    /\ kpc \in {"wait", "wakeup", "report", "sleep", "clear"}
    /\ lastKey \in Status \cup {NoKey}
    /\ clean \in BOOLEAN
    /\ changes \in 0..MaxChanges /\ stores \in 0..MaxStores

(* Between runs of the handler the controller waits for the level opposite *)
(* to the recorded status, "for detecting the return to old_bt803_state".  *)
(* A write to the sysfs file breaks this, but the next complete run of the *)
(* handler restores it, whatever byte was written and however often.       *)
ArmedForReturn ==
    tpc = "idle" /\ ~written => polarity # cur_bt803_status

(* The level that caused a run of the handler cannot schedule another run  *)
(* before the handler has turned the polarity round: one change of the     *)
(* line never toggles the status twice.                                    *)
OneRunPerInterrupt == scheduled => masked /\ tpc = "idle"

(* Once the BT803 stops changing the line, the recorded status comes to    *)
(* agree with it for good, even if the line changed while the handler had  *)
(* the interrupt masked; a write to the sysfs file is excused until the    *)
(* handler runs again.                                                     *)
StatusFollowsLine == <>[](written \/ cur_bt803_status = line)

(* Every context is at rest.                                               *)
AtRest ==
    /\ tpc = "idle" /\ ~scheduled
    /\ kpc = "wait" /\ send_event_flag = 0

(* A notification that found the thread waiting, from its first write to   *)
(* its last, is delivered: at rest the last key the system was sent is     *)
(* that event, even if the thread was just about to serve an older one.    *)
CleanEventDelivered ==
    AtRest /\ clean => lastKey = bt803_key_event

(* "wait for signal", "send key event": every signalled event is sent, so  *)
(* that when every context is at rest the last key the system was sent     *)
(* says what the status is.                                                *)
KeyFollowsStatus ==
    AtRest /\ lastKey # NoKey /\ stores = 0 => lastKey = cur_bt803_status
=============================================================================
