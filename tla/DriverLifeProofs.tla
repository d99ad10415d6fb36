-------------------------- MODULE DriverLifeProofs --------------------------
(***************************************************************************)
(* For any number of probes, removes and failing steps, and any writers of *)
(* /proc/bt803: the wake-up interrupt is registered once and with its      *)
(* input device there (EintReady), what the file reads back is what the    *)
(* pins are (ReadbackIsTrue), and a pin only follows a write that names it *)
(* or a probe (PinsServeWrites).                                           *)
(***************************************************************************)
EXTENDS DriverLife, TLAPS

(* The first complete probe is the one that registers the interrupt, after *)
(* it has obtained the input device; it is then at its end, or bound, and  *)
(* keeps the device until it is removed.                                   *)
LifeInv ==
    /\ eints = IF g_bt803_first THEN 0 ELSE 1
    /\ driver = "bt803" /\ step \in {"reset", "bound", "oops"} => ~g_bt803_first
    /\ step \in {"kobject", "sysfs", "eint"} => g_bt803_first
    /\ step \in {"thread", "kobject", "sysfs", "eint"} => "input" \in held
    /\ ~g_bt803_first /\ ~removed =>
          "input" \in held /\ step \in {"reset", "bound", "oops"}
    /\ step \in {"proc", "input", "thread", "kobject", "sysfs", "eint", "reset"}
          => driver = "bt803"
    /\ driver \in Drivers

(* A writer that has had the file for itself is where its byte sends it,   *)
(* and has driven the outputs it has passed.                               *)
Follows(w) ==
    /\ \A x \in Writers : wpc[x] # "idle" => x = w
    /\ val[w] = g_ctrl_pin
    /\ written /\ ~reprobed
    /\ wpc[w] \in Pins => PinOf(g_ctrl_pin) = wpc[w]
    /\ wpc[w] \in DOMAIN CloseStep => High(g_ctrl_pin) = 0
    /\ wpc[w] \in {"close2", "close3"} => pins["power"] = 0
    /\ wpc[w] = "close3" => pins["reset"] = 0

PinInv ==
    /\ PinsTypeOK
    /\ ~raced => \A w \in Writers : wpc[w] # "idle" => Follows(w)
    /\ ReadbackIsTrue

-----------------------------------------------------------------------------
(* Where a probe can have come from.                                       *)
LEMMA Before ==
    ASSUME NEW s \in Steps, s # "reset"
    PROVE  /\ After(s) = "reset" =>
                 s = "eint" \/ (s = "thread" /\ ~g_bt803_first)
           /\ After(s) = "proc" => s = "device" /\ driver # "qn8006"
           /\ After(s) = "input" => s = "proc"
           /\ After(s) = "thread" => s = "input"
           /\ After(s) = "kobject" => s = "thread" /\ g_bt803_first
           /\ After(s) = "sysfs" => s = "kobject"
           /\ After(s) = "eint" => s = "sysfs"
           /\ After(s) = "bound" => s = "device" /\ driver = "qn8006"
           /\ After(s) # "oops"
           /\ s = "thread" => After(s) # "bound"
BY DEF After, Steps

LEMMA LifeInit == Init => LifeInv
BY DEF Init, LifeInv, Drivers

LEMMA LifeStep == LifeInv /\ [Next]_vars => LifeInv'
<1> SUFFICES ASSUME LifeInv, [Next]_vars PROVE LifeInv'
    OBVIOUS
<1> USE DEF LifeInv, Drivers
<1>1. CASE Probe
    BY <1>1 DEF Probe
<1>2. ASSUME NEW s \in {"number", "cdev", "device", "proc", "input", "thread",
                        "class", "kobject", "sysfs"}, Acquire(s, s)
      PROVE  LifeInv'
    <2>1. /\ step = s /\ step' = After(s) /\ held' = held \cup {s}
          /\ UNCHANGED <<driver, eints, g_bt803_first, removed>>
        BY <1>2 DEF Acquire
    <2> QED BY <2>1, Before DEF Steps
<1>3. ASSUME NEW s \in {"number", "device", "proc", "thread"},
             NEW lost \in {{}, {"device"}, {"proc"}}, Ignored(s, lost)
      PROVE  LifeInv'
    <2>1. /\ step = s /\ step' = After(s) /\ held' = held \ lost
          /\ UNCHANGED <<driver, eints, g_bt803_first, removed>>
        BY <1>3 DEF Ignored, Fail
    <2> QED BY <2>1, Before DEF Steps
<1>4. ASSUME NEW s \in {"cdev", "add", "class", "input", "kobject"},
             NEW released \in {{}, {"number"}},
             NEW lost \in {{}, {"cdev"}, {"input"}, {"kobject"}},
             Fail(s, "unbound", released, lost)
      PROVE  LifeInv'
    BY <1>4 DEF Fail
<1>5. CASE AllocNumber
    BY <1>5, <1>2, <1>3 DEF AllocNumber
<1>6. CASE AllocCdev
    BY <1>6, <1>2, <1>4 DEF AllocCdev
<1>7. CASE AddCdev
    <2>1. CASE Added
        BY <2>1 DEF Added, After
    <2> QED BY <1>7, <1>4, <2>1 DEF AddCdev
<1>8. CASE CreateClass
    <2>1. CASE RefuseClass
        BY <2>1 DEF RefuseClass
    <2> QED BY <1>8, <1>2, <1>4, <2>1 DEF CreateClass
<1>9. CASE CreateDevice
    BY <1>9, <1>2, <1>3 DEF CreateDevice
<1>10. CASE CreateProc
    BY <1>10, <1>2, <1>3 DEF CreateProc
<1>11. CASE AllocInput
    BY <1>11, <1>2, <1>4 DEF AllocInput
<1>12. CASE StartThread
    BY <1>12, <1>2, <1>3 DEF StartThread
<1>13. CASE CreateKobject
    BY <1>13, <1>2, <1>4 DEF CreateKobject
<1>14. CASE CreateStatus
    <2>1. CASE Fail("sysfs", After("sysfs"), {"kobject"}, {})
        <3>1. /\ step = "sysfs" /\ step' = "eint" /\ held' = held \ {"kobject"}
              /\ UNCHANGED <<driver, eints, g_bt803_first, removed>>
            BY <2>1 DEF Fail, After
        <3> QED BY <3>1
    <2> QED BY <1>14, <1>2, <2>1 DEF CreateStatus
<1>15. CASE RegisterEint
    BY <1>15 DEF RegisterEint, After
<1>16. CASE DriveReset
    BY <1>16 DEF DriveReset, After
<1>17. CASE Remove
    BY <1>17 DEF Remove
<1>18. ASSUME UNCHANGED lifeVars PROVE LifeInv'
    BY <1>18 DEF lifeVars
<1> QED BY <1>1, <1>5, <1>6, <1>7, <1>8, <1>9, <1>10, <1>11, <1>12, <1>13,
           <1>14, <1>15, <1>16, <1>17, <1>18 DEF Next, Write, vars

(* However the driver is bound, unbound and fails on the way, its wake-up  *)
(* interrupt is registered at most once, and has its input device.         *)
THEOREM InterruptReady == Spec => []EintReady
<1>1. LifeInv => EintReady
    BY DEF LifeInv, EintReady
<1> QED BY LifeInit, LifeStep, <1>1, PTL DEF Spec

-----------------------------------------------------------------------------
Places == {"idle", "select"} \cup Pins \cup DOMAIN CloseStep

LEMMA PinInit == Init => PinInv
<1> SUFFICES ASSUME Init PROVE PinInv
    OBVIOUS
<1> USE DEF Init, PinsInit
<1>1. g_ctrl_pin \in 0..255 /\ pins \in [Pins -> Levels]
    OBVIOUS
<1>2. wpc \in [Writers -> Places] /\ val \in [Writers -> (0..255) \cup {NoValue}]
    BY DEF Places, NoValue
<1>3. written \in BOOLEAN /\ raced \in BOOLEAN /\ reprobed \in BOOLEAN
    OBVIOUS
<1>4. \A w \in Writers : wpc[w] = "idle"
    OBVIOUS
<1> QED BY <1>1, <1>2, <1>3, <1>4 DEF PinInv, PinsTypeOK, Places, ReadbackIsTrue

(* What a step of the writers and the probe does to the pins.              *)
PinStep ==
    \/ \E w \in Writers : \/ \E v \in Values : Parse(w, v)
                         \/ Select(w) \/ Drive(w) \/ Close(w)
    \/ ResetPin
    \/ UNCHANGED pinVars

LEMMA StepsArePinSteps == [Next]_vars => PinStep
BY DEF Next, vars, PinStep, Write, Probe, AllocNumber, AllocCdev, AddCdev,
    Added, CreateClass, RefuseClass, CreateDevice, CreateProc, AllocInput,
    StartThread, CreateKobject, CreateStatus, RegisterEint, DriveReset,
    Remove, Acquire, Ignored, Fail

LEMMA LevelType == \A n : Level(n) \in Levels
BY DEF Level, Levels

LEMMA CloseStepIs ==
    /\ DOMAIN CloseStep = {"close1", "close2", "close3"}
    /\ CloseStep["close1"].pin = "power" /\ CloseStep["close1"].next = "close2"
    /\ CloseStep["close2"].pin = "reset" /\ CloseStep["close2"].next = "close3"
    /\ CloseStep["close3"].pin = "wakeup" /\ CloseStep["close3"].next = "idle"
BY DEF CloseStep

LEMMA PinType == PinsTypeOK /\ PinStep => PinsTypeOK'
<1> SUFFICES ASSUME PinsTypeOK, PinStep PROVE PinsTypeOK'
    OBVIOUS
<1> USE DEF PinsTypeOK
<1>1. ASSUME NEW w \in Writers, NEW v \in Values, Parse(w, v)
      PROVE  PinsTypeOK'
    <2>1. v \in 0..255
        BY ValueAssumption DEF ValueAssumption
    <2>2. val' \in [Writers -> (0..255) \cup {NoValue}]
        BY <1>1, <2>1 DEF Parse
    <2>3. wpc' \in [Writers -> {"idle", "select"} \cup Pins \cup DOMAIN CloseStep]
        BY <1>1 DEF Parse
    <2>4. written' \in BOOLEAN /\ raced' \in BOOLEAN /\ reprobed' \in BOOLEAN
        BY <1>1 DEF Parse
    <2> QED BY <1>1, <2>1, <2>2, <2>3, <2>4 DEF Parse
<1>2. ASSUME NEW w \in Writers, NEW to \in Places, GoesOn(w, to),
             pins' \in [Pins -> Levels]
      PROVE  PinsTypeOK'
    <2>1. val' \in [Writers -> (0..255) \cup {NoValue}]
        BY <1>2 DEF GoesOn
    <2>2. wpc' \in [Writers -> {"idle", "select"} \cup Pins \cup DOMAIN CloseStep]
        BY <1>2 DEF GoesOn, Places
    <2> QED BY <1>2, <2>1, <2>2 DEF GoesOn
<1>3. ASSUME NEW w \in Writers, Select(w) PROVE PinsTypeOK'
    <2>1. \E to \in Places : GoesOn(w, to)
        BY <1>3, CloseStepIs DEF Select, Places
    <2> QED BY <1>2, <1>3, <2>1 DEF Select
<1>4. ASSUME NEW w \in Writers, Drive(w) PROVE PinsTypeOK'
    <2>1. pins' \in [Pins -> Levels]
        BY <1>4, LevelType DEF Drive
    <2> QED BY <1>2, <1>4, <2>1 DEF Drive, Places
<1>5. ASSUME NEW w \in Writers, Close(w) PROVE PinsTypeOK'
    <2>1. pins' \in [Pins -> Levels]
        BY <1>5 DEF Close, Levels
    <2>2. CloseStep[wpc[w]].next \in Places
        BY <1>5, CloseStepIs DEF Close, Places
    <2> QED BY <1>2, <1>5, <2>1, <2>2 DEF Close
<1>6. CASE ResetPin
    <2>1. pins' \in [Pins -> Levels]
        BY <1>6 DEF ResetPin, Levels
    <2>2. raced' \in BOOLEAN /\ reprobed' \in BOOLEAN
        BY <1>6 DEF ResetPin
    <2> QED BY <1>6, <2>1, <2>2 DEF ResetPin
<1>7. CASE UNCHANGED pinVars
    BY <1>7 DEF pinVars
<1> QED BY <1>1, <1>3, <1>4, <1>5, <1>6, <1>7 DEF PinStep

(* A writer that has the file for itself leaves the pins as its byte says. *)
LEMMA PinKeeps == PinInv /\ PinStep => PinInv'
<1> SUFFICES ASSUME PinInv, PinStep
             PROVE  /\ (~raced => \A w \in Writers : wpc[w] # "idle" => Follows(w))'
                    /\ ReadbackIsTrue'
    BY PinType DEF PinInv
<1> DEFINE Goal == /\ (~raced => \A w \in Writers : wpc[w] # "idle" => Follows(w))'
                   /\ ReadbackIsTrue'
<1>t. PinsTypeOK /\ PinsTypeOK'
    BY PinType DEF PinInv
<1>n. \A v : High(v) = 0 => PinOf(v) \notin Pins
    BY DEF PinOf, Pins
<1>1. ASSUME NEW w \in Writers, NEW v \in Values, Parse(w, v) PROVE Goal
    <2>1. /\ wpc'[w] = "select" /\ val'[w] = g_ctrl_pin' /\ written' /\ ~reprobed'
          /\ \A x \in Writers : x # w => wpc'[x] = wpc[x]
        BY <1>1, <1>t DEF Parse, PinsTypeOK
    <2>2. ~AtRest'
        BY <2>1 DEF AtRest
    <2>3. CASE AtRest
        <3>1. \A x \in Writers : wpc'[x] # "idle" => x = w
            BY <2>1, <2>3 DEF AtRest
        <3>2. Follows(w)'
            BY <2>1, <3>1, CloseStepIs DEF Follows, Pins
        <3> QED BY <2>2, <3>1, <3>2 DEF ReadbackIsTrue
    <2>4. CASE ~AtRest
        BY <1>1, <2>2, <2>4 DEF Parse, ReadbackIsTrue
    <2> QED BY <2>3, <2>4
<1>2. ASSUME raced, raced' PROVE Goal
    BY <1>2 DEF ReadbackIsTrue
(* Writer w goes on to `to' with the file for itself.                      *)
<1>3. ASSUME ~raced, NEW w \in Writers, wpc[w] # "idle", NEW to, GoesOn(w, to)
      PROVE  /\ Follows(w)
             /\ wpc'[w] = to /\ \A x \in Writers : x # w => wpc'[x] = "idle"
             /\ to # "idle" => val'[w] = val[w]
             /\ g_ctrl_pin' = g_ctrl_pin /\ written' /\ ~reprobed' /\ ~raced'
             /\ AtRest' <=> to = "idle"
    <2>1. Follows(w)
        BY <1>3 DEF PinInv
    <2>2. wpc'[w] = to /\ \A x \in Writers : x # w => wpc'[x] = "idle"
        BY <1>3, <1>t, <2>1 DEF GoesOn, PinsTypeOK, Follows
    <2>3. to # "idle" => val'[w] = val[w]
        BY <1>3, <1>t DEF GoesOn, PinsTypeOK
    <2>4. g_ctrl_pin' = g_ctrl_pin /\ written' /\ ~reprobed' /\ ~raced'
        BY <1>3, <2>1 DEF GoesOn, Follows
    <2>5. AtRest' <=> to = "idle"
        BY <2>2 DEF AtRest
    <2> QED BY <2>1, <2>2, <2>3, <2>4, <2>5
<1>4. ASSUME NEW w \in Writers, Select(w) PROVE Goal
    <2>1. PICK to \in {"close1", "idle"} \cup Pins :
             /\ GoesOn(w, to)
             /\ to = "close1" <=> High(g_ctrl_pin) = 0
             /\ to \in Pins => to = PinOf(g_ctrl_pin)
             /\ to = "idle" => PinOf(g_ctrl_pin) \notin Pins
        BY <1>4 DEF Select, Pins
    <2>2. raced' = raced
        BY <2>1 DEF GoesOn
    <2>3. CASE ~raced
        <3>1. wpc[w] # "idle"
            BY <1>4 DEF Select
        <3>2. CASE to = "idle"
            <4>1. High(g_ctrl_pin) # 0 /\ PinOf(g_ctrl_pin) \notin Pins
                BY <2>1, <3>2
            <4> QED BY <1>3, <2>1, <2>3, <3>1, <3>2, <4>1 DEF ReadbackIsTrue
        <3>3. CASE to # "idle"
            <4>1. Follows(w)'
                BY <1>3, <2>1, <2>3, <3>1, <3>3, CloseStepIs DEF Follows, Pins
            <4> QED BY <1>3, <2>1, <2>3, <3>1, <3>3, <4>1 DEF ReadbackIsTrue
        <3> QED BY <3>2, <3>3
    <2> QED BY <1>2, <2>2, <2>3
<1>5. ASSUME NEW w \in Writers, Drive(w) PROVE Goal
    <2>1. wpc[w] \in Pins /\ wpc[w] # "idle" /\ GoesOn(w, "idle")
        BY <1>5 DEF Drive, Pins
    <2>2. raced' = raced
        BY <2>1 DEF GoesOn
    <2>3. CASE ~raced
        <3>1. PinOf(g_ctrl_pin) = wpc[w] /\ High(g_ctrl_pin) # 0
            BY <1>3, <1>n, <2>1, <2>3 DEF Follows
        <3>2. pins'[wpc[w]] = Level(Low(g_ctrl_pin))
            BY <1>5, <1>t, <2>1 DEF Drive, PinsTypeOK
        <3> QED BY <1>3, <2>1, <2>3, <3>1, <3>2 DEF ReadbackIsTrue
    <2> QED BY <1>2, <2>2, <2>3
<1>6. ASSUME NEW w \in Writers, Close(w) PROVE Goal
    <2>1. /\ wpc[w] \in {"close1", "close2", "close3"} /\ wpc[w] # "idle"
          /\ GoesOn(w, CloseStep[wpc[w]].next)
        BY <1>6, CloseStepIs DEF Close
    <2>2. raced' = raced
        BY <2>1 DEF GoesOn
    <2>3. CASE ~raced
        <3>1. Follows(w) /\ High(g_ctrl_pin) = 0 /\ PinOf(g_ctrl_pin) \notin Pins
            BY <1>3, <1>n, <2>1, <2>3, CloseStepIs DEF Follows
        <3>2. /\ wpc[w] = "close1" => pins'["power"] = 0
              /\ wpc[w] = "close2" => pins'["power"] = 0 /\ pins'["reset"] = 0
              /\ wpc[w] = "close3" => \A p \in Pins : pins'[p] = 0
            BY <1>6, <1>t, <3>1, CloseStepIs DEF Close, PinsTypeOK, Pins, Follows
        <3>3. CASE wpc[w] = "close3"
            BY <1>3, <2>1, <2>3, <3>1, <3>2, <3>3, CloseStepIs DEF ReadbackIsTrue
        <3>4. CASE wpc[w] # "close3"
            <4>1. CloseStep[wpc[w]].next \in {"close2", "close3"}
                BY <2>1, <3>4, CloseStepIs
            <4>2. Follows(w)'
                BY <1>3, <2>1, <2>3, <3>1, <3>2, <3>4, <4>1, CloseStepIs
                    DEF Follows, Pins
            <4> QED BY <1>3, <2>1, <2>3, <4>1, <4>2 DEF ReadbackIsTrue
        <3> QED BY <3>3, <3>4
    <2> QED BY <1>2, <2>2, <2>3
<1>7. CASE ResetPin
    <2>1. CASE raced \/ ~AtRest
        <3>1. raced'
            BY <1>7, <2>1 DEF ResetPin
        <3> QED BY <3>1 DEF ReadbackIsTrue
    <2>2. CASE ~raced /\ AtRest
        <3>1. \A p \in Pins \ {"reset"} : pins'[p] = pins[p]
            BY <1>7, <1>t DEF ResetPin, PinsTypeOK
        <3>2. reprobed' /\ \A w \in Writers : wpc'[w] = "idle"
            BY <1>7, <2>2 DEF ResetPin, AtRest
        <3> QED BY <1>7, <2>2, <3>1, <3>2 DEF ResetPin, PinInv, ReadbackIsTrue
    <2> QED BY <2>1, <2>2
<1>8. CASE UNCHANGED pinVars
    BY <1>8 DEF pinVars, PinInv, Follows, ReadbackIsTrue, AtRest
<1> QED BY <1>1, <1>4, <1>5, <1>6, <1>7, <1>8 DEF PinStep

(* A pin that changes follows the only write there is, or a probe.         *)
LEMMA PinsServe ==
    ASSUME PinInv, PinStep, ~raced, NEW p \in Pins, pins'[p] # pins[p]
    PROVE  \/ reprobed' /\ p = "reset" /\ pins'[p] = 1
           \/ \E w \in Writers :
                 /\ wpc[w] # "idle"
                 /\ \/ PinOf(val[w]) = p /\ pins'[p] = Level(Low(val[w]))
                    \/ High(val[w]) = 0 /\ pins'[p] = 0
<1> USE DEF PinInv, PinsTypeOK
<1>1. ASSUME NEW w \in Writers, Drive(w)
      PROVE  /\ wpc[w] # "idle"
             /\ PinOf(val[w]) = p /\ pins'[p] = Level(Low(val[w]))
    <2>1. wpc[w] # "idle" /\ Follows(w)
        BY <1>1 DEF Drive, Pins
    <2>2. wpc[w] = p /\ pins'[p] = Level(Low(g_ctrl_pin))
        BY <1>1 DEF Drive
    <2> QED BY <2>1, <2>2 DEF Follows
<1>2. ASSUME NEW w \in Writers, Close(w)
      PROVE  wpc[w] # "idle" /\ High(val[w]) = 0 /\ pins'[p] = 0
    <2>1. wpc[w] # "idle" /\ wpc[w] \in DOMAIN CloseStep
        BY <1>2, CloseStepIs DEF Close
    <2>2. Follows(w)
        BY <2>1
    <2>3. pins'[p] = 0
        BY <1>2 DEF Close
    <2> QED BY <2>1, <2>2, <2>3 DEF Follows
<1>3. CASE ResetPin
    BY <1>3 DEF ResetPin
<1>4. ASSUME \/ \E w \in Writers : (\E v \in Values : Parse(w, v)) \/ Select(w)
             \/ UNCHANGED pinVars
      PROVE  FALSE
    BY <1>4 DEF Parse, Select, pinVars
<1> QED BY <1>1, <1>2, <1>3, <1>4 DEF PinStep

(* Every variable of the pins keeps its type, and reading /proc/bt803      *)
(* tells how the pins are, for any writers, any bytes and any probes.      *)
THEOREM FileTellsThePins == Spec => []ReadbackIsTrue
<1>1. PinInv /\ [Next]_vars => PinInv'
    BY PinKeeps, StepsArePinSteps
<1>2. PinInv => ReadbackIsTrue
    BY DEF PinInv
<1> QED BY PinInit, <1>1, <1>2, PTL DEF Spec

(* Writes that do not overlap drive the pin they name to the level they    *)
(* name, and nothing else moves a pin but a probe.                         *)
THEOREM PinsFollowWrites == Spec => PinsServeWrites
<1>1. PinInv /\ [Next]_vars => PinInv'
    BY PinKeeps, StepsArePinSteps
<1>2. PinInv /\ [Next]_vars
        => [~raced => \A p \in Pins : pins'[p] # pins[p] =>
               \/ reprobed' /\ p = "reset" /\ pins'[p] = 1
               \/ \E w \in Writers :
                     /\ wpc[w] # "idle"
                     /\ \/ PinOf(val[w]) = p /\ pins'[p] = Level(Low(val[w]))
                        \/ High(val[w]) = 0 /\ pins'[p] = 0]_pinVars
    BY StepsArePinSteps, PinsServe
<1> QED BY PinInit, <1>1, <1>2, PTL DEF Spec, PinsServeWrites

-----------------------------------------------------------------------------
(* What a driver may leave: what the failed steps account for, and what    *)
(* the BT803 never gives back.                                             *)
Kept == IF driver = "bt803" THEN {"proc", "thread", "kobject", "sysfs"} ELSE {}
Accounted == (UNION {LeftBy(s) : s \in failed}) \cup Kept

(* What the probe under way has obtained of the rest when it is at step s. *)
Obtained(s) ==
    CASE s \in {"unbound", "number"} -> {}
      [] s = "cdev"               -> {"number"}
      [] s \in {"add", "class"}   -> {"number", "cdev"}
      [] s = "device"             -> {"number", "cdev", "class"}
      [] s \in {"proc", "input"}  -> {"number", "cdev", "class", "device"}
      [] OTHER                    -> Given(driver)

(* Nothing is named or leaked but that: a resource obtained while an older *)
(* one is still held leaks only the older one, which is accounted for.     *)
LeftInv ==
    /\ step \in Steps \cup {"unbound", "bound", "oops"}
    /\ held \subseteq Accounted \cup Obtained(step)
    /\ leaked \subseteq Accounted

AcquiringSteps == {"number", "cdev", "class", "device", "proc", "input",
                   "thread", "kobject", "sysfs"}

(* A step obtains what the probe has not obtained yet.                     *)
LEMMA ObtainedGrows ==
    ASSUME LifeInv, NEW s \in Steps, step = s
    PROVE  /\ After(s) \in Steps \cup {"bound"}
           /\ Obtained(s) \subseteq Obtained(After(s))
           /\ s \in AcquiringSteps =>
                 s \in Kept \/ (s \notin Obtained(s) /\ s \in Obtained(After(s)))
<1> USE DEF Obtained, Kept, AcquiringSteps
<1>1. s \in {"number", "cdev", "add", "class", "device"} \/ driver = "bt803"
    BY DEF LifeInv, Steps
<1>2. driver \in {"qn8006", "bt803"}
    BY DEF LifeInv, Drivers
<1>3. CASE s \in {"number", "cdev", "add", "class"}
    BY <1>3 DEF After, Steps
<1>4. CASE s = "device"
    BY <1>4, <1>2 DEF After, Steps, Given
<1>5. CASE s \in {"proc", "input"}
    BY <1>5, <1>1 DEF After, Steps, Given
<1>6. CASE s \in {"thread", "kobject", "sysfs", "eint", "reset"}
    BY <1>6, <1>1 DEF After, Steps
<1> QED BY <1>3, <1>4, <1>5, <1>6 DEF Steps

(* What has failed is accounted for from then on.                          *)
LEMMA Accounts ==
    ASSUME UNCHANGED driver, failed \subseteq failed'
    PROVE  /\ Accounted \subseteq Accounted' /\ Kept' = Kept /\ Kept \subseteq Accounted
           /\ \A s \in failed' : LeftBy(s) \subseteq Accounted'
<1>1. Kept' = Kept
    BY DEF Kept
<1>2. \A s \in failed' : LeftBy(s) \subseteq UNION {LeftBy(x) : x \in failed'}
    OBVIOUS
<1>3. UNION {LeftBy(x) : x \in failed} \subseteq UNION {LeftBy(x) : x \in failed'}
    OBVIOUS
<1> QED BY <1>1, <1>2, <1>3 DEF Accounted

LEMMA LeftAcquire ==
    ASSUME LifeInv, LeftInv, NEW s \in AcquiringSteps, Acquire(s, s)
    PROVE  LeftInv'
<1>1. /\ step = s /\ step' = After(s) /\ held' = held \cup {s}
      /\ leaked' = leaked \cup ({s} \cap held) /\ UNCHANGED <<driver, failed>>
    BY DEF Acquire
<1>2. Accounted \subseteq Accounted' /\ Kept \subseteq Accounted
    BY <1>1, Accounts
<1>3. Obtained(step)' = Obtained(After(s))
    BY <1>1 DEF Obtained, Given
<1>4. /\ After(s) \in Steps \cup {"bound"}
      /\ Obtained(s) \subseteq Obtained(After(s))
      /\ s \in Kept \/ (s \notin Obtained(s) /\ s \in Obtained(After(s)))
    BY <1>1, ObtainedGrows DEF AcquiringSteps, Steps
<1> QED BY <1>1, <1>2, <1>3, <1>4 DEF LeftInv

(* A failure that is not noticed: the pointer the call cleared was one of  *)
(* an earlier probe.                                                       *)
LEMMA LeftIgnored ==
    ASSUME LifeInv, LeftInv, NEW s \in AcquiringSteps, NEW lost, lost \in {{}, {s}},
           Ignored(s, lost)
    PROVE  LeftInv'
<1>1. /\ step = s /\ step' = After(s) /\ held' = held \ lost
      /\ leaked' = leaked \cup (held \cap lost)
      /\ UNCHANGED driver /\ failed' = failed \cup {s}
    BY DEF Ignored, Fail
<1>2. Accounted \subseteq Accounted' /\ Kept \subseteq Accounted
    BY <1>1, Accounts
<1>3. Obtained(step)' = Obtained(After(s))
    BY <1>1 DEF Obtained, Given
<1>4. /\ After(s) \in Steps \cup {"bound"}
      /\ Obtained(s) \subseteq Obtained(After(s))
      /\ s \in Kept \/ (s \notin Obtained(s) /\ s \in Obtained(After(s)))
    BY <1>1, ObtainedGrows DEF AcquiringSteps, Steps
<1> QED BY <1>1, <1>2, <1>3, <1>4 DEF LeftInv

(* A failure that ends the probe: what it has obtained and not given back  *)
(* is what the step accounts for.                                          *)
LEMMA LeftFail ==
    ASSUME LifeInv, LeftInv, NEW s \in Steps, NEW released, NEW lost,
           Fail(s, "unbound", released, lost),
           lost \cap Obtained(s) = {},
           Obtained(s) \subseteq released \cup LeftBy(s) \cup Kept
    PROVE  LeftInv'
<1>1. /\ step = s /\ step' = "unbound" /\ held' = held \ (released \cup lost)
      /\ leaked' = leaked \cup (held \cap lost)
      /\ UNCHANGED driver /\ failed' = failed \cup {s}
    BY DEF Fail
<1>2. Accounted \subseteq Accounted' /\ Kept \subseteq Accounted /\ LeftBy(s) \subseteq Accounted'
    BY <1>1, Accounts
<1> QED BY <1>1, <1>2 DEF LeftInv

LEMMA LeftStep == LifeInv /\ LeftInv /\ [Next]_vars => LeftInv'
<1> SUFFICES ASSUME LifeInv, LeftInv, [Next]_vars PROVE LeftInv'
    OBVIOUS
<1>s. ASSUME NEW s \in Steps, step = s, step' = After(s), UNCHANGED <<held, leaked, driver, failed>>
      PROVE  LeftInv'
    <2>1. Accounted \subseteq Accounted'
        BY <1>s, Accounts
    <2>2. Obtained(step)' = Obtained(After(s))
        BY <1>s DEF Obtained, Given
    <2> QED BY <1>s, <2>1, <2>2, ObtainedGrows DEF LeftInv
<1>u. ASSUME UNCHANGED <<step, held, leaked, driver, failed>> PROVE LeftInv'
    BY <1>u DEF LeftInv, Accounted, Kept, Obtained, Given
<1>1. CASE Probe
    <2>1. /\ step = "unbound" /\ step' = "number"
          /\ UNCHANGED <<held, leaked, driver, failed>>
        BY <1>1 DEF Probe
    <2>2. Obtained(step) = {} /\ Accounted' = Accounted
        BY <2>1 DEF Obtained, Accounted, Kept
    <2> QED BY <2>1, <2>2 DEF LeftInv, Steps
<1>2. CASE AllocNumber
    BY <1>2, LeftAcquire, LeftIgnored DEF AllocNumber, AcquiringSteps
<1>3. CASE AllocCdev
    <2>1. CASE Fail("cdev", "unbound", {"number"}, {"cdev"})
        BY <2>1, LeftFail DEF Steps, Obtained
    <2> QED BY <1>3, <2>1, LeftAcquire DEF AllocCdev, AcquiringSteps
<1>4. CASE AddCdev
    <2>1. CASE Fail("add", "unbound", {"number"}, {})
        BY <2>1, LeftFail DEF Steps, Obtained, LeftBy
    <2> QED BY <1>4, <2>1, <1>s DEF AddCdev, Added, Steps
<1>5. CASE CreateClass
    <2>1. CASE Fail("class", "unbound", {}, {})
        BY <2>1, LeftFail DEF Steps, Obtained, LeftBy
    <2>2. CASE RefuseClass
        <3>1. /\ step = "class" /\ step' = "unbound" /\ "class" \in held \cup leaked
              /\ held' = held \ {"class"} /\ leaked' = leaked \cup {"class"}
              /\ UNCHANGED driver /\ failed' = failed \cup {"class"}
            BY <2>2 DEF RefuseClass, NameInUse
        <3>2. Accounted \subseteq Accounted' /\ {"number", "cdev"} \subseteq Accounted'
            BY <3>1, Accounts DEF LeftBy
        <3>3. Obtained(step) = {"number", "cdev"}
            BY <3>1 DEF Obtained
        <3> QED BY <3>1, <3>2, <3>3 DEF LeftInv
    <2> QED BY <1>5, <2>1, <2>2, LeftAcquire DEF CreateClass, AcquiringSteps
<1>6. CASE CreateDevice
    BY <1>6, LeftAcquire, LeftIgnored DEF CreateDevice, AcquiringSteps
<1>7. CASE CreateProc
    BY <1>7, LeftAcquire, LeftIgnored DEF CreateProc, AcquiringSteps
<1>8. CASE AllocInput
    <2>1. CASE Fail("input", "unbound", {}, {"input"})
        BY <2>1, LeftFail DEF Steps, Obtained, LeftBy
    <2> QED BY <1>8, <2>1, LeftAcquire DEF AllocInput, AcquiringSteps
<1>9. CASE StartThread
    BY <1>9, LeftAcquire, LeftIgnored DEF StartThread, AcquiringSteps
<1>10. CASE CreateKobject
    <2>1. CASE Fail("kobject", "unbound", {}, {"kobject"})
        <3>1. driver = "bt803"
            BY <2>1 DEF Fail, LifeInv
        <3>2. Obtained("kobject") = {"number", "cdev", "class", "device", "input"}
            BY <3>1 DEF Obtained, Given
        <3> QED BY <2>1, <3>2, LeftFail DEF Steps, LeftBy
    <2> QED BY <1>10, <2>1, LeftAcquire DEF CreateKobject, AcquiringSteps
<1>11. CASE CreateStatus
    <2>1. CASE Fail("sysfs", After("sysfs"), {"kobject"}, {})
        <3>1. /\ step = "sysfs" /\ step' = "eint" /\ held' \subseteq held /\ leaked' = leaked
              /\ UNCHANGED driver /\ failed' = failed \cup {"sysfs"}
            BY <2>1 DEF Fail, After
        <3>2. Accounted \subseteq Accounted'
            BY <3>1, Accounts
        <3>3. Obtained(step) = Obtained(step)'
            BY <3>1 DEF Obtained, Given
        <3> QED BY <3>1, <3>2, <3>3 DEF LeftInv, Steps
    <2> QED BY <1>11, <2>1, LeftAcquire DEF CreateStatus, AcquiringSteps
<1>12. CASE RegisterEint
    BY <1>12, <1>s DEF RegisterEint, Steps
<1>13. CASE DriveReset
    BY <1>13, <1>s DEF DriveReset, Steps
<1>14. CASE Remove
    <2>1. /\ step = "bound" /\ UNCHANGED <<leaked, driver, failed>>
          /\ \/ step' = "unbound" /\ held' = held \ Given(driver)
             \/ step' = "oops" /\ held' = held
        BY <1>14 DEF Remove
    <2>2. Obtained(step) = Given(driver) /\ Accounted' = Accounted
        BY <2>1 DEF Obtained, Accounted, Kept
    <2>3. step' = "oops" => Obtained(step)' = Given(driver)
        BY <2>1 DEF Obtained, Given
    <2> QED BY <2>1, <2>2, <2>3 DEF LeftInv
<1>15. ASSUME UNCHANGED lifeVars PROVE LeftInv'
    BY <1>15, <1>u DEF lifeVars
<1> QED BY <1>1, <1>2, <1>3, <1>4, <1>5, <1>6, <1>7, <1>8, <1>9, <1>10, <1>11,
           <1>12, <1>13, <1>14, <1>15 DEF Next, Write, vars

(* Whatever fails, in whatever order and however often the driver is bound *)
(* again: an unbound driver has left nothing in the kernel but what its    *)
(* failed steps account for, and the BT803's file, thread and status file. *)
THEOREM NothingLeft == Spec => []LeavesNothing
<1>1. Init => LeftInv
    BY DEF Init, LeftInv, Obtained
<1>2. LeftInv => LeavesNothing
    BY DEF LeftInv, LeavesNothing, Accounted, Kept, Obtained
<1> QED BY <1>1, <1>2, LifeInit, LifeStep, LeftStep, PTL DEF Spec

-----------------------------------------------------------------------------
(* Types are kept: a step goes on to a step, and the bounds bound.         *)
LEMMA LifeTypes == LifeInv /\ PinsTypeOK /\ TypeOK /\ [Next]_vars => TypeOK'
<1> SUFFICES ASSUME LifeInv, TypeOK, [Next]_vars PROVE TypeOK'
    OBVIOUS
<1>p. PinsTypeOK'
    BY PinType, StepsArePinSteps DEF TypeOK
<1> USE DEF TypeOK, Resources
<1>a. \A s \in Steps : After(s) \in Steps \cup {"bound"}
    BY DEF After, Steps
<1>b. ASSUME NEW s \in AcquiringSteps, Acquire(s, s) PROVE TypeOK'
    BY <1>p, <1>a, <1>b DEF Acquire, AcquiringSteps, Steps
<1>c. ASSUME NEW s \in Steps, NEW to \in Steps \cup {"unbound", "bound"}, NEW released, NEW lost,
             Fail(s, to, released, lost)
      PROVE  TypeOK'
    <2>1. failures' \in 0..MaxFailures
        BY <1>c, LifeBounds DEF Fail
    <2> QED BY <1>p, <1>c, <2>1 DEF Fail
<1>d. ASSUME NEW s \in AcquiringSteps, NEW lost, Ignored(s, lost) PROVE TypeOK'
    <2>1. s \in Steps
        BY DEF AcquiringSteps, Steps
    <2> QED BY <1>a, <1>c, <1>d, <2>1 DEF Ignored
<1>1. CASE Probe
    <2>1. binds' \in 0..MaxBinds
        BY <1>1, LifeBounds DEF Probe
    <2> QED BY <1>p, <1>1, <2>1 DEF Probe, Steps
<1>2. CASE AllocNumber
    BY <1>2, <1>b, <1>d DEF AllocNumber, AcquiringSteps
<1>3. CASE AllocCdev
    BY <1>3, <1>b, <1>c DEF AllocCdev, AcquiringSteps, Steps
<1>4. CASE AddCdev
    <2>1. CASE Added
        BY <1>p, <1>a, <2>1 DEF Added, Steps
    <2> QED BY <1>4, <2>1, <1>c DEF AddCdev, Steps
<1>5. CASE CreateClass
    <2>1. CASE RefuseClass
        BY <1>p, <2>1 DEF RefuseClass, Steps
    <2> QED BY <1>5, <2>1, <1>b, <1>c DEF CreateClass, AcquiringSteps, Steps
<1>6. CASE CreateDevice
    BY <1>6, <1>b, <1>d DEF CreateDevice, AcquiringSteps
<1>7. CASE CreateProc
    BY <1>7, <1>b, <1>d DEF CreateProc, AcquiringSteps
<1>8. CASE AllocInput
    BY <1>8, <1>b, <1>c DEF AllocInput, AcquiringSteps, Steps
<1>9. CASE StartThread
    BY <1>9, <1>b, <1>d DEF StartThread, AcquiringSteps
<1>10. CASE CreateKobject
    BY <1>10, <1>b, <1>c DEF CreateKobject, AcquiringSteps, Steps
<1>11. CASE CreateStatus
    <2>1. "sysfs" \in Steps /\ "sysfs" \in AcquiringSteps
        BY DEF Steps, AcquiringSteps
    <2> QED BY <1>11, <2>1, <1>a, <1>b, <1>c DEF CreateStatus
<1>12. CASE RegisterEint
    <2>1. step' \in Steps \cup {"bound"}
        BY <1>a, <1>12 DEF RegisterEint, Steps
    <2>2. eints' \in Nat
        BY <1>12 DEF RegisterEint
    <2> QED BY <1>p, <1>12, <2>1, <2>2 DEF RegisterEint
<1>13. CASE DriveReset
    BY <1>p, <1>a, <1>13 DEF DriveReset, Steps
<1>14. CASE Remove
    BY <1>p, <1>14 DEF Remove
<1>15. ASSUME UNCHANGED lifeVars PROVE TypeOK'
    BY <1>p, <1>15 DEF lifeVars
<1> QED BY <1>1, <1>2, <1>3, <1>4, <1>5, <1>6, <1>7, <1>8, <1>9, <1>10, <1>11,
           <1>12, <1>13, <1>14, <1>15 DEF Next, Write, vars

(* Every variable of the two drivers and of the pins keeps its type.       *)
THEOREM TypeCorrect == Spec => []TypeOK
<1>1. Init => TypeOK
    <2> SUFFICES ASSUME Init PROVE TypeOK
        OBVIOUS
    <2>1. binds \in 0..MaxBinds /\ failures \in 0..MaxFailures /\ eints \in Nat
        BY LifeBounds DEF LifeBounds, Init
    <2>2. PinsTypeOK
        BY PinInit DEF PinInv
    <2> QED BY <2>1, <2>2 DEF Init, TypeOK
<1>2. TypeOK => PinsTypeOK
    BY DEF TypeOK
<1> QED BY <1>1, <1>2, LifeInit, LifeStep, LifeTypes, PTL DEF Spec
=============================================================================
