----------------------------- MODULE DriverLife -----------------------------
(***************************************************************************)
(* The life of the two platform drivers: qn8006_probe and qn8006_remove,   *)
(* bt803_probe and bt803_remove, bound and unbound any number of times,    *)
(* with each registration call of a probe succeeding or failing, and, for  *)
(* the BT803, the writers of /proc/bt803 (Bt803Pins) running beside them.  *)
(*                                                                         *)
(* A probe is a sequence of steps.  `held' is what the driver's pointers   *)
(* name in the kernel; a resource acquired again while it is still held is *)
(* beyond every later remove: it is leaked.  The kernel's calls are        *)
(* external: a class is refused while its name is in use, a device can be  *)
(* deleted only if it was created.                                         *)
(***************************************************************************)
EXTENDS Bt803Pins

CONSTANTS
    MaxBinds,       \* bound: probes
    MaxFailures     \* bound: failing steps

ASSUME LifeBounds == MaxBinds \in Nat /\ MaxFailures \in Nat

Drivers == {"qn8006", "bt803"}

VARIABLES
    driver,         \* the driver this behaviour is about
    step,           \* the step the probe is at, or "unbound", "bound", "oops"
    held, leaked,
    eints,          \* registrations of the wake-up interrupt
    g_bt803_first,
    binds, failures,    \* the bounds' counters
    failed,         \* the steps that have failed so far
    removed         \* has the driver been unbound?

lifeVars == <<driver, step, held, leaked, eints, g_bt803_first, binds,
              failures, failed, removed>>
vars == <<lifeVars, pinVars>>

Resources == {"number", "cdev", "class", "device", "proc", "input", "thread",
              "kobject", "sysfs"}

Steps == {"number", "cdev", "add", "class", "device", "proc", "input",
          "thread", "kobject", "sysfs", "eint", "reset"}

(* The interrupt before what its handler's work needs.                     *)
After_EintEarly(s) ==
    CASE s = "number"  -> "cdev"
      [] s = "cdev"    -> "add"
      [] s = "add"     -> "class"
      [] s = "class"   -> "device"
      [] s = "device"  -> IF driver = "qn8006" THEN "bound" ELSE "proc"
      [] s = "proc"    -> IF g_bt803_first THEN "kobject" ELSE "input"
      [] s = "kobject" -> "sysfs"
      [] s = "sysfs"   -> "eint"
      [] s = "eint"    -> "input"
      [] s = "input"   -> "thread"
      [] s = "thread"  -> "reset"
      [] OTHER         -> "bound"

(* The order of the steps.  A qn8006 probe ends with qn8006_i2c_initial,   *)
(* which only configures two pins; only the first complete probe of the    *)
(* bt803 goes through the sysfs and interrupt part.                        *)
After(s) ==
    CASE s = "number"  -> "cdev"
      [] s = "cdev"    -> "add"
      [] s = "add"     -> "class"
      [] s = "class"   -> "device"
      [] s = "device"  -> IF driver = "qn8006" THEN "bound" ELSE "proc"
      [] s = "proc"    -> "input"
      [] s = "input"   -> "thread"
      [] s = "thread"  -> IF g_bt803_first THEN "kobject" ELSE "reset"
      [] s = "kobject" -> "sysfs"
      [] s = "sysfs"   -> "eint"
      [] s = "eint"    -> "reset"
      [] OTHER         -> "bound"

Init ==
    /\ PinsInit
    /\ driver \in Drivers
    /\ step = "unbound"
    /\ held = {} /\ leaked = {} /\ eints = 0 /\ g_bt803_first = TRUE
    /\ binds = 0 /\ failures = 0 /\ failed = {} /\ removed = FALSE

-----------------------------------------------------------------------------
Probe ==
    /\ step = "unbound" /\ binds < MaxBinds
    /\ binds' = binds + 1
    /\ step' = "number"
    /\ UNCHANGED <<driver, held, leaked, eints, g_bt803_first, failures,
                   failed, removed, pinVars>>

(* Step s obtains its resource r and the probe goes on.                    *)
Acquire(s, r) ==
    /\ step = s
    /\ held' = held \cup {r}
    /\ leaked' = leaked \cup ({r} \cap held)
    /\ step' = After(s)
    /\ UNCHANGED <<driver, eints, g_bt803_first, binds, failures, failed,
                   removed, pinVars>>

(* Step s fails and the probe goes to `to': the resources in `released'    *)
(* are given back, and those in `lost' are no longer named by the variable *)
(* the failing call's result went to.                                      *)
Fail(s, to, released, lost) ==
    /\ step = s
    /\ failures < MaxFailures
    /\ failures' = failures + 1
    /\ failed' = failed \cup {s}
    /\ held' = held \ (released \cup lost)
    /\ leaked' = leaked \cup (held \cap lost)
    /\ step' = to
    /\ UNCHANGED <<driver, eints, g_bt803_first, binds, removed, pinVars>>

(* A failure the code only logs, or does not look at.                      *)
Ignored(s, lost) == Fail(s, After(s), {}, lost)

(* Without a new number the variable keeps the one of an earlier probe.    *)
AllocNumber == Acquire("number", "number") \/ Ignored("number", {})

AllocCdev ==
    \/ Acquire("cdev", "cdev")
    \/ Fail("cdev", "unbound", {"number"}, {"cdev"})

Added ==
    /\ step = "add"
    /\ step' = After("add")
    /\ UNCHANGED <<driver, held, leaked, eints, g_bt803_first, binds,
                   failures, failed, removed, pinVars>>

AddCdev_KeepsNumber == Added \/ Fail("add", "unbound", {}, {})

(* The structure cdev_alloc returned is not given back.                    *)
AddCdev == Added \/ Fail("add", "unbound", {"number"}, {})

(* The name is in use: the class pointer is an error pointer afterwards,   *)
(* and the class an earlier probe left keeps the name.                     *)
NameInUse == "class" \in held \cup leaked

RefuseClass ==
    /\ step = "class" /\ NameInUse
    /\ failed' = failed \cup {"class"}
    /\ held' = held \ {"class"}
    /\ leaked' = leaked \cup {"class"}
    /\ step' = "unbound"
    /\ UNCHANGED <<driver, eints, g_bt803_first, binds, failures, removed,
                   pinVars>>

CreateClass ==
    \/ RefuseClass
    \/ ~NameInUse /\ Acquire("class", "class")
    \/ ~NameInUse /\ Fail("class", "unbound", {}, {})

CreateDevice == Acquire("device", "device") \/ Ignored("device", {"device"})
CreateProc   == Acquire("proc", "proc")     \/ Ignored("proc", {"proc"})

AllocInput ==
    \/ Acquire("input", "input")
    \/ Fail("input", "unbound", {}, {"input"})

(* The wake lock and the wait queue are set up anew, then the key thread   *)
(* starts.                                                                 *)
StartThread == Acquire("thread", "thread") \/ Ignored("thread", {})

CreateKobject ==
    \/ Acquire("kobject", "kobject")
    \/ Fail("kobject", "unbound", {}, {"kobject"})

(* kobject_del takes the directory away, and the driver goes on.           *)
CreateStatus ==
    \/ Acquire("sysfs", "sysfs")
    \/ Fail("sysfs", After("sysfs"), {"kobject"}, {})

(* The key path is ready: the wake-up interrupt may come from now on.      *)
RegisterEint ==
    /\ step = "eint"
    /\ eints' = eints + 1
    /\ g_bt803_first' = FALSE
    /\ step' = After("eint")
    /\ UNCHANGED <<driver, held, leaked, binds, failures, failed, removed,
                   pinVars>>

DriveReset ==
    /\ step = "reset"
    /\ ResetPin
    /\ step' = After("reset")
    /\ UNCHANGED <<driver, held, leaked, eints, g_bt803_first, binds,
                   failures, failed, removed>>

(* The device whose creation failed is deleted all the same: the kernel    *)
(* oopses on the error pointer, and the driver stays as it is.             *)
Given(d) == {"device", "class", "number", "cdev"}
            \cup (IF d = "bt803" THEN {"input"} ELSE {})

Remove ==
    /\ step = "bound"
    /\ IF "device" \in held
       THEN /\ step' = "unbound" /\ removed' = TRUE
            /\ held' = held \ Given(driver)
       ELSE step' = "oops" /\ UNCHANGED <<removed, held>>
    /\ UNCHANGED <<driver, leaked, eints, g_bt803_first, binds, failures,
                   failed, pinVars>>

(* The file of the BT803's first probe is still there after a remove.      *)
Write(w) ==
    /\ driver = "bt803"
    /\ \/ "proc" \in held \cup leaked /\ \E v \in Values : Parse(w, v)
       \/ Select(w) \/ Drive(w) \/ Close(w)
    /\ UNCHANGED lifeVars

Next ==
    \/ Probe \/ AllocNumber \/ AllocCdev \/ AddCdev \/ CreateClass
    \/ CreateDevice \/ CreateProc \/ AllocInput \/ StartThread
    \/ CreateKobject \/ CreateStatus \/ RegisterEint \/ DriveReset \/ Remove
    \/ \E w \in Writers : Write(w)

Spec == Init /\ [][Next]_vars

-----------------------------------------------------------------------------
(* Types of the state.                                                     *)
TypeOK ==
    /\ PinsTypeOK
    /\ driver \in Drivers
    /\ step \in Steps \cup {"unbound", "bound", "oops"}
    /\ held \subseteq Resources /\ leaked \subseteq Resources
    /\ eints \in Nat /\ g_bt803_first \in BOOLEAN
    /\ binds \in 0..MaxBinds /\ failures \in 0..MaxFailures
    /\ failed \subseteq Steps /\ removed \in BOOLEAN

(* What a failing step leaves behind for good.                             *)
LeftBy(s) ==
    CASE s = "add" -> {"cdev"}
      [] s = "class" -> {"number", "cdev"}
      [] s = "input" -> {"number", "cdev", "class", "device"}
      [] s = "kobject" -> {"number", "cdev", "class", "device", "input"}
      [] OTHER -> {}

(* Unbinding gives back all that a probe registered but the BT803's /proc  *)
(* file, key thread and status file, so the driver can be bound again; and *)
(* a probe that fails leaves what its failing step accounts for, no more,  *)
(* whatever failed in the probes before it.                                *)
LeavesNothing ==
    step = "unbound" =>
        held \cup leaked \subseteq
            (UNION {LeftBy(s) : s \in failed})
            \cup (IF driver = "bt803"
                  THEN {"proc", "thread", "kobject", "sysfs"} ELSE {})

(* The wake-up interrupt is registered once, however often the driver is   *)
(* bound and whatever fails on the way, and never while the key thread     *)
(* would have no input device to report to: that device is there from the  *)
(* registration until the driver is first unbound.                         *)
EintReady ==
    /\ eints <= 1
    /\ driver = "bt803" /\ step \in {"bound", "oops"} => eints = 1
    /\ eints > 0 /\ ~removed => "input" \in held
=============================================================================
