----------------------------- MODULE Bt803Pins -----------------------------
(***************************************************************************)
(* /proc/bt803: a write parses a hexadecimal number into the global        *)
(* g_ctrl_pin and then drives the output its high digit selects to its low *)
(* digit (bt803_write_proc); a read returns g_ctrl_pin.  The file is       *)
(* writable by everyone and the handler takes no lock: the number is read  *)
(* again from the global for the selection and for the level.  The end of  *)
(* bt803_probe drives the reset pin too, with the file already there when  *)
(* the driver is bound again: DriverLife composes the two.                 *)
(***************************************************************************)
EXTENDS Integers

CONSTANTS
    Writers,    \* the processes writing the file
    Values      \* the bytes they write

ASSUME WriterAssumption == Writers # {}
ASSUME ValueAssumption  == Values \subseteq 0..255

Pins == {"power", "reset", "wakeup"}
Levels == {0, 1}
NoValue == 256

VARIABLES
    g_ctrl_pin,
    pins,       \* levels of the three outputs
    wpc,        \* where each writer is
    val,        \* the byte each writer is writing, or NoValue
    written,    \* has a byte been written?
    raced,      \* did writes, or a write and a probe, overlap since the
                \* file was last at rest?
    reprobed    \* has a probe driven the reset pin since the last write?

pinVars == <<g_ctrl_pin, pins, wpc, val, written, raced, reprobed>>

High(v) == v \div 16
Low(v)  == v % 16
Level(n) == IF n = 0 THEN 0 ELSE 1

PinOf(v) == CASE High(v) = 1 -> "power"
              [] High(v) = 2 -> "reset"
              [] High(v) = 3 -> "wakeup"
              [] OTHER -> "none"

AtRest == \A w \in Writers : wpc[w] = "idle"

PinsInit ==
    /\ g_ctrl_pin = 0
    /\ pins \in [Pins -> Levels]
    /\ wpc = [w \in Writers |-> "idle"]
    /\ val = [w \in Writers |-> NoValue]
    /\ written = FALSE /\ raced = FALSE /\ reprobed = FALSE

(* kstrtoul succeeded: the byte is stored for everyone to see.  (A text    *)
(* that is no number is refused and changes nothing.)                      *)
Parse(w, v) ==
    /\ wpc[w] = "idle"
    /\ g_ctrl_pin' = v
    /\ val' = [val EXCEPT ![w] = v]
    /\ wpc' = [wpc EXCEPT ![w] = "select"]
    /\ written' = TRUE
    /\ raced' = ~AtRest
    /\ reprobed' = FALSE
    /\ UNCHANGED pins

(* Writer w goes on to place `to`; at "idle" its write is over.            *)
GoesOn(w, to) ==
    /\ wpc' = [wpc EXCEPT ![w] = to]
    /\ val' = [val EXCEPT ![w] = IF to = "idle" THEN NoValue ELSE @]
    /\ UNCHANGED <<g_ctrl_pin, written, raced, reprobed>>

(* The switch on the high digit.                                           *)
Select(w) ==
    /\ wpc[w] = "select"
    /\ GoesOn(w, IF High(g_ctrl_pin) = 0 THEN "close1"
                 ELSE IF PinOf(g_ctrl_pin) \in Pins THEN PinOf(g_ctrl_pin)
                 ELSE "idle")
    /\ UNCHANGED pins

(* The selected output follows the low digit; any digit but 0 is high.     *)
Drive_Raw(w) ==
    /\ wpc[w] \in Pins
    /\ pins' = [pins EXCEPT ![wpc[w]] = Low(g_ctrl_pin)]
    /\ GoesOn(w, "idle")

Drive_Fallthrough(w) ==
    /\ wpc[w] \in Pins
    /\ pins' = [p \in Pins |-> IF p = wpc[w] \/ wpc[w] = "power"
                               THEN Level(Low(g_ctrl_pin)) ELSE pins[p]]
    /\ GoesOn(w, "idle")

Drive(w) ==
    /\ wpc[w] \in Pins
    /\ pins' = [pins EXCEPT ![wpc[w]] = Level(Low(g_ctrl_pin))]
    /\ GoesOn(w, "idle")

(* A high digit of 0 drives all three outputs low, one after the other.    *)
CloseStep == [close1 |-> [pin |-> "power",  next |-> "close2"],
              close2 |-> [pin |-> "reset",  next |-> "close3"],
              close3 |-> [pin |-> "wakeup", next |-> "idle"]]

Close_PowerOnly(w) ==
    /\ wpc[w] \in DOMAIN CloseStep
    /\ pins' = [pins EXCEPT ![CloseStep[wpc[w]].pin] = 0]
    /\ GoesOn(w, "idle")

Close(w) ==
    /\ wpc[w] \in DOMAIN CloseStep
    /\ pins' = [pins EXCEPT ![CloseStep[wpc[w]].pin] = 0]
    /\ GoesOn(w, CloseStep[wpc[w]].next)

(* The end of bt803_probe: the pins become outputs, and reset is driven    *)
(* high past the file, which goes on reading back the last byte written.   *)
ResetPin ==
    /\ pins' = [pins EXCEPT !["reset"] = 1]
    /\ raced' = (raced \/ ~AtRest)
    /\ reprobed' = TRUE
    /\ UNCHANGED <<g_ctrl_pin, wpc, val, written>>

-----------------------------------------------------------------------------
(* Types of the state.                                                     *)
PinsTypeOK ==
    /\ g_ctrl_pin \in 0..255
    /\ pins \in [Pins -> Levels]
    /\ wpc \in [Writers -> {"idle", "select"} \cup Pins \cup DOMAIN CloseStep]
    /\ val \in [Writers -> (0..255) \cup {NoValue}]
    /\ written \in BOOLEAN /\ raced \in BOOLEAN /\ reprobed \in BOOLEAN

(* What the file reads back is what the outputs are: at rest, the output   *)
(* the last byte names has the level it names, and a byte with a high      *)
(* digit of 0 left every output low; but the reset pin of a driver bound   *)
(* again since is high.  Overlapping writes break this, and the next write *)
(* that has the file for itself restores it.                               *)
ReadbackIsTrue ==
    AtRest /\ ~raced /\ written =>
        \A p \in Pins \ (IF reprobed THEN {"reset"} ELSE {}) :
            /\ PinOf(g_ctrl_pin) = p => pins[p] = Level(Low(g_ctrl_pin))
            /\ High(g_ctrl_pin) = 0 => pins[p] = 0

(* "0x10-->off, 0x11-->on", and so on for each pin: as long as writes do   *)
(* not overlap, an output only changes to the level that the write in      *)
(* progress asked of that output, or a probe drives reset high.            *)
PinsServeWrites ==
    [][~raced => \A p \in Pins : pins'[p] # pins[p] =>
         \/ reprobed' /\ p = "reset" /\ pins'[p] = 1
         \/ \E w \in Writers :
               /\ wpc[w] # "idle"
               /\ \/ PinOf(val[w]) = p /\ pins'[p] = Level(Low(val[w]))
                  \/ High(val[w]) = 0 /\ pins'[p] = 0]_pinVars
=============================================================================
