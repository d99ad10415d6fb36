------------------------------- MODULE QnScan -------------------------------
(***************************************************************************)
(* What a caller may expect of the two seek functions of the FM driver:    *)
(* a call sweeps a range of channels upward or downward; `wanted' is those *)
(* of them on which there is something to receive.  QND_RXSeekCHAll lists  *)
(* them one by one in the order of the sweep, none twice and none skipped, *)
(* up to the capacity of the list, and returns their number.  QND_RXSeekCH *)
(* returns the first, or 0, and leaves the list of an earlier call alone.  *)
(***************************************************************************)
EXTENDS Integers, Sequences

CONSTANT ChMax                  \* capacity of the channel list

VARIABLES
    mode,       \* "none", "one" (QND_RXSeekCH) or "all" (QND_RXSeekCHAll)
    wanted,     \* the receivable channels of the call in progress
    upward,     \* the direction of its sweep
    found,      \* the channel list
    answer      \* what the last call returned

vars == <<mode, wanted, upward, found, answer>>

Left == {c \in wanted : \A i \in DOMAIN found : found[i] # c}
First(S, c) == c \in S /\ \A d \in S : IF upward THEN c <= d ELSE d <= c

Full == Len(found) = ChMax

Init ==
    /\ mode = "none"
    /\ wanted = {} /\ upward = FALSE
    /\ found = <<>>
    /\ answer = 0

Begin(m) ==
    /\ mode = "none"
    /\ mode' = m
    /\ wanted' \in SUBSET (Nat \ {0})
    /\ upward' \in BOOLEAN
    /\ found' = IF m = "all" THEN <<>> ELSE found
    /\ UNCHANGED answer

ListNext ==
    /\ mode = "all"
    /\ ~Full
    /\ \E c \in wanted : First(Left, c) /\ found' = Append(found, c)
    /\ UNCHANGED <<mode, wanted, upward, answer>>

End ==
    /\ mode' = "none"
    /\ wanted' = {} /\ upward' = FALSE
    /\ UNCHANGED found

EndAll ==
    /\ mode = "all"
    /\ Full \/ Left = {}
    /\ answer' = Len(found)
    /\ End

EndOne ==
    /\ mode = "one"
    /\ IF wanted = {} THEN answer' = 0 ELSE First(wanted, answer')
    /\ End

Next ==
    \/ \E m \in {"one", "all"} : Begin(m)
    \/ ListNext
    \/ EndAll
    \/ EndOne

Spec == Init /\ [][Next]_vars
=============================================================================
