------------------------------ MODULE MCQnSeek ------------------------------
(* Requests, signals and noise floors for model checking QnSeek.           *)
EXTENDS QnSeek

CONSTANT CallKinds, SignalKinds, FloorKinds

Request(kind) ==
    LET R(a, b, e, s, d) == [all |-> a, start |-> b, stop |-> e, step |-> s,
                             db |-> d, up |-> 1]
    IN  CASE kind = "all-down"   -> R(TRUE, 10260, 10240, 1, 2)
          [] kind = "all-one"    -> R(TRUE, 10250, 10250, 1, 0)
          [] kind = "all-clamp"  -> R(TRUE, 10770, 10830, 2, 0)
          [] kind = "one-up"     -> R(FALSE, 10245, 10250, 0, 0)
          [] kind = "one-low"    -> R(FALSE, 20, 10, 1, 0)

(* Floors: quiet everywhere; everything louder.                            *)
FloorOf(kind) ==
    CASE kind = "quiet" -> [i \in Bands |-> 10]
      [] kind = "noisy" -> [i \in Bands |-> IF i = 4 THEN 14 ELSE 16]

(* Signals: a weak station, acceptable only for its ratio, and too weak    *)
(* over a noisy floor; a strong one with a bad ratio, acceptable only      *)
(* while it is far enough above the floor; one on which the scan takes as  *)
(* long as the driver waits; one on which it never ends.                   *)
SignalOf(kind) ==
    LET S(r, p, f, m, q) == [rssi |-> r, polls |-> p, ifcnt |-> f,
                             stereo |-> m, snr |-> q]
    IN  CASE kind = "weak"   -> S(19, 2, 1829, FALSE, 6)
          [] kind = "strong" -> S(31, 1, 2048, FALSE, 55)
          [] kind = "late"   -> S(60, PollMax, 2048, TRUE, 30)
          [] kind = "stuck"  -> S(60, 300, 2048, TRUE, 30)

MCRequests == {Request(k) : k \in CallKinds}
MCFloors   == {FloorOf(k) : k \in FloorKinds}
MCSignals  == {SignalOf(k) : k \in SignalKinds}

(* The refinement is proved for servable requests; these are.              *)
ASSUME MCServable == \A r \in MCRequests : Servable(r)
=============================================================================
