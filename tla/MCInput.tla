------------------------------ MODULE MCInput ------------------------------
(* Instances of Input: caps lock (57), delete (76) and control (224), by    *)
(* the code's scan codes. The last two held together reset the machine here *)
(* (in the code, with alt too).                                             *)
EXTENDS Input

(* "if there are no events NEWER (or no NEW events newer or the same age),  *)
(* return error" (Input.c:439): when a poll that no report interrupted      *)
(* fails, every event still in the ring has been delivered.                 *)
FailedPollMissesNothing ==
    reader.at = "Failed" /\ reader.arrived = 0 =>
        \A s \in Slots : PressedQueue[s] \in {EmptySlot} \cup Range(delivered)
=============================================================================
