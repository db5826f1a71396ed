------------------------------ MODULE PingPong ------------------------------
(***************************************************************************)
(* What a double-buffered region promises (memory/double_buffer.h): its    *)
(* reader sees the front and its loader fills the back, which nobody sees  *)
(* before a flip exchanges the two; switching the back on and off, and     *)
(* switching contexts, never shows the reader anything else.               *)
(***************************************************************************)
CONSTANTS Data, Zero

VARIABLES
    front,     \* what a reader sees
    back,      \* what the next flip shows; Zero without a back
    double,    \* the back exists
    kept       \* the front when the context was last saved

ppVars == <<front, back, double, kept>>

PingPongInit == front = Zero /\ back = Zero /\ double = FALSE /\ kept = Zero

WriteFront(d) == front' = d /\ UNCHANGED <<back, double, kept>>

Fill(d) == double /\ back' = d /\ UNCHANGED <<front, double, kept>>

Flip == double /\ front' = back /\ back' = front /\ UNCHANGED <<double, kept>>

Grow == ~double /\ double' = TRUE /\ UNCHANGED <<front, back, kept>>

Shrink == double' = FALSE /\ back' = Zero /\ UNCHANGED <<front, kept>>

Keep == kept' = front /\ UNCHANGED <<front, back, double>>

BringBack == front' = kept /\ back' = Zero /\ double' = FALSE /\ UNCHANGED kept

PingPongNext ==
    \/ \E d \in Data : WriteFront(d) \/ Fill(d)
    \/ Flip \/ Grow \/ Shrink \/ Keep \/ BringBack

PingPongSpec == PingPongInit /\ [][PingPongNext]_ppVars

=============================================================================
