----------------------------- MODULE MCVocoder -----------------------------
(* Instances of Vocoder for TLC: the pitch values offered to the controls. *)
EXTENDS Vocoder

(* a pitch, and a negative one, which the vocoder replaces *)
MCValues == {-1, 3}
=============================================================================
