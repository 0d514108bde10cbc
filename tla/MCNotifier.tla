----------------------------- MODULE MCNotifier -----------------------------
(* Model-checking instances of Notifier. *)
EXTENDS Notifier

(* No wait before the first attempt, then short ones. *)
TwoAttempts == <<0, 1>>
=============================================================================
