--------------------------- MODULE FileDelivery ---------------------------
(***************************************************************************)
(* What a file transfer promises.  Nothing is delivered without consent;   *)
(* a file is saved, and the sender is told of success, only when the       *)
(* receiver holds a verified copy of every chunk of the file that was      *)
(* offered.  Either side may give up at any time before that.              *)
(***************************************************************************)
VARIABLES
  consent,    \* the receiving user's answer: "none", "yes", "no"
  held,       \* the receiver holds every chunk of the offered file
  saved,      \* the file has been written
  reported    \* what OfferFile told its caller: "none", "success", "failure"

vars == <<consent, held, saved, reported>>

Init ==
  /\ consent = "none"
  /\ held = FALSE
  /\ saved = FALSE
  /\ reported = "none"

Answer ==
  /\ consent = "none"
  /\ consent' \in {"yes", "no"}
  /\ UNCHANGED <<held, saved, reported>>

Hold ==
  /\ consent = "yes"
  /\ held' = TRUE
  /\ UNCHANGED <<consent, saved, reported>>

Save ==
  /\ held
  /\ saved' = TRUE
  /\ UNCHANGED <<consent, held, reported>>

ReportSuccess ==
  /\ held
  /\ reported = "none"
  /\ reported' = "success"
  /\ UNCHANGED <<consent, held, saved>>

ReportFailure ==
  /\ reported = "none"
  /\ reported' = "failure"
  /\ UNCHANGED <<consent, held, saved>>

Next == Answer \/ Hold \/ Save \/ ReportSuccess \/ ReportFailure

Spec == Init /\ [][Next]_vars
===========================================================================
