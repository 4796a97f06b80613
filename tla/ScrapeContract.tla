--------------------------- MODULE ScrapeContract ---------------------------
(***************************************************************************)
(* What a request to /metrics promises, whatever happens on the node while *)
(* it is served: each answer is collected from nothing, holds one value    *)
(* for a series, and only series of selected containers; it is served      *)
(* exactly as collected, and not at all once the collection has met an     *)
(* error.  A crash answers nothing and leaves nothing.                     *)
(***************************************************************************)
CONSTANTS
  Metrics,       \* the series, each with a label
  Sources,       \* what a value is read from
  Selected       \* the labels of the containers selected by the configuration

VARIABLES
  status,   \* "none" before the first request, "collecting", "broken" once an
            \* error was met, and the status of the last answer
  exposed   \* the values collected, by series

contractVars == <<status, exposed>>

Init == status = "none" /\ exposed = [m \in {} |-> {}]

Request ==
  /\ status \in {"none", "200", "500"}
  /\ status' = "collecting"
  /\ exposed' = [m \in {} |-> {}]

Expose ==
  /\ status \in {"collecting", "broken"}
  /\ \E m \in Metrics \ DOMAIN exposed :
       /\ DOMAIN exposed' = DOMAIN exposed \cup {m}
       /\ m.label \in Selected
       /\ exposed'[m] \in Sources
       /\ \A n \in DOMAIN exposed : exposed'[n] = exposed[n]
  /\ UNCHANGED status

Break == status = "collecting" /\ status' = "broken" /\ UNCHANGED exposed

Serve == status = "collecting" /\ status' = "200" /\ UNCHANGED exposed

Fail == status = "broken" /\ status' = "500" /\ UNCHANGED exposed

Crash ==
  /\ status \in {"collecting", "broken"}
  /\ status' = "none"
  /\ exposed' = [m \in {} |-> {}]

Next == Request \/ Expose \/ Break \/ Serve \/ Fail \/ Crash

Spec == Init /\ [][Next]_contractVars
=============================================================================
