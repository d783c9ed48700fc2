--------------------------- MODULE ResponseSignal ---------------------------
(***************************************************************************)
(* How a final response is classified: IsBackpressureResponse of           *)
(* internal/backpressure and observe of internal/transport.  A body is     *)
(* abstracted to what the code can tell apart: no bytes, bytes containing  *)
(* RESOURCE_EXHAUSTED, or other bytes.                                     *)
(***************************************************************************)
EXTENDS Integers

Statuses == {200, 404, 429, 500, 502, 503, 504}
Bodies == {"empty", "exhausted", "other"}

IsBackpressureResponse(status, body) ==
    \/ status = 429
    \/ status = 503 /\ body = "empty"
    \/ body = "exhausted"

(* observe reads the body only of a 500 or a 503; any other response is    *)
(* classified with an empty one.                                           *)
Observe(status, body) ==
    LET read == IF status \in {500, 503} THEN body ELSE "empty"
    IN  IF IsBackpressureResponse(status, read) THEN "pressure"
        ELSE IF status < 500 THEN "healthy"
        ELSE "neutral"
=============================================================================
