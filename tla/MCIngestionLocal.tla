---- MODULE MCIngestionLocal ----
(* The ingestion-service with the in-process queue, on small inventory     *)
(* files.                                                                  *)
EXTENDS IngestionLocal

(* Rows 1 and 3 carry the same registration, row 2 has none and passes     *)
(* validation only when the LLM repair answers. One chunk holds rows 1 and *)
(* 2; the other, when there is one, row 3.                                 *)
TwoRows   == 1 .. 2
ThreeRows == 1 .. 3
MCChunkOf(rows) == [row \in rows |-> IF row = 3 THEN 1 ELSE 0]
MCRegOf(rows)   == [row \in rows |-> IF row = 2 THEN "none" ELSE "CAA"]
MCQuality(rows) == [row \in rows |-> IF row = 2 THEN "vague" ELSE "good"]

TwoChunkOf   == MCChunkOf(TwoRows)
TwoRegOf     == MCRegOf(TwoRows)
TwoQuality   == MCQuality(TwoRows)
ThreeChunkOf == MCChunkOf(ThreeRows)
ThreeRegOf   == MCRegOf(ThreeRows)
ThreeQuality == MCQuality(ThreeRows)
====
