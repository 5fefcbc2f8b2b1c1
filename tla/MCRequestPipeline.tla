-------------------------- MODULE MCRequestPipeline --------------------------
(* The pipeline with three questions, two of them about the same program,  *)
(* so that one waits in the queue while another is answered.               *)
EXTENDS RequestPipeline

CONSTANTS r1, r2, r3, p1, p2

MCRequests == {r1, r2, r3}
MCPrograms == {p1, p2}
MCProgramOf == [r \in Requests |-> IF r = r3 THEN p2 ELSE p1]
==============================================================================
