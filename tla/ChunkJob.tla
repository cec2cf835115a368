-------------------------------- MODULE ChunkJob --------------------------------
(***************************************************************************)
(* What a chunked job promises its caller (the contract stated above       *)
(* run_chunks_parallel and run_mc_chunks in src/core/mc_chunking.h): one   *)
(* answer, the same for every worker count. Only the failure to create a   *)
(* worker thread may replace it, and only when workers were wanted.        *)
(***************************************************************************)
EXTENDS ChunkPlan

VARIABLES job, outcome

vars == <<job, outcome>>

Init ==
  /\ job \in {j \in Jobs : WellFormed(j)}
  /\ outcome = Pending

Answer ==
  /\ outcome = Pending
  /\ outcome' = Promised(job)
  /\ UNCHANGED job

ThreadCreationFails ==
  /\ outcome = Pending
  /\ Width(job) > 1
  /\ outcome' = SpawnError
  /\ UNCHANGED job

Next == Answer \/ ThreadCreationFails

Spec == Init /\ [][Next]_vars /\ WF_vars(Next)
=============================================================================
