--------------------------- MODULE MCSchedulerLoop ---------------------------
(***************************************************************************)
(* Finite instance of SchedulerLoop: two workers, the second with or       *)
(* without GPUs, and every table of three jobs whose first is settled,     *)
(* running or queued and whose others are queued, with every priority and  *)
(* dependency.                                                             *)
(***************************************************************************)
EXTENDS SchedulerLoop

MCNoGpu == -1

LoopReports ==
  {[runs |-> {"ffmpeg"}, gpus |-> {0, 1}, hot |-> {}, loaded |-> FALSE],
   [runs |-> {"ffmpeg", "topaz"}, gpus |-> {0, 1}, hot |-> {0}, loaded |-> FALSE],
   [runs |-> {"topaz"}, gpus |-> {}, hot |-> {}, loaded |-> FALSE],
   [runs |-> {"topaz"}, gpus |-> {}, hot |-> {}, loaded |-> TRUE]}

LoopInputs ==
  [kind: {"ffmpeg", "topaz"}, priority: {0, 1}, depends_on: {NoJob, 1}, upload: {FALSE}]

Row(input, status, unit, leased) ==
  [input |-> input, status |-> status, unit |-> unit, leased |-> leased, retry_count |-> 0]

First(status, unit, leased) ==
  Row([kind |-> "topaz", priority |-> 0, depends_on |-> NoJob, upload |-> FALSE],
      status, unit, leased)

FirstRows ==
  {First("QUEUED", NoUnit, FALSE),
   First("COMPLETED", [worker |-> 1, gpu |-> 0], TRUE),
   First("RUNNING", [worker |-> 1, gpu |-> 0], TRUE),
   First("RUNNING", [worker |-> 1, gpu |-> 1], FALSE)}

QueuedRows == {Row(input, "QUEUED", NoUnit, FALSE) : input \in LoopInputs}

LoopTables ==
  {[j \in {1, 2, 3} |-> IF j = 1 THEN first ELSE IF j = 2 THEN second ELSE third] :
     first \in FirstRows, second \in QueuedRows, third \in QueuedRows}
==============================================================================
