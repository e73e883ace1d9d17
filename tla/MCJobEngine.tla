----------------------------- MODULE MCJobEngine -----------------------------
(***************************************************************************)
(* Finite instances of JobEngine for TLC.                                  *)
(***************************************************************************)
EXTENDS JobEngine

Input(kind, priority, dep, upload) ==
  [kind |-> kind, priority |-> priority, depends_on |-> dep, upload |-> upload]

\* GPU indices are naturals; -1 is the null gpu_slot.
\* Scheduling: two kinds, two priorities, an optional dependency on job 1, an upload.
MCNoGpu == -1

SchedulingInputs ==
  {Input("ffmpeg", 0, NoJob, FALSE), Input("ffmpeg", 1, 1, FALSE), Input("topaz", 0, NoJob, TRUE)}

\* A machine whose GPU comes and goes and one saturated by an artist.
SchedulingReports ==
  {[runs |-> {"ffmpeg", "topaz"}, gpus |-> {0, 1}, hot |-> {0}, loaded |-> FALSE],
   [runs |-> {"ffmpeg"}, gpus |-> {}, hot |-> {}, loaded |-> FALSE]}

\* History: uploads and a plain job, in dependency chains.
HistoryInputs ==
  {Input("ffmpeg", 0, NoJob, TRUE), Input("ffmpeg", 0, 1, FALSE)}

HistoryReports == {[runs |-> {"ffmpeg"}, gpus |-> {}, hot |-> {}, loaded |-> FALSE]}
==============================================================================
