-------------------------------- MODULE MCFarm --------------------------------
(***************************************************************************)
(* Finite instances of Farm for TLC: machines with one GPU.                *)
(***************************************************************************)
EXTENDS Farm

MCNoGpu == -1

Job(kind, upload) == [kind |-> kind, priority |-> 0, depends_on |-> NoJob, upload |-> upload]

UploadInputs == {Job("ffmpeg", TRUE)}
MixedInputs  == {Job("ffmpeg", TRUE), Job("test", FALSE)}

OneGpu == {[runs |-> Kinds, gpus |-> {0}, hot |-> {}, loaded |-> FALSE]}
==============================================================================
