----------------------------- MODULE MCCmdQueue -----------------------------
(* Constants of the model-checked instances of CmdQueue. *)
EXTENDS CmdQueue, TLC

\* Commands are interchangeable; used by runs without liveness.
Interchangeable == Permutations(Cmds)

=============================================================================
