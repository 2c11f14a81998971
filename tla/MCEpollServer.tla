--------------------------- MODULE MCEpollServer ----------------------------
(* Constants of the model-checked instances of EpollServer. *)
EXTENDS EpollServer, TLC

\* Connections and workers are interchangeable; used by runs without liveness.
Interchangeable == Permutations(Conns) \cup Permutations(Workers)

=============================================================================
