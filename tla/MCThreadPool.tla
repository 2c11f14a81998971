---------------------------- MODULE MCThreadPool ----------------------------
(* Constants of the model-checked instances of ThreadPool. *)
EXTENDS ThreadPool, TLC

\* Workers are interchangeable, and so are tasks; no property names one of
\* them.  Used by the safety run only.
Interchangeable == Permutations(Workers) \cup Permutations(Tasks)

=============================================================================
