---------------------------- MODULE MCClientList ----------------------------
(* Constants of the model-checked instance of ClientList. *)
EXTENDS ClientList

\* What accept returns behind the standard streams, listenfd and epollfd.
MCFds == 5..8

=============================================================================
