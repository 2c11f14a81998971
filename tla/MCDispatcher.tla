---------------------------- MODULE MCDispatcher ----------------------------
(* Constants of the model-checked instance of Dispatcher.  Commands that share *)
(* no static variable need not be sent in one run: what the clients send is   *)
(* one of two workloads.                                                      *)
EXTENDS Dispatcher

VARIABLE work

NetworkCmds == {"get_ip", "set_ip", Other}
OtherCmds   == {"set_date", "add_user", "sys_info", "preview_on", "preview_off",
                "help", "reboot"}
\* Done, not started, killed, and the exit codes 1, 2 and 127 (no such script).
AllStatuses == {0, -1, 9, 256, 512, 32512}

AllCmds     == NetworkCmds \cup OtherCmds

MCInit == Init /\ work \in {NetworkCmds, OtherCmds}

MCNext == /\ RegisterCmd \/ \E c \in Cmds : c.name \in work /\ DoCmd(c)
          /\ UNCHANGED work

MCSpec == MCInit /\ [][MCNext]_<<vars, work>>

=============================================================================
