------------------------------ MODULE MCStartup ------------------------------
(* Constants of the model-checked instance of Startup. *)
EXTENDS Startup

\* The attribute is A.  A file may lack it, hold it between others and twice, end
\* with it without a newline, or hold a line that fgets reads in two pieces, the
\* second of which looks like the attribute's.
MCFiles ==
  {<<"B", "=", "1", "nl">>,
   <<"C", "nl", "A", "=", "1", "nl", "B", "=", "1", "nl", "A", "=", "1", "nl">>,
   <<"B", "nl", "A">>,
   <<"B", "=", "1", "1", "1", "A", "=", "1", "nl">>}

MCValues == {<<"1">>, <<"2", "2">>}

MCProtocolOf == [r1 |-> "sl", r2 |-> "text"]
MCCommandOf  == [r1 |-> "get_ip", r2 |-> "sys_info"]

=============================================================================
