--------------------------- MODULE MCTextProtocol ---------------------------
(* Constants of the model-checked instance of TextProtocol. *)
EXTENDS TextProtocol, TLC

\* No property names a worker.
Interchangeable == Permutations(Workers)

MCCode == [part \in {"[3]", "[30]", "[65", "539", "]"} |->
             CASE part = "[3]" -> <<91, 51, 93>> [] part = "[30]" -> <<91, 51, 48, 93>>
               [] part = "[65" -> <<91, 54, 53>> [] part = "539" -> <<53, 51, 57>>
               [] part = "]" -> <<93>>]

\* A short first word, one that reaches behind it and overflows frame_id, and one
\* that the pattern does not know.
Short == <<"[3]", " ", "1", ".", "2">>
Over  == <<"[65", "539", "]", " ", "help">>
Zero  == <<"[30]", " ", "help">>

MCLines  == {Short, Over, Zero}
MCNumber == [l \in MCLines |-> CASE l = Short -> 3 [] l = Over -> 65539 [] l = Zero -> 30]

MCAddresses == {<<"10", ".", "1">>}

=============================================================================
