------------------------------- MODULE MCShell -------------------------------
(* Instances of the shell for TLC: the shell and two processes.            *)
EXTENDS Shell

MCProcs == 0..2
MCWrites == {2}
MCLines == { <<"loop">>, <<"loop", "-b">>, <<"nosuch", "-b">>, <<"cat", "|", "wc">>,
             <<"cat", "|", "loop">>, <<"|", "wc">>, <<"-b", "|", "wc">>, <<"-b", "-b", "cat">>,
             <<"cat", "-b", "|", "wc">>, <<"cat", "|", "wc", "-b">> }
MCPipelines == { <<"cat", "|", "wc">> }

=============================================================================
