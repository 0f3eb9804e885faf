---------------------------- MODULE MCSysRuntime ----------------------------
EXTENDS SysRuntime

Both(c) == [s \in Stream |-> c]

\* Children that write more than a pipe holds, to one stream or to both, and children
\* that read to the end of their input first; with and without a timeout.
MCSpecs ==
  {[program |-> <<"stdout", "stdout">>, utf8 |-> TRUE, timeout_ms |-> TRUE,
    inherit_stdin |-> TRUE, capture |-> Both("yes")],
   [program |-> <<"stderr", "stderr", "stdout">>, utf8 |-> TRUE, timeout_ms |-> FALSE,
    inherit_stdin |-> TRUE, capture |-> Both("default")],
   [program |-> <<"stdin", "stdout">>, utf8 |-> FALSE, timeout_ms |-> FALSE,
    inherit_stdin |-> FALSE, capture |-> Both("yes")],
   [program |-> <<"stdin", "stderr">>, utf8 |-> TRUE, timeout_ms |-> TRUE,
    inherit_stdin |-> FALSE, capture |-> [Both("no") EXCEPT !["stderr"] = "yes"]]}

MCTexts == {<<"a", "newline">>, <<"invalid">>}

MCSeeks == {[offset |-> 0, whence |-> "start"], [offset |-> -1, whence |-> "current"],
            [offset |-> 1, whence |-> "end"]}

MCPollSets == {ListenerId, SocketId \cup UdpId}

MCOpenFlags == {{}, {"read", "append"}, {"write", "create", "truncate"}, {"create"}}

=============================================================================
