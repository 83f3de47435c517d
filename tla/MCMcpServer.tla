---------------------------- MODULE MCMcpServer ----------------------------
(***************************************************************************)
(* A small instance of McpServer: a client that may initialize, call each  *)
(* kind of tool with and without approval, in either framing, and send     *)
(* what is no request.                                                     *)
(***************************************************************************)
EXTENDS McpServer

Plain == [kind |-> "ping", framing |-> "newline", tool |-> "memory_query",
          approve |-> FALSE, dry_run |-> FALSE, valid |-> TRUE, file |-> "good"]
Write(t) == [Plain EXCEPT !.kind = "call", !.tool = t]

SomeFrames ==
    {[Plain EXCEPT !.kind = k] : k \in {"bad", "no id", "unknown"}}
        \cup {[Plain EXCEPT !.kind = "initialize", !.framing = "Content-Length"]}
        \cup {[Write("memory_consolidate") EXCEPT !.approve = a, !.dry_run = d] :
                 a \in BOOLEAN, d \in BOOLEAN}
        \cup {[Write("dream") EXCEPT !.approve = TRUE, !.file = "unreadable"]}
=============================================================================
