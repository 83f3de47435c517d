------------------------------ MODULE McpServer ------------------------------
(***************************************************************************)
(* The stdio server of mcp.rs: a reader thread takes frames off stdin and  *)
(* puts them on a channel; the main loop takes them off the channel with a *)
(* deadline, runs the tool a frame calls and writes the answer.            *)
(*                                                                         *)
(* What the client has sent is a sequence of frames.  The reader has read  *)
(* a prefix of it and the main loop has dispatched a prefix of that; the   *)
(* frames between the two are on the channel.                              *)
(***************************************************************************)
EXTENDS Naturals, Sequences, FiniteSets

CONSTANTS
    Frames,     \* what the client may send
    MaxFrames,
    MaxFaults   \* answers that cannot be written, file and tool failures

\* What a frame is: unreadable or cut short (an error of read_frame), an array
\* or an object without an id (never answered), or a request.
Kinds == {"bad", "no id", "initialize", "ping", "list", "call", "unknown"}

ReadTools == {"memory_query", "provenance", "skill_list", "skill_show",
              "checkpoint_audit", "loop_status"}

\* TOOLS with requires_approval.
ApprovalTools == {"memory_consolidate", "memory_signoff", "memory_derive",
                  "skill_add", "loop_dispatch", "loop_objective", "loop_verify",
                  "dream"}

\* The file argument: outside the root, not a regular file or too large; not to
\* be read or not UTF-8; or good.  "valid" is the tool's own argument (an index,
\* a budget, a known name).
Frame == [kind : Kinds, framing : {"Content-Length", "newline"},
          tool : ReadTools \cup ApprovalTools, approve : BOOLEAN,
          dry_run : BOOLEAN, valid : BOOLEAN,
          file : {"rejected", "unreadable", "good"}]

ASSUME McpServerAssumption ==
    /\ Frames \subseteq Frame
    /\ {MaxFrames, MaxFaults} \subseteq Nat

VARIABLES
    sent,         \* what the client has written to stdin
    closed,       \* the client has closed stdin
    reader,       \* how much the reader has read, and whether it goes on
    server,       \* the main loop
    initialized,
    out,          \* the answers, in the order they were written
    effects,      \* what the calls did: the calls that wrote, and how much
    faults

vars == <<sent, closed, reader, server, initialized, out, effects, faults>>

Answer == [to : 1..MaxFrames, framing : {"Content-Length", "newline"}, error : BOOLEAN]
Effect == [by : 1..MaxFrames, what : {"whole", "part"}]

Init ==
    /\ sent = <<>>
    /\ closed = FALSE
    /\ reader = [read |-> 0, state |-> "reading"]
    /\ server = [pc |-> "recv", dispatched |-> 0, error |-> FALSE, end |-> "none"]
    /\ initialized = FALSE
    /\ out = <<>>
    /\ effects = {}
    /\ faults = 0

-----------------------------------------------------------------------------
(* The client *)

Send ==
    /\ Len(sent) < MaxFrames /\ ~closed
    /\ \E f \in Frames : sent' = Append(sent, f)
    /\ UNCHANGED <<closed, reader, server, initialized, out, effects, faults>>

Close ==
    /\ ~closed /\ closed' = TRUE
    /\ UNCHANGED <<sent, reader, server, initialized, out, effects, faults>>

-----------------------------------------------------------------------------
(* The reader thread *)

\* (mutant of ReadFrame) After a bad frame the reader goes on reading.
ReadFrameOn ==
    /\ reader.state = "reading"
    /\ reader.read < Len(sent)
    /\ reader' = [reader EXCEPT !.read = @ + 1]
    /\ UNCHANGED <<sent, closed, server, initialized, out, effects, faults>>

\* A frame goes on the channel; a bad one goes there as an error, and is the last.
ReadFrame ==
    /\ reader.state = "reading"
    /\ reader.read < Len(sent)
    /\ reader' = [read |-> reader.read + 1,
                  state |-> IF sent[reader.read + 1].kind = "bad" THEN "ended" ELSE "reading"]
    /\ UNCHANGED <<sent, closed, server, initialized, out, effects, faults>>

ReadEof ==
    /\ reader.state = "reading"
    /\ closed /\ reader.read = Len(sent)
    /\ reader' = [reader EXCEPT !.state = "ended"]
    /\ UNCHANGED <<sent, closed, server, initialized, out, effects, faults>>

-----------------------------------------------------------------------------
(* The tools.  A result is an answer's isError and what the call has done.  *)

Results == [error : BOOLEAN, what : {"nothing", "whole", "part"}]

Result(error, what) == [error |-> error, what |-> what]
Refused == {Result(TRUE, "nothing")}
Done == {Result(FALSE, "whole")}
Failed == {Result(TRUE, "nothing")}
FailedMidway == {Result(TRUE, "nothing"), Result(TRUE, "part")}

\* read_arg_file: a rejected path is marked; a file that cannot be read comes
\* back as its error message, which the callers take for the content.
Rejects(f) == f.file = "rejected"
Content(f) == IF f.file = "good" THEN "facts" ELSE "message"

\* (mutant of Consolidate) A dry run is checked where the write is, not before.
ConsolidateUnapproved(f) ==
    IF Rejects(f) THEN Refused
    ELSE IF f.dry_run \/ Content(f) = "message" THEN {Result(FALSE, "nothing")}
    ELSE Done \cup FailedMidway

\* The message of an unreadable file holds no fact: nothing is consolidated, and
\* that is a success.
Consolidate(f) ==
    IF (~f.dry_run /\ ~f.approve) \/ Rejects(f) THEN Refused
    ELSE IF f.dry_run \/ Content(f) = "message" THEN {Result(FALSE, "nothing")}
    ELSE Done \cup FailedMidway

\* A missing index is refused.
Signoff(f) == IF ~f.approve \/ ~f.valid THEN Refused ELSE Done \cup FailedMidway

Derive(f) == IF ~f.approve THEN Refused ELSE Done \cup FailedMidway

SkillAdd(f) == IF ~f.approve THEN Refused ELSE Done \cup FailedMidway

LoopDispatch(f) == IF ~f.approve THEN Refused ELSE Done \cup FailedMidway

\* A budget that is negative or no number is refused.
LoopObjective(f) == IF ~f.approve \/ ~f.valid THEN Refused ELSE Done \cup FailedMidway

\* A verify that does not close the case is a success as well.
LoopVerify(f) ==
    IF ~f.approve THEN Refused
    ELSE Done \cup {Result(FALSE, "nothing")} \cup FailedMidway

\* What is enforcement-bound is queued fact by fact, then the rest consolidated.
Dream(f) ==
    IF ~f.approve \/ Rejects(f) THEN Refused
    ELSE IF Content(f) = "message" THEN {Result(FALSE, "nothing")}
    ELSE Done \cup FailedMidway

\* A query answers within the bound of a frame.
ReadTool(f) == {Result(~f.valid, "nothing")}

CallTool(f) == {r \in Results :
    \/ f.tool = "memory_consolidate" /\ r \in Consolidate(f)
    \/ f.tool = "memory_signoff" /\ r \in Signoff(f)
    \/ f.tool = "memory_derive" /\ r \in Derive(f)
    \/ f.tool = "skill_add" /\ r \in SkillAdd(f)
    \/ f.tool = "loop_dispatch" /\ r \in LoopDispatch(f)
    \/ f.tool = "loop_objective" /\ r \in LoopObjective(f)
    \/ f.tool = "loop_verify" /\ r \in LoopVerify(f)
    \/ f.tool = "dream" /\ r \in Dream(f)
    \/ f.tool \in ReadTools /\ r \in ReadTool(f)}

\* dispatch
Answers(f) ==
    IF f.kind = "call" /\ initialized THEN CallTool(f)
    ELSE {Result(f.kind \notin {"initialize", "ping"} /\ ~(f.kind = "list" /\ initialized),
                 "nothing")}

-----------------------------------------------------------------------------
(* The main loop *)

Channel == server.dispatched < reader.read
Oldest == sent[server.dispatched + 1]
End(how) == server' = [server EXCEPT !.pc = "ended", !.end = how]

\* A frame without an id is dropped before anything of it is looked at.
Drop ==
    /\ server.pc = "recv" /\ Channel /\ Oldest.kind = "no id"
    /\ server' = [server EXCEPT !.dispatched = @ + 1]
    /\ UNCHANGED <<sent, closed, reader, initialized, out, effects, faults>>

Dispatch ==
    /\ server.pc = "recv" /\ Channel /\ Oldest.kind \notin {"no id", "bad"}
    /\ \E r \in Answers(Oldest) :
          /\ server' = [server EXCEPT !.pc = "write", !.dispatched = @ + 1, !.error = r.error]
          /\ effects' = IF r.what = "nothing" THEN effects
                        ELSE effects \cup {[by |-> server.dispatched + 1, what |-> r.what]}
    /\ initialized' = (initialized \/ Oldest.kind = "initialize")
    /\ UNCHANGED <<sent, closed, reader, out, faults>>

\* (mutant of WriteFrame) Every answer is framed like the newest frame read.
WriteFrameAsRead ==
    /\ server.pc = "write"
    /\ out' = Append(out, [to |-> server.dispatched,
                           framing |-> sent[reader.read].framing, error |-> server.error])
    /\ server' = [server EXCEPT !.pc = "recv"]
    /\ UNCHANGED <<sent, closed, reader, initialized, effects, faults>>

\* The answer has the framing of its request.  One that cannot be written ends
\* the server.
WriteFrame ==
    /\ server.pc = "write"
    /\ \/ /\ out' = Append(out, [to |-> server.dispatched,
                                 framing |-> sent[server.dispatched].framing,
                                 error |-> server.error])
          /\ server' = [server EXCEPT !.pc = "recv"]
          /\ UNCHANGED faults
       \/ /\ faults < MaxFaults /\ faults' = faults + 1
          /\ End("broken")
          /\ UNCHANGED out
    /\ UNCHANGED <<sent, closed, reader, initialized, effects>>

\* The reader's error, or the end of the channel: the reader is waited for.
BadFrame ==
    /\ server.pc = "recv" /\ Channel /\ Oldest.kind = "bad"
    /\ reader.state = "ended"
    /\ End("bad frame")
    /\ UNCHANGED <<sent, closed, reader, initialized, out, effects, faults>>

\* (mutant of Disconnected) The reader's end is looked at before its channel.
DisconnectedUndrained ==
    /\ server.pc = "recv" /\ reader.state = "ended"
    /\ End("eof")
    /\ UNCHANGED <<sent, closed, reader, initialized, out, effects, faults>>

Disconnected ==
    /\ server.pc = "recv" /\ ~Channel
    /\ reader.state = "ended"
    /\ End("eof")
    /\ UNCHANGED <<sent, closed, reader, initialized, out, effects, faults>>

\* The deadline passes with nothing on the channel; the reader is not waited for,
\* and dies with the process.
Timeout ==
    /\ server.pc = "recv" /\ ~Channel /\ reader.state = "reading"
    /\ End("timeout")
    /\ reader' = [reader EXCEPT !.state = "ended"]
    /\ UNCHANGED <<sent, closed, initialized, out, effects, faults>>

Main == Drop \/ Dispatch \/ WriteFrame \/ BadFrame \/ Disconnected \/ Timeout

Finished == server.pc = "ended" /\ UNCHANGED vars

Next == Send \/ Close \/ ReadFrame \/ ReadEof \/ Main \/ Finished

\* The two threads run, and the minute of the deadline passes.
Fairness == WF_vars(ReadFrame \/ ReadEof) /\ WF_vars(Main)

Spec == Init /\ [][Next]_vars
LiveSpec == Spec /\ Fairness

-----------------------------------------------------------------------------
(* Properties *)

TypeOK ==
    /\ sent \in Seq(Frames) /\ Len(sent) <= MaxFrames
    /\ closed \in BOOLEAN
    /\ reader \in [read : 0..Len(sent), state : {"reading", "ended"}]
    /\ server \in [pc : {"recv", "write", "ended"}, dispatched : 0..reader.read,
                   error : BOOLEAN,
                   end : {"none", "broken", "bad frame", "eof", "timeout"}]
    /\ initialized \in BOOLEAN
    /\ out \in Seq(Answer)
    /\ effects \subseteq Effect
    /\ faults \in 0..MaxFaults

Requests(n) == {i \in 1..n : sent[i].kind \notin {"bad", "no id"}}

\* The answers are those to the requests in the order they were sent, each once
\* and each in the framing of its request (mcp.rs:6), although the reader runs
\* ahead of the tool that is being run.
AnswersMirrorRequests ==
    /\ {out[k].to : k \in DOMAIN out} =
          Requests(IF server.pc = "write" \/ server.end = "broken"
                     THEN server.dispatched - 1 ELSE server.dispatched)
    /\ \A k \in DOMAIN out :
          /\ out[k].framing = sent[out[k].to].framing
          /\ \A m \in 1..(k - 1) : out[m].to < out[k].to

\* Whatever a call writes was asked for by a request with an approval reason,
\* sent after an initialize (mcp.rs:17, 356-359).
WritesAreApproved ==
    \A e \in effects :
        /\ sent[e.by].kind = "call" /\ sent[e.by].approve
        /\ \E i \in 1..(e.by - 1) : sent[i].kind = "initialize"

\* A server that ends on the end of stdin or on a bad frame has answered every
\* request sent before.
NoneUnanswered ==
    server.end \in {"eof", "bad frame"} =>
        \A i \in 1..Len(sent) :
            \/ i \in {out[k].to : k \in DOMAIN out}
            \/ i \notin Requests(Len(sent))
            \/ \E j \in 1..i : sent[j].kind = "bad"

\* Every request is answered or the server ends, whatever the client does
\* (mcp.rs:158-163).
RequestsSettled == \A n \in 1..MaxFrames :
    (Len(sent) >= n) ~> (server.pc = "ended" \/ server.dispatched >= n)

-----------------------------------------------------------------------------
(* Claims of the comments that the code does not keep *)

\* What cannot be read is not "silently delivered as successful tool results"
\* (mcp.rs:384-386): read_arg_file reports a failing read as text (458, 463, 470)
\* that its callers take for the file's content.
UnreadableIsError ==
    \A k \in DOMAIN out :
        LET f == sent[out[k].to] IN
        f.kind = "call" /\ f.tool \in {"memory_consolidate", "dream"} /\ f.file = "unreadable"
            => out[k].error
=============================================================================
