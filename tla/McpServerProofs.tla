--------------------------- MODULE McpServerProofs ---------------------------
(***************************************************************************)
(* Theorems about McpServer for any client, any number of frames and any   *)
(* number of failures.                                                     *)
(***************************************************************************)
EXTENDS McpServer, Integers, TLAPS

-----------------------------------------------------------------------------
(* Type correctness *)

\* Only what was dispatched is answered.
Answering == server.pc = "write" => server.dispatched >= 1

\* What a tool may do and report; nothing is written without an approval.
LEMMA ToolTyped ==
    ASSUME NEW f \in Frame, NEW r \in CallTool(f)
    PROVE  /\ r.error \in BOOLEAN /\ r.what \in {"nothing", "whole", "part"}
           /\ r.what # "nothing" => f.approve
<1>1. r.error \in BOOLEAN /\ r.what \in {"nothing", "whole", "part"}
  BY DEF CallTool, Results
<1>2. ASSUME r.what # "nothing" PROVE f.approve
  <2> USE <1>2 DEF Refused, Done, FailedMidway, Result
  <2>1. CASE r \in Consolidate(f)
    BY <2>1 DEF Consolidate
  <2>2. CASE r \in Signoff(f) \/ r \in Derive(f) \/ r \in SkillAdd(f)
    BY <2>2 DEF Signoff, Derive, SkillAdd
  <2>3. CASE r \in LoopDispatch(f) \/ r \in LoopObjective(f) \/ r \in LoopVerify(f)
    BY <2>3 DEF LoopDispatch, LoopObjective, LoopVerify
  <2>4. CASE r \in Dream(f)
    BY <2>4 DEF Dream
  <2>5. CASE r \in ReadTool(f)
    BY <2>5 DEF ReadTool
  <2> QED
    BY <2>1, <2>2, <2>3, <2>4, <2>5 DEF CallTool
<1> QED
  BY <1>1, <1>2

LEMMA AnswersTyped ==
    ASSUME NEW f \in Frame, NEW r \in Answers(f)
    PROVE  /\ r.error \in BOOLEAN /\ r.what \in {"nothing", "whole", "part"}
           /\ r.what # "nothing" => f.kind = "call" /\ initialized /\ f.approve
<1>1. CASE f.kind = "call" /\ initialized
  BY <1>1, ToolTyped DEF Answers
<1>2. CASE ~(f.kind = "call" /\ initialized)
  <2>1. PICK e \in BOOLEAN : r = [error |-> e, what |-> "nothing"]
    BY <1>2 DEF Answers, Result
  <2> QED
    BY <2>1
<1> QED
  BY <1>1, <1>2

\* The threads, and how far each has come.
ReaderState == [read : Nat, state : {"reading", "ended"}]
ServerState == [pc : {"recv", "write", "ended"}, dispatched : Nat, error : BOOLEAN,
                end : {"none", "broken", "bad frame", "eof", "timeout"}]

ThreadsTyped == reader \in ReaderState /\ server \in ServerState
InOrder == server.dispatched <= reader.read /\ reader.read <= Len(sent)
ChannelTyped == sent \in Seq(Frames) /\ Len(sent) <= MaxFrames

EffectsTyped ==
    /\ closed \in BOOLEAN /\ initialized \in BOOLEAN
    /\ out \in Seq(Answer) /\ effects \subseteq Effect /\ faults \in 0..MaxFaults

TypeInv == ThreadsTyped /\ InOrder /\ ChannelTyped /\ EffectsTyped /\ Answering

LEMMA Counts ==
    ASSUME TypeInv
    PROVE  server.dispatched \in Nat /\ reader.read \in Nat /\ Len(sent) \in Nat
<1>1. server.dispatched \in Nat
  BY DEF TypeInv, ThreadsTyped, ServerState
<1>2. reader.read \in Nat
  BY DEF TypeInv, ThreadsTyped, ReaderState
<1>3. Len(sent) \in Nat
  BY DEF TypeInv, ChannelTyped
<1> QED
  BY <1>1, <1>2, <1>3

LEMMA TypeInvIsTypeOK == TypeInv => TypeOK
<1> SUFFICES ASSUME TypeInv PROVE TypeOK
  OBVIOUS
<1>1. server.dispatched \in 0..reader.read /\ reader.read \in 0..Len(sent)
  BY Counts DEF TypeInv, InOrder
<1>2. reader \in [read : 0..Len(sent), state : {"reading", "ended"}]
  BY <1>1 DEF TypeInv, ThreadsTyped, ReaderState
<1>3. server \in [pc : {"recv", "write", "ended"}, dispatched : 0..reader.read,
                  error : BOOLEAN, end : {"none", "broken", "bad frame", "eof", "timeout"}]
  BY <1>1 DEF TypeInv, ThreadsTyped, ServerState
<1> QED
  BY <1>2, <1>3 DEF TypeInv, TypeOK, ChannelTyped, EffectsTyped

-----------------------------------------------------------------------------
(* What each step does to the threads *)

\* Frames that were sent stay as they are.
LEMMA SendKeeps ==
    ASSUME ChannelTyped, Send
    PROVE  /\ sent' \in Seq(Frames) /\ Len(sent') = Len(sent) + 1 /\ Len(sent') <= MaxFrames
           /\ \A i \in 1..Len(sent) : sent'[i] = sent[i]
<1>1. PICK f \in Frames : sent' = Append(sent, f)
  BY DEF Send
<1>2. sent \in Seq(Frames) /\ Len(sent) < MaxFrames /\ MaxFrames \in Nat
  BY McpServerAssumption DEF ChannelTyped, Send
<1> QED
  BY <1>1, <1>2

LEMMA ServerUpdates ==
    ASSUME NEW s \in ServerState, NEW n \in Nat, NEW t,
           t = [s EXCEPT !.dispatched = n]
    PROVE  t \in ServerState /\ t.dispatched = n /\ t.pc = s.pc /\ t.end = s.end
BY DEF ServerState

LEMMA DropMoves ==
    ASSUME TypeInv, Drop
    PROVE  /\ server' \in ServerState /\ server'.dispatched = server.dispatched + 1
           /\ server'.pc = server.pc /\ server'.end = server.end
<1>1. server.dispatched + 1 \in Nat
  BY Counts
<1>2. server' = [server EXCEPT !.dispatched = server.dispatched + 1]
  BY DEF Drop
<1> QED
  BY <1>1, <1>2, ServerUpdates DEF TypeInv, ThreadsTyped

\* What Dispatch takes off the channel, and how it goes on.
LEMMA DispatchMoves ==
    ASSUME TypeInv, Dispatch
    PROVE  /\ Oldest \in Frame /\ server.dispatched + 1 \in 1..Len(sent)
           /\ server' \in ServerState /\ server'.dispatched = server.dispatched + 1
           /\ server'.pc = "write" /\ server'.end = server.end
           /\ \E r \in Answers(Oldest) :
                 effects' = IF r.what = "nothing" THEN effects
                            ELSE effects \cup {[by |-> server.dispatched + 1, what |-> r.what]}
<1>1. server.dispatched + 1 \in 1..Len(sent)
  <2>1. server.dispatched < reader.read /\ reader.read <= Len(sent)
    BY DEF Dispatch, Channel, TypeInv, InOrder
  <2> QED
    BY <2>1, Counts
<1>2. Oldest \in Frame
  BY <1>1, McpServerAssumption DEF Oldest, TypeInv, ChannelTyped
<1>3. PICK r \in Answers(Oldest) :
        /\ server' = [server EXCEPT !.pc = "write", !.dispatched = server.dispatched + 1,
                                    !.error = r.error]
        /\ effects' = IF r.what = "nothing" THEN effects
                      ELSE effects \cup {[by |-> server.dispatched + 1, what |-> r.what]}
  BY DEF Dispatch
<1>4. r.error \in BOOLEAN
  BY <1>2, AnswersTyped
<1>5. server.dispatched + 1 \in Nat
  BY Counts
<1>6. server \in ServerState
  BY DEF TypeInv, ThreadsTyped
<1>7. /\ server' \in ServerState /\ server'.dispatched = server.dispatched + 1
      /\ server'.pc = "write" /\ server'.end = server.end
  <2> DEFINE n == server.dispatched + 1
  <2> DEFINE e == r.error
  <2> DEFINE t == server'
  <2>1. t = [server EXCEPT !.pc = "write", !.dispatched = n, !.error = e]
    BY <1>3
  <2>2. n \in Nat /\ e \in BOOLEAN
    BY <1>4, <1>5
  <2> HIDE DEF n, e, t
  <2>3. t \in ServerState
    BY <2>1, <2>2, <1>6 DEF ServerState
  <2>4. t.dispatched = n /\ t.pc = "write" /\ t.end = server.end
    BY <2>1, <2>2, <1>6 DEF ServerState
  <2> QED
    BY <2>3, <2>4 DEF n, t
<1>8. \E s \in Answers(Oldest) :
         effects' = IF s.what = "nothing" THEN effects
                    ELSE effects \cup {[by |-> server.dispatched + 1, what |-> s.what]}
  <2> WITNESS r \in Answers(Oldest)
  <2> QED
    BY <1>3
<1> QED
  BY <1>1, <1>2, <1>7, <1>8, Zenon

LEMMA WriteMoves ==
    ASSUME TypeInv, WriteFrame
    PROVE  /\ server' \in ServerState /\ server'.dispatched = server.dispatched
           /\ \/ server'.pc = "recv" /\ server'.end = server.end
              \/ server'.pc = "ended" /\ server'.end = "broken"
BY DEF TypeInv, ThreadsTyped, ServerState, WriteFrame, End

LEMMA EndMoves ==
    ASSUME TypeInv, NEW how \in {"bad frame", "eof", "timeout"}, End(how)
    PROVE  /\ server' \in ServerState /\ server'.dispatched = server.dispatched
           /\ server'.pc = "ended" /\ server'.end = how
BY DEF TypeInv, ThreadsTyped, ServerState, End

LEMMA ReadMoves ==
    ASSUME TypeInv, ReadFrame
    PROVE  /\ reader' \in ReaderState /\ reader'.read = reader.read + 1
           /\ reader'.read <= Len(sent)
           /\ reader'.state = "ended" => sent[reader'.read].kind = "bad"
<1>1. reader.read + 1 \in Nat /\ reader.read + 1 <= Len(sent)
  BY Counts DEF ReadFrame
<1> QED
  BY <1>1 DEF ReadFrame, ReaderState

LEMMA ReadEndsMoves ==
    ASSUME TypeInv, reader' = [reader EXCEPT !.state = "ended"]
    PROVE  reader' \in ReaderState /\ reader'.read = reader.read /\ reader'.state = "ended"
BY DEF TypeInv, ThreadsTyped, ReaderState

LEMMA InitTypeInv == Init => TypeInv
<1> SUFFICES ASSUME Init PROVE TypeInv
  OBVIOUS
<1>1. ChannelTyped
  BY McpServerAssumption DEF Init, ChannelTyped
<1>2. ThreadsTyped /\ InOrder /\ Answering
  BY DEF Init, ThreadsTyped, ReaderState, ServerState, InOrder, Answering
<1>3. out \in Seq(Answer) /\ effects \subseteq Effect
  BY DEF Init
<1>4. faults \in 0..MaxFaults
  BY McpServerAssumption DEF Init
<1> QED
  BY <1>1, <1>2, <1>3, <1>4 DEF Init, TypeInv, EffectsTyped

LEMMA StepTypeInv == TypeInv /\ [Next]_vars => TypeInv'
<1> SUFFICES ASSUME TypeInv, [Next]_vars PROVE TypeInv'
  OBVIOUS
<1>0. /\ ThreadsTyped /\ InOrder /\ ChannelTyped /\ EffectsTyped /\ Answering
      /\ server.dispatched \in Nat /\ reader.read \in Nat /\ Len(sent) \in Nat
  BY Counts DEF TypeInv
<1>1. CASE Send
  <2>1. ChannelTyped' /\ Len(sent') = Len(sent) + 1
    BY <1>0, <1>1, SendKeeps DEF ChannelTyped
  <2>2. InOrder'
    BY <1>0, <1>1, <2>1 DEF Send, InOrder
  <2> QED
    BY <1>0, <1>1, <2>1, <2>2 DEF Send, TypeInv, ThreadsTyped, EffectsTyped, Answering
<1>2. CASE Close
  BY <1>0, <1>2 DEF Close, TypeInv, ThreadsTyped, InOrder, ChannelTyped, EffectsTyped, Answering
<1>3. CASE ReadFrame
  <2>1. InOrder'
    BY <1>0, <1>3, ReadMoves DEF ReadFrame, InOrder
  <2> QED
    BY <1>0, <1>3, <2>1, ReadMoves
    DEF ReadFrame, TypeInv, ThreadsTyped, ChannelTyped, EffectsTyped, Answering
<1>4. CASE ReadEof
  BY <1>0, <1>4, ReadEndsMoves
  DEF ReadEof, TypeInv, ThreadsTyped, InOrder, ChannelTyped, EffectsTyped, Answering
<1>5. CASE Drop
  <2>1. InOrder' /\ Answering'
    <3>1. server.dispatched < reader.read /\ server.pc = "recv"
          /\ UNCHANGED <<reader, sent>>
      BY <1>5 DEF Drop, Channel
    <3>2. server'.dispatched = server.dispatched + 1 /\ server'.pc = server.pc
      BY <1>5, DropMoves
    <3>3. server.dispatched + 1 <= reader.read /\ server.dispatched + 1 >= 1
      BY <1>0, <3>1
    <3> QED
      BY <1>0, <3>1, <3>2, <3>3 DEF InOrder, Answering
  <2> QED
    BY <1>0, <1>5, <2>1, DropMoves DEF Drop, TypeInv, ThreadsTyped, ChannelTyped, EffectsTyped
<1>6. CASE Dispatch
  <2>1. InOrder' /\ Answering'
    <3>1. server.dispatched < reader.read /\ UNCHANGED <<reader, sent>>
      BY <1>6 DEF Dispatch, Channel
    <3>2. server'.dispatched = server.dispatched + 1
      BY <1>6, DispatchMoves
    <3>3. server.dispatched + 1 <= reader.read /\ server.dispatched + 1 >= 1
      BY <1>0, <3>1
    <3> QED
      BY <1>0, <3>1, <3>2, <3>3 DEF InOrder, Answering
  <2>2. effects' \subseteq Effect
    <3>1. server.dispatched + 1 \in 1..MaxFrames
      BY <1>0, <1>6, DispatchMoves, McpServerAssumption DEF ChannelTyped
    <3>2. PICK r \in Answers(Oldest) :
            effects' = IF r.what = "nothing" THEN effects
                       ELSE effects \cup {[by |-> server.dispatched + 1, what |-> r.what]}
      BY <1>6, DispatchMoves
    <3>3. r.what \in {"nothing", "whole", "part"}
      BY <1>6, DispatchMoves, AnswersTyped
    <3> QED
      BY <1>0, <3>1, <3>2, <3>3 DEF Effect, EffectsTyped
  <2>3. initialized' \in BOOLEAN
    BY <1>6 DEF Dispatch
  <2> QED
    BY <1>0, <1>6, <2>1, <2>2, <2>3, DispatchMoves
    DEF Dispatch, TypeInv, ThreadsTyped, ChannelTyped, EffectsTyped
<1>7. CASE WriteFrame
  <2>1. server.dispatched \in 1..Len(sent)
    BY <1>0, <1>7 DEF WriteFrame, InOrder, Answering
  <2>2. server.dispatched \in 1..MaxFrames /\ sent[server.dispatched] \in Frame
    BY <1>0, <2>1, McpServerAssumption DEF ChannelTyped
  <2>3. server.error \in BOOLEAN /\ sent[server.dispatched].framing \in {"Content-Length", "newline"}
    BY <1>0, <2>2 DEF ThreadsTyped, ServerState, Frame
  <2>4. [to |-> server.dispatched, framing |-> sent[server.dispatched].framing,
         error |-> server.error] \in Answer
    BY <2>2, <2>3 DEF Answer
  <2>5. out' \in Seq(Answer)
    BY <1>0, <1>7, <2>4 DEF WriteFrame, EffectsTyped
  <2>6. faults' \in 0..MaxFaults
    BY <1>0, <1>7, McpServerAssumption DEF WriteFrame, EffectsTyped
  <2>7. InOrder' /\ Answering'
    BY <1>0, <1>7, WriteMoves DEF WriteFrame, InOrder, Answering
  <2> QED
    BY <1>0, <1>7, <2>5, <2>6, <2>7, WriteMoves
    DEF WriteFrame, TypeInv, ThreadsTyped, ChannelTyped, EffectsTyped
<1>8. CASE BadFrame \/ Disconnected
  <2>1. server' \in ServerState /\ server'.dispatched = server.dispatched /\ server'.pc = "ended"
    BY <1>8, EndMoves DEF BadFrame, Disconnected
  <2> QED
    BY <1>0, <1>8, <2>1
    DEF BadFrame, Disconnected, TypeInv, ThreadsTyped, InOrder, ChannelTyped, EffectsTyped,
        Answering
<1>9. CASE Timeout
  <2>1. server' \in ServerState /\ server'.dispatched = server.dispatched /\ server'.pc = "ended"
    BY <1>9, EndMoves DEF Timeout
  <2>2. reader' \in ReaderState /\ reader'.read = reader.read
    BY <1>9, ReadEndsMoves DEF Timeout
  <2> QED
    BY <1>0, <1>9, <2>1, <2>2
    DEF Timeout, TypeInv, ThreadsTyped, InOrder, ChannelTyped, EffectsTyped, Answering
<1>10. CASE UNCHANGED vars
  BY <1>0, <1>10
  DEF vars, TypeInv, ThreadsTyped, InOrder, ChannelTyped, EffectsTyped, Answering
<1> QED
  BY <1>1, <1>2, <1>3, <1>4, <1>5, <1>6, <1>7, <1>8, <1>9, <1>10
  DEF Next, Main, Finished

\* Every reachable state of the server is well typed.
THEOREM TypeCorrect == Spec => []TypeOK
<1>1. Init => TypeInv
  BY InitTypeInv
<1>2. TypeInv /\ [Next]_vars => TypeInv'
  BY StepTypeInv
<1>3. TypeInv => TypeOK
  BY TypeInvIsTypeOK
<1> QED
  BY <1>1, <1>2, <1>3, PTL DEF Spec
-----------------------------------------------------------------------------
(* Approvals *)

\* An initialize was dispatched before the server counts as initialized, and every
\* write is that of a call dispatched after one.
InitializeSeen == initialized => \E i \in 1..server.dispatched : sent[i].kind = "initialize"

EffectOf(e) ==
    /\ e.by \in 1..server.dispatched
    /\ sent[e.by].kind = "call" /\ sent[e.by].approve
    /\ \E i \in 1..(e.by - 1) : sent[i].kind = "initialize"

ApprovalInv == InitializeSeen /\ \A e \in effects : EffectOf(e)

\* What is true of the frames dispatched stays true while they stay as they are and
\* others are dispatched.
LEMMA MovingOnKeeps ==
    ASSUME TypeInv, ApprovalInv,
           server'.dispatched \in Nat, server.dispatched <= server'.dispatched,
           \A i \in 1..Len(sent) : sent'[i] = sent[i],
           UNCHANGED <<initialized, effects>>
    PROVE  ApprovalInv'
<1>1. server.dispatched \in Nat /\ Len(sent) \in Nat /\ server.dispatched <= Len(sent)
  BY Counts DEF TypeInv, InOrder
<1>2. \A i \in 1..server.dispatched : i \in 1..server'.dispatched /\ sent'[i] = sent[i]
  BY <1>1
<1>3. InitializeSeen'
  BY <1>2 DEF ApprovalInv, InitializeSeen
<1>4. ASSUME NEW e \in effects PROVE EffectOf(e)'
  <2>1. EffectOf(e)
    BY DEF ApprovalInv
  <2>2. PICK i \in 1..(e.by - 1) : sent[i].kind = "initialize"
    BY <2>1 DEF EffectOf
  <2>3. i \in 1..server.dispatched /\ e.by \in 1..server.dispatched
    BY <1>1, <2>1, <2>2 DEF EffectOf
  <2>4. sent'[i].kind = "initialize" /\ sent'[e.by] = sent[e.by] /\ e.by \in 1..server'.dispatched
    BY <1>2, <2>2, <2>3
  <2> QED
    BY <2>1, <2>2, <2>4 DEF EffectOf
<1> QED
  BY <1>3, <1>4 DEF ApprovalInv

LEMMA DispatchApproved ==
    ASSUME TypeInv, ApprovalInv, Dispatch
    PROVE  ApprovalInv'
<1> DEFINE n == server.dispatched + 1
<1>1. /\ server'.dispatched = n /\ server.dispatched \in Nat /\ Oldest \in Frame
      /\ sent' = sent /\ Oldest = sent[n]
      /\ initialized' = (initialized \/ Oldest.kind = "initialize")
  BY DispatchMoves, Counts DEF Dispatch, Oldest
<1>2. 1..server.dispatched \subseteq 1..n /\ n \in 1..n /\ n - 1 = server.dispatched
  BY <1>1
<1>3. InitializeSeen'
  <2>1. CASE Oldest.kind = "initialize"
    BY <1>1, <1>2, <2>1 DEF InitializeSeen
  <2>2. CASE Oldest.kind # "initialize"
    <3> SUFFICES ASSUME initialized PROVE \E i \in 1..n : sent[i].kind = "initialize"
      BY <1>1, <2>2 DEF InitializeSeen
    <3> QED
      BY <1>2 DEF ApprovalInv, InitializeSeen
  <2> QED
    BY <2>1, <2>2
<1>4. PICK r \in Answers(Oldest) :
        effects' = IF r.what = "nothing" THEN effects
                   ELSE effects \cup {[by |-> n, what |-> r.what]}
  BY DispatchMoves
<1>5. ASSUME NEW e \in effects' PROVE EffectOf(e)'
  <2>1. CASE e \in effects
    <3>1. EffectOf(e)
      BY <2>1 DEF ApprovalInv
    <3> QED
      BY <1>1, <1>2, <3>1 DEF EffectOf
  <2>2. CASE e \notin effects
    <3>1. r.what # "nothing" /\ e.by = n
      BY <1>4, <2>2
    <3>2. Oldest.kind = "call" /\ initialized /\ Oldest.approve
      BY <1>1, <3>1, AnswersTyped
    <3>3. PICK i \in 1..server.dispatched : sent[i].kind = "initialize"
      BY <3>2 DEF ApprovalInv, InitializeSeen
    <3> QED
      BY <1>1, <1>2, <3>1, <3>2, <3>3 DEF EffectOf
  <2> QED
    BY <2>1, <2>2
<1> QED
  BY <1>3, <1>5 DEF ApprovalInv

LEMMA StepApprovalInv == TypeInv /\ ApprovalInv /\ [Next]_vars => ApprovalInv'
<1> SUFFICES ASSUME TypeInv, ApprovalInv, [Next]_vars PROVE ApprovalInv'
  OBVIOUS
<1>0. server.dispatched \in Nat /\ server.dispatched <= server.dispatched
  BY Counts
<1>1. CASE Send
  <2>1. \A i \in 1..Len(sent) : sent'[i] = sent[i]
    BY <1>1, SendKeeps DEF TypeInv
  <2>2. UNCHANGED <<server, initialized, effects>>
    BY <1>1 DEF Send
  <2> QED
    BY <1>0, <2>1, <2>2, MovingOnKeeps
<1>2. CASE Close \/ ReadFrame \/ ReadEof \/ UNCHANGED vars
  <2>1. UNCHANGED <<sent, server, initialized, effects>>
    BY <1>2 DEF Close, ReadFrame, ReadEof, vars
  <2> QED
    BY <1>0, <2>1, MovingOnKeeps
<1>3. CASE Drop
  <2>1. server'.dispatched \in Nat /\ server.dispatched <= server'.dispatched
    BY <1>0, <1>3, DropMoves
  <2>2. UNCHANGED <<sent, initialized, effects>>
    BY <1>3 DEF Drop
  <2> QED
    BY <2>1, <2>2, MovingOnKeeps
<1>4. CASE Dispatch
  BY <1>4, DispatchApproved
<1>5. CASE WriteFrame
  <2>1. server'.dispatched = server.dispatched
    BY <1>5, WriteMoves
  <2>2. UNCHANGED <<sent, initialized, effects>>
    BY <1>5 DEF WriteFrame
  <2> QED
    BY <1>0, <2>1, <2>2, MovingOnKeeps
<1>6. CASE BadFrame \/ Disconnected \/ Timeout
  <2>1. server'.dispatched = server.dispatched
    BY <1>6, EndMoves DEF BadFrame, Disconnected, Timeout
  <2>2. UNCHANGED <<sent, initialized, effects>>
    BY <1>6 DEF BadFrame, Disconnected, Timeout
  <2> QED
    BY <1>0, <2>1, <2>2, MovingOnKeeps
<1> QED
  BY <1>1, <1>2, <1>3, <1>4, <1>5, <1>6 DEF Next, Main, Finished

\* Whatever a call writes was asked for by a request with an approval reason, sent
\* after an initialize: with any client and any failures.
THEOREM WritesNeedApproval == Spec => []WritesAreApproved
<1>1. Init => TypeInv /\ ApprovalInv
  BY InitTypeInv DEF Init, ApprovalInv, InitializeSeen
<1>2. TypeInv /\ ApprovalInv /\ [Next]_vars => (TypeInv /\ ApprovalInv)'
  BY StepTypeInv, StepApprovalInv
<1>3. ApprovalInv => WritesAreApproved
  BY DEF ApprovalInv, EffectOf, WritesAreApproved
<1> QED
  BY <1>1, <1>2, <1>3, PTL DEF Spec
-----------------------------------------------------------------------------
(* Answers *)

\* The frames up to this one have been answered, those of them that are requests.
Answered == IF server.pc = "write" \/ server.end = "broken"
              THEN server.dispatched - 1 ELSE server.dispatched

OutMirrors ==
    /\ {out[k].to : k \in DOMAIN out} = Requests(Answered)
    /\ \A k \in DOMAIN out :
          /\ out[k].framing = sent[out[k].to].framing
          /\ \A m \in 1..(k - 1) : out[m].to < out[k].to

\* What is being answered is a request, and a server that has not ended has no
\* reason to have.
Serving ==
    /\ server.pc = "write" => sent[server.dispatched].kind \notin {"bad", "no id"}
    /\ server.pc # "ended" => server.end = "none"

AnswerInv == OutMirrors /\ Serving

\* The next frame adds itself to the requests, or nothing.
LEMMA RequestsNext ==
    ASSUME NEW n \in Nat
    PROVE  Requests(n + 1) = Requests(n) \cup
               (IF sent[n + 1].kind \notin {"bad", "no id"} THEN {n + 1} ELSE {})
<1>1. 1..(n + 1) = (1..n) \cup {n + 1}
  OBVIOUS
<1> QED
  BY <1>1 DEF Requests

\* The answers are not disturbed by a step that answers nothing.
LEMMA OutKept ==
    ASSUME TypeInv, AnswerInv, out' = out, Answered' = Answered,
           \A i \in 1..Len(sent) : sent'[i] = sent[i]
    PROVE  OutMirrors'
<1>1. Answered \in Int /\ Answered <= Len(sent) /\ Len(sent) \in Nat
  BY Counts DEF Answered, TypeInv, InOrder
<1>2. Requests(Answered)' = Requests(Answered)
  <2>1. Requests(Answered)' = {i \in 1..Answered : sent'[i].kind \notin {"bad", "no id"}}
    BY DEF Requests
  <2>2. Requests(Answered) = {i \in 1..Answered : sent[i].kind \notin {"bad", "no id"}}
    BY DEF Requests
  <2>3. \A i \in 1..Answered : sent'[i] = sent[i]
    <3> HIDE DEF Answered
    <3>1. \A i \in 1..Answered : i \in 1..Len(sent)
      BY <1>1
    <3> QED
      BY <3>1
  <2> QED
    BY <2>1, <2>2, <2>3
<1>3. ASSUME NEW k \in DOMAIN out PROVE out[k].to \in 1..Len(sent)
  <2>1. out[k].to \in Requests(Answered)
    BY DEF AnswerInv, OutMirrors
  <2>2. out[k].to \in 1..Answered
    BY <2>1 DEF Requests
  <2>3. \A i \in 1..Answered : i \in 1..Len(sent)
    BY <1>1
  <2> QED
    BY <2>2, <2>3
<1>4. \A k \in DOMAIN out' : out'[k].framing = sent'[out'[k].to].framing
  BY <1>3 DEF AnswerInv, OutMirrors
<1> QED
  BY <1>2, <1>4 DEF AnswerInv, OutMirrors

LEMMA WriteAnswers ==
    ASSUME TypeInv, AnswerInv, WriteFrame
    PROVE  AnswerInv'
<1> DEFINE n == server.dispatched
<1> DEFINE a == [to |-> n, framing |-> sent[n].framing, error |-> server.error]
<1>1. /\ n \in Nat /\ n >= 1 /\ server.pc = "write" /\ server.end = "none"
      /\ sent' = sent /\ Answered = n - 1
  BY Counts DEF WriteFrame, TypeInv, Answering, AnswerInv, Serving, Answered
<1>2. CASE out' = Append(out, a) /\ server' = [server EXCEPT !.pc = "recv"]
  <2>1. server'.pc = "recv" /\ server'.dispatched = n /\ server'.end = "none"
    BY <1>1, <1>2, WriteMoves
  <2>2. Answered' = n /\ Serving'
    BY <2>1 DEF Answered, Serving
  <2>3. Requests(n) = Requests(n - 1) \cup {n}
    <3>1. n - 1 \in Nat /\ (n - 1) + 1 = n
      BY <1>1
    <3>2. sent[n].kind \notin {"bad", "no id"}
      BY <1>1 DEF AnswerInv, Serving
    <3> QED
      BY <3>1, <3>2, RequestsNext
  <2>4. out \in Seq(Answer)
    BY DEF TypeInv, EffectsTyped
  <2>5. /\ DOMAIN out' = DOMAIN out \cup {Len(out) + 1} /\ DOMAIN out = 1..Len(out)
        /\ Len(out) \in Nat /\ out'[Len(out) + 1] = a
        /\ \A k \in DOMAIN out : out'[k] = out[k]
    BY <1>2, <2>4
  <2>6. \A k \in DOMAIN out : out[k].to \in Requests(n - 1)
    BY <1>1 DEF AnswerInv, OutMirrors
  <2>7. {out'[k].to : k \in DOMAIN out'} = Requests(n)
    <3>1. {out[k].to : k \in DOMAIN out} = Requests(n - 1)
      BY <1>1 DEF AnswerInv, OutMirrors
    <3> QED
      BY <2>3, <2>5, <3>1
  <2>8. Requests(Answered)' = Requests(n)
    BY <1>1, <2>2 DEF Requests
  <2>9. \A k \in DOMAIN out' : out'[k].framing = sent[out'[k].to].framing
    <3>1. \A k \in DOMAIN out : out[k].framing = sent[out[k].to].framing
      BY DEF AnswerInv, OutMirrors
    <3> QED
      BY <2>5, <3>1
  <2>10. ASSUME NEW k \in DOMAIN out', NEW m \in 1..(k - 1) PROVE out'[m].to < out'[k].to
    <3>1. CASE k \in DOMAIN out
      <4>1. m \in DOMAIN out
        BY <2>5, <3>1
      <4> QED
        BY <2>5, <3>1, <4>1 DEF AnswerInv, OutMirrors
    <3>2. CASE k = Len(out) + 1
      <4>1. m \in DOMAIN out
        BY <2>5, <3>2
      <4>2. out[m].to \in 1..(n - 1)
        BY <2>6, <4>1 DEF Requests
      <4> QED
        BY <1>1, <2>5, <3>2, <4>1, <4>2
    <3> QED
      BY <2>5, <3>1, <3>2
  <2> QED
    BY <1>1, <2>2, <2>7, <2>8, <2>9, <2>10 DEF AnswerInv, OutMirrors
<1>3. CASE End("broken") /\ out' = out
  <2>1. server'.pc = "ended" /\ server'.end = "broken" /\ server'.dispatched = n
    BY <1>3 DEF End, TypeInv, ThreadsTyped, ServerState
  <2>2. Answered' = Answered /\ Serving'
    BY <1>1, <2>1 DEF Answered, Serving
  <2> QED
    BY <1>1, <1>3, <2>2, OutKept DEF AnswerInv
<1> QED
  BY <1>2, <1>3 DEF WriteFrame

LEMMA StepAnswerInv == TypeInv /\ AnswerInv /\ [Next]_vars => AnswerInv'
<1> SUFFICES ASSUME TypeInv, AnswerInv, [Next]_vars PROVE AnswerInv'
  OBVIOUS
<1>0. /\ server.dispatched \in Nat /\ Len(sent) \in Nat /\ server.dispatched <= Len(sent)
      /\ Serving /\ Answering
  BY Counts DEF TypeInv, InOrder, AnswerInv
<1>1. CASE Send
  <2>1. (\A i \in 1..Len(sent) : sent'[i] = sent[i]) /\ UNCHANGED <<server, out>>
    BY <1>1, SendKeeps DEF TypeInv, Send
  <2>2. Answered' = Answered
    BY <2>1 DEF Answered
  <2>3. Serving'
    <3>1. server.pc = "write" => server.dispatched \in 1..Len(sent)
      BY <1>0 DEF Answering
    <3> QED
      BY <1>0, <2>1, <3>1 DEF Serving
  <2> QED
    BY <2>1, <2>2, <2>3, OutKept DEF AnswerInv
<1>2. CASE Close \/ ReadFrame \/ ReadEof \/ UNCHANGED vars
  <2>1. UNCHANGED <<sent, server, out>>
    BY <1>2 DEF Close, ReadFrame, ReadEof, vars
  <2>2. Answered' = Answered /\ Serving'
    BY <1>0, <2>1 DEF Answered, Serving
  <2> QED
    BY <2>1, <2>2, OutKept DEF AnswerInv
<1>3. CASE Drop
  <2> DEFINE n == server.dispatched
  <2>1. /\ server'.dispatched = n + 1 /\ server'.pc = "recv" /\ server'.end = "none"
        /\ server.pc = "recv" /\ server.end = "none"
        /\ sent' = sent /\ out' = out /\ sent[n + 1].kind = "no id"
    BY <1>0, <1>3, DropMoves DEF Drop, Oldest, Serving
  <2>2. Answered = n /\ Answered' = n + 1 /\ Serving'
    BY <2>1 DEF Answered, Serving
  <2>3. Requests(n + 1) = Requests(n)
    BY <1>0, <2>1, RequestsNext
  <2>4. Requests(Answered)' = Requests(Answered)
    BY <2>1, <2>2, <2>3 DEF Requests
  <2> QED
    BY <2>1, <2>2, <2>4 DEF AnswerInv, OutMirrors
<1>4. CASE Dispatch
  <2> DEFINE n == server.dispatched
  <2>1. /\ server'.dispatched = n + 1 /\ server'.pc = "write" /\ server'.end = "none"
        /\ server.pc = "recv" /\ server.end = "none"
        /\ sent' = sent /\ out' = out /\ sent[n + 1].kind \notin {"bad", "no id"}
    BY <1>0, <1>4, DispatchMoves DEF Dispatch, Oldest, Serving
  <2>2. Answered' = Answered
    <3>1. n \in Nat /\ (n + 1) - 1 = n
      BY <1>0
    <3>2. Answered = n
      BY <2>1 DEF Answered
    <3>3. Answered' = server'.dispatched - 1
      BY <2>1 DEF Answered
    <3> QED
      BY <2>1, <3>1, <3>2, <3>3
  <2>3. Serving'
    BY <2>1 DEF Serving
  <2> QED
    BY <2>1, <2>2, <2>3, OutKept DEF AnswerInv
<1>5. CASE WriteFrame
  BY <1>5, WriteAnswers
<1>6. CASE BadFrame \/ Disconnected \/ Timeout
  <2>1. /\ server'.pc = "ended" /\ server'.end \in {"bad frame", "eof", "timeout"}
        /\ server'.dispatched = server.dispatched /\ server.pc = "recv" /\ server.end = "none"
        /\ sent' = sent /\ out' = out
    BY <1>0, <1>6, EndMoves DEF BadFrame, Disconnected, Timeout, Serving
  <2>2. Answered' = Answered /\ Serving'
    BY <2>1 DEF Answered, Serving
  <2> QED
    BY <2>1, <2>2, OutKept DEF AnswerInv
<1> QED
  BY <1>1, <1>2, <1>3, <1>4, <1>5, <1>6 DEF Next, Main, Finished

LEMMA InitAnswerInv == Init => AnswerInv
<1> SUFFICES ASSUME Init PROVE AnswerInv
  OBVIOUS
<1>1. Answered = 0 /\ Serving /\ DOMAIN out = {}
  BY DEF Init, Answered, Serving
<1>2. Requests(0) = {}
  BY DEF Requests
<1> QED
  BY <1>1, <1>2 DEF AnswerInv, OutMirrors

\* The answers are those to the requests, in their order, each once and framed like
\* its request.
THEOREM AnswersFollowRequests == Spec => []AnswersMirrorRequests
<1>1. Init => TypeInv /\ AnswerInv
  BY InitTypeInv, InitAnswerInv
<1>2. TypeInv /\ AnswerInv /\ [Next]_vars => (TypeInv /\ AnswerInv)'
  BY StepTypeInv, StepAnswerInv
<1>3. AnswerInv => AnswersMirrorRequests
  BY DEF AnswerInv, OutMirrors, AnswersMirrorRequests, Answered
<1> QED
  BY <1>1, <1>2, <1>3, PTL DEF Spec

-----------------------------------------------------------------------------
(* The end of the server *)

\* The reader ends after the last frame of a closed stdin, after a bad frame, or
\* with a server that has given up waiting.
ReaderEnds ==
    reader.state = "ended" =>
        \/ server.end = "timeout"
        \/ closed /\ reader.read = Len(sent)
        \/ reader.read \in 1..Len(sent) /\ sent[reader.read].kind = "bad"

\* A server that has come to an end with the reader has dispatched all of it.
ServerEndsAfter ==
    /\ server.end = "eof" => server.dispatched = reader.read /\ reader.state = "ended"
    /\ server.end = "bad frame" =>
          server.dispatched + 1 \in 1..Len(sent) /\ sent[server.dispatched + 1].kind = "bad"

EndInv == ReaderEnds /\ ServerEndsAfter

LEMMA StepEndInv == TypeInv /\ AnswerInv /\ EndInv /\ [Next]_vars => EndInv'
<1> SUFFICES ASSUME TypeInv, AnswerInv, EndInv, [Next]_vars PROVE EndInv'
  OBVIOUS
<1>0. /\ server.dispatched \in Nat /\ reader.read \in Nat /\ Len(sent) \in Nat
      /\ server.dispatched <= reader.read /\ reader.read <= Len(sent)
      /\ ReaderEnds /\ ServerEndsAfter /\ Serving
  BY Counts DEF TypeInv, InOrder, EndInv, AnswerInv
<1>1. CASE Send
  <2>1. /\ \A i \in 1..Len(sent) : sent'[i] = sent[i]
        /\ Len(sent') = Len(sent) + 1 /\ UNCHANGED <<closed, reader, server>> /\ ~closed
    BY <1>1, SendKeeps DEF TypeInv, Send
  <2>2. 1..Len(sent) \subseteq 1..Len(sent')
    BY <1>0, <2>1
  <2> QED
    BY <1>0, <2>1, <2>2 DEF EndInv, ReaderEnds, ServerEndsAfter
<1>2. CASE Close
  BY <1>0, <1>2 DEF Close, EndInv, ReaderEnds, ServerEndsAfter
<1>3. CASE ReadFrame
  <2>1. /\ reader.state = "reading" /\ reader'.read = reader.read + 1 /\ reader'.read <= Len(sent)
        /\ reader'.state = "ended" => sent[reader'.read].kind = "bad"
        /\ UNCHANGED <<sent, server>>
    BY <1>3, ReadMoves DEF ReadFrame
  <2>2. reader'.read \in 1..Len(sent)
    BY <1>0, <2>1
  <2> QED
    BY <1>0, <2>1, <2>2 DEF EndInv, ReaderEnds, ServerEndsAfter
<1>4. CASE ReadEof
  <2>1. /\ closed /\ closed' = closed /\ reader.read = Len(sent) /\ reader.state = "reading"
        /\ reader'.read = reader.read /\ reader'.state = "ended" /\ UNCHANGED <<sent, server>>
    BY <1>4, ReadEndsMoves DEF ReadEof
  <2> QED
    BY <1>0, <2>1 DEF EndInv, ReaderEnds, ServerEndsAfter
<1>5. CASE Drop \/ Dispatch \/ WriteFrame
  <2>1. /\ server'.end \in {server.end, "broken"} /\ server.end = "none"
        /\ UNCHANGED <<sent, closed, reader>>
    BY <1>0, <1>5, DropMoves, DispatchMoves, WriteMoves DEF Drop, Dispatch, WriteFrame, Serving
  <2> QED
    BY <1>0, <2>1 DEF EndInv, ReaderEnds, ServerEndsAfter
<1>6. CASE BadFrame
  <2>1. /\ server'.end = "bad frame" /\ server'.dispatched = server.dispatched
        /\ server.end = "none" /\ UNCHANGED <<sent, closed, reader>>
        /\ server.dispatched < reader.read /\ sent[server.dispatched + 1].kind = "bad"
    BY <1>0, <1>6, EndMoves DEF BadFrame, Serving, Channel, Oldest
  <2>n. server.dispatched < reader.read
    BY <2>1
  <2>m. /\ server.dispatched \in Nat /\ reader.read \in Nat /\ Len(sent) \in Nat
        /\ reader.read <= Len(sent)
    BY <1>0
  <2>2. server.dispatched + 1 \in 1..Len(sent)
    BY ONLY <2>n, <2>m
  <2> QED
    BY <1>0, <2>1, <2>2 DEF EndInv, ReaderEnds, ServerEndsAfter
<1>7. CASE Disconnected
  <2>1. /\ server'.end = "eof" /\ server'.dispatched = server.dispatched
        /\ server.end = "none" /\ UNCHANGED <<sent, closed, reader>>
        /\ ~(server.dispatched < reader.read) /\ reader.state = "ended"
    BY <1>0, <1>7, EndMoves DEF Disconnected, Serving, Channel
  <2>2. server.dispatched = reader.read
    BY <1>0, <2>1
  <2> QED
    BY <1>0, <2>1, <2>2 DEF EndInv, ReaderEnds, ServerEndsAfter
<1>8. CASE Timeout
  <2>1. server'.end = "timeout"
    BY <1>8, EndMoves DEF Timeout
  <2> QED
    BY <2>1 DEF EndInv, ReaderEnds, ServerEndsAfter
<1>9. CASE UNCHANGED vars
  BY <1>0, <1>9 DEF vars, EndInv, ReaderEnds, ServerEndsAfter
<1> QED
  BY <1>1, <1>2, <1>3, <1>4, <1>5, <1>6, <1>7, <1>8, <1>9 DEF Next, Main, Finished

LEMMA EndedIsAnswered == TypeInv /\ AnswerInv /\ EndInv => NoneUnanswered
<1> SUFFICES ASSUME TypeInv, AnswerInv, EndInv, server.end \in {"eof", "bad frame"},
                    NEW i \in 1..Len(sent), i \in Requests(Len(sent)),
                    \A j \in 1..i : sent[j].kind # "bad"
             PROVE  i \in {out[k].to : k \in DOMAIN out}
  BY DEF NoneUnanswered
<1>0. /\ server.dispatched \in Nat /\ reader.read \in Nat /\ Len(sent) \in Nat
      /\ server.dispatched <= reader.read /\ reader.read <= Len(sent)
      /\ ReaderEnds /\ ServerEndsAfter
  BY Counts DEF TypeInv, InOrder, EndInv
<1>a. i \in 1..Len(sent)
  OBVIOUS
<1>n. server.dispatched \in Nat /\ Len(sent) \in Nat
  BY <1>0
<1>1. i <= server.dispatched
  <2>1. CASE server.end = "eof"
    <3>1. CASE reader.read = Len(sent)
      BY <1>0, <2>1, <3>1 DEF ServerEndsAfter
    <3>2. CASE reader.read \in 1..Len(sent) /\ sent[reader.read].kind = "bad"
      <4>1. reader.read \notin 1..i
        BY <3>2
      <4> QED
        BY <1>0, <2>1, <3>2, <4>1 DEF ServerEndsAfter
    <3> QED
      BY <1>0, <2>1, <3>1, <3>2 DEF ReaderEnds, ServerEndsAfter
  <2>2. CASE server.end = "bad frame"
    <3>1. server.dispatched + 1 \notin 1..i
      BY <1>0, <2>2 DEF ServerEndsAfter
    <3> QED
      BY ONLY <1>a, <1>n, <3>1
  <2> QED
    BY <2>1, <2>2
<1>2. Answered = server.dispatched
  <2>1. server.pc = "ended" /\ server.end # "broken"
    BY DEF AnswerInv, Serving
  <2> QED
    BY <2>1 DEF Answered
<1>3. i \in Requests(Answered)
  <2>1. i \in 1..server.dispatched
    BY ONLY <1>a, <1>n, <1>1
  <2>2. sent[i].kind \notin {"bad", "no id"}
    BY DEF Requests
  <2> QED
    BY <1>2, <2>1, <2>2 DEF Requests
<1> QED
  BY <1>3 DEF AnswerInv, OutMirrors

\* A server that ends on the end of stdin or on a bad frame leaves no request before
\* it unanswered.
THEOREM RequestsAreAnswered == Spec => []NoneUnanswered
<1>1. Init => TypeInv /\ AnswerInv /\ EndInv
  <2>1. Init => EndInv
    BY DEF Init, EndInv, ReaderEnds, ServerEndsAfter
  <2> QED
    BY <2>1, InitTypeInv, InitAnswerInv
<1>2. TypeInv /\ AnswerInv /\ EndInv /\ [Next]_vars => (TypeInv /\ AnswerInv /\ EndInv)'
  BY StepTypeInv, StepAnswerInv, StepEndInv
<1>3. TypeInv /\ AnswerInv /\ EndInv => NoneUnanswered
  BY EndedIsAnswered
<1> QED
  BY <1>1, <1>2, <1>3, PTL DEF Spec
=============================================================================
