------------------------ MODULE StreamCommandProofs ------------------------
(***************************************************************************)
(* For every program, every pipe size and every number of lines: a command *)
(* that runs cannot reach /dev/sev-guest, and the output of a successful   *)
(* command is captured whole.                                              *)
(***************************************************************************)
EXTENDS StreamCommand, SequenceTheorems, TLAPS

\* The child before exec.
PreExec == {"none", "setgroups", "ambient", "access"}

\* Before exec the caller is still in spawn and no thread reads.
SpawnInv ==
    /\ child \in PreExec => /\ pc = "spawn"
                            /\ result = "none"
                            /\ \A s \in Streams : reader[s] = "off"
    /\ pc = "spawn" => child \in PreExec
    /\ background => child = "exited"

\* Capabilities are gone before access() is asked, so its answer stays true.
ConfineInv ==
    /\ child \in {"access", "running"} => ~setgid
    /\ child = "running" => ~Reaches

\* What was written to stdout is captured or in the pipe, until the reader
\* thread fails; when it ends well the pipe is empty.
CaptureInv ==
    /\ reader["stdout"] \in {"off", "reading"} => wrote = buf \o pipe["stdout"]
    /\ reader["stdout"] = "ok" => wrote = buf
    /\ result = "ok" => reader["stdout"] = "ok"

CommandInv == TypeOK /\ SpawnInv /\ ConfineInv /\ CaptureInv

-----------------------------------------------------------------------------
\* A line moves from the head of the pipe to the end of what was captured.
LEMMA ConcatHeadTail ==
    ASSUME NEW S, NEW a \in Seq(S), NEW b \in Seq(S), b # <<>>
    PROVE  /\ Head(b) \in S
           /\ Tail(b) \in Seq(S)
           /\ Len(Tail(b)) = Len(b) - 1
           /\ Append(a, Head(b)) \in Seq(S)
           /\ a \o b = Append(a, Head(b)) \o Tail(b)
OBVIOUS

LEMMA InitCommandInv == Init => CommandInv
<1> SUFFICES ASSUME Init PROVE CommandInv
    OBVIOUS
<1>1. TypeOK
  <2>1. PICK k \in 0..MaxLines : plan \in [1..k -> Line]
    BY DEF Init
  <2>2. plan \in Seq(Line)
    BY <2>1, StreamCommandAssumption
  <2>3. at \in 0..Len(plan)
    BY <2>2 DEF Init
  <2>4. <<>> \in Seq(1..Len(plan)) /\ Len(<<>>) = 0
    OBVIOUS
  <2>5. pipe \in [Streams -> Seq(1..Len(plan))] /\ \A s \in Streams : Len(pipe[s]) <= PipeCap
    BY <2>4, StreamCommandAssumption DEF Init
  <2>6. buf \in Seq(1..Len(plan)) /\ wrote \in Seq(1..Len(plan))
    BY <2>4 DEF Init
  <2>7. QED
    BY <2>2, <2>3, <2>5, <2>6 DEF Init, TypeOK
<1>2. SpawnInv
    BY DEF Init, SpawnInv, PreExec, Streams
<1>3. ConfineInv
    BY DEF Init, ConfineInv
<1>4. CaptureInv
    BY DEF Init, CaptureInv, Streams
<1>5. QED
    BY <1>1, <1>2, <1>3, <1>4 DEF CommandInv

\* The steps of the caller and of the child between fork and exec.
LEMMA CallerStep == CommandInv /\ (Caller \/ SpawnFails \/ WaitFails) => CommandInv'
<1> SUFFICES ASSUME CommandInv, Caller \/ SpawnFails \/ WaitFails
             PROVE  CommandInv'
    OBVIOUS
<1> USE DEF CommandInv, Return
<1>1. TypeOK'
  <2>1. CASE Exec
    BY <2>1 DEF Exec, TypeOK, Streams, confVars, ioVars
  <2>2. CASE Caller /\ ~Exec
    BY <2>2 DEF Caller, Fork, SetGroups, ClearAmbient, Refuse, Wait, JoinStdout,
                JoinStderr, TypeOK, SpawnInv, PreExec, Streams, confVars, ioVars
  <2>3. CASE SpawnFails \/ WaitFails
    BY <2>3 DEF SpawnFails, WaitFails, TypeOK, confVars, ioVars
  <2>4. QED
    BY <2>1, <2>2, <2>3
<1>2. SpawnInv'
    BY DEF Caller, Fork, SetGroups, ClearAmbient, Refuse, Exec, Wait, JoinStdout,
           JoinStderr, SpawnFails, WaitFails, TypeOK, SpawnInv, PreExec, Streams,
           confVars, ioVars
<1>3. ConfineInv'
    BY DEF Caller, Fork, SetGroups, ClearAmbient, Refuse, Exec, Wait, JoinStdout,
           JoinStderr, SpawnFails, WaitFails, ConfineInv, SpawnInv, PreExec, Reaches,
           confVars
<1>4. CaptureInv'
    BY DEF Caller, Fork, SetGroups, ClearAmbient, Refuse, Exec, Wait, JoinStdout,
           JoinStderr, SpawnFails, WaitFails, TypeOK, SpawnInv, PreExec, CaptureInv,
           Streams, confVars, ioVars
<1>5. QED
    BY <1>1, <1>2, <1>3, <1>4

\* The steps of the build command.
LEMMA ProgramStep == CommandInv /\ Program => CommandInv'
<1> SUFFICES ASSUME CommandInv, Program
             PROVE  CommandInv'
    OBVIOUS
<1>1. CASE Write
  <2> DEFINE s == plan[at + 1].to
  <2> DEFINE P == 1..Len(plan)
  <2>1. at + 1 \in P /\ s \in Streams
    <3>1. plan \in Seq(Line) /\ at \in 0..Len(plan) /\ at < Len(plan)
      BY <1>1 DEF Write, CommandInv, TypeOK
    <3>2. at + 1 \in 1..Len(plan) /\ plan[at + 1] \in Line
      BY <3>1
    <3>3. QED
      BY <3>2 DEF Line
  <2>2. /\ reader[s] = "reading" /\ Len(pipe[s]) < PipeCap
        /\ pipe' = [pipe EXCEPT ![s] = Append(@, at + 1)]
        /\ wrote' = IF s = "stdout" THEN Append(wrote, at + 1) ELSE wrote
    BY <1>1 DEF Write
  <2>3. /\ at' = at + 1
        /\ UNCHANGED <<plan, confVars, child, background, success, reader, buf, pc, result>>
    BY <1>1 DEF Write
  <2>t. /\ pipe \in [Streams -> Seq(P)] /\ buf \in Seq(P) /\ wrote \in Seq(P)
        /\ \A t \in Streams : Len(pipe[t]) <= PipeCap
    BY DEF CommandInv, TypeOK
  <2>u. at' \in 0..Len(plan)
    BY <2>1, <2>3
  <2> HIDE DEF s, P
  <2>4. TypeOK'
    <3>1. pipe' \in [Streams -> Seq(P)]
      BY <2>1, <2>2, <2>t
    <3>2. \A t \in Streams : Len(pipe'[t]) <= PipeCap
      BY <2>1, <2>2, <2>t, StreamCommandAssumption
    <3>3. wrote' \in Seq(P)
      <4>1. Append(wrote, at + 1) \in Seq(P)
        BY <2>1, <2>t
      <4>2. QED
        BY <2>2, <2>t, <4>1
    <3>4. QED
      BY <2>3, <2>u, <3>1, <3>2, <3>3 DEF CommandInv, TypeOK, confVars, P
  <2>5. SpawnInv'
    BY <2>3 DEF CommandInv, SpawnInv
  <2>6. ConfineInv'
    BY <2>3 DEF CommandInv, ConfineInv, confVars, Reaches
  <2>7. CaptureInv'
    <3>1. CASE s = "stdout"
      <4>1. wrote = buf \o pipe["stdout"]
        BY <2>2, <3>1 DEF CommandInv, CaptureInv
      <4>2. pipe'["stdout"] = Append(pipe["stdout"], at + 1)
        BY <2>1, <2>2, <3>1 DEF CommandInv, TypeOK
      <4>3. pipe["stdout"] \in Seq(P)
        BY <2>1, <2>t, <3>1
      <4>4. Append(buf \o pipe["stdout"], at + 1) = buf \o Append(pipe["stdout"], at + 1)
        <5>1. buf \in Seq(P)
          BY <2>t
        <5> DEFINE q == pipe["stdout"]
                   x == at + 1
        <5>2. q \in Seq(P) /\ x \in P
          BY <4>3, <2>1
        <5> HIDE DEF q, x
        <5>3. Append(buf \o q, x) = buf \o Append(q, x)
          BY <5>1, <5>2
        <5>4. QED
          BY <5>3 DEF q, x
      <4>5. wrote' = buf' \o pipe'["stdout"]
        BY <2>2, <2>3, <3>1, <4>1, <4>2, <4>4
      <4>6. QED
        BY <4>5, <2>2, <2>3, <3>1 DEF CommandInv, CaptureInv
    <3>2. CASE s # "stdout"
      <4>1. pipe'["stdout"] = pipe["stdout"] /\ wrote' = wrote
        BY <2>1, <2>2, <3>2 DEF CommandInv, TypeOK, Streams
      <4>2. QED
        BY <4>1, <2>3 DEF CommandInv, CaptureInv
    <3>3. QED
      BY <3>1, <3>2
  <2>8. QED
    BY <2>4, <2>5, <2>6, <2>7 DEF CommandInv
<1>2. CASE RegainGroup \/ WriteBroken \/ Daemonize \/ Exit \/ Killed
  <2>1. TypeOK'
    <3>1. UNCHANGED <<plan, device, setgid, pipe, reader, buf, wrote, pc, result>>
      BY <1>2 DEF RegainGroup, WriteBroken, Daemonize, Exit, Killed, confVars, ioVars
    <3>2. /\ at' \in 0..Len(plan) /\ group' \in BOOLEAN
          /\ child' \in {child, "exited"}
          /\ background' \in BOOLEAN /\ success' \in BOOLEAN
      <4>1. CASE WriteBroken
        BY <4>1 DEF CommandInv, TypeOK, WriteBroken, confVars
      <4>2. CASE RegainGroup
        BY <4>2 DEF CommandInv, TypeOK, RegainGroup
      <4>3. CASE Daemonize \/ Exit \/ Killed
        BY <4>3 DEF CommandInv, TypeOK, Daemonize, Exit, Killed, confVars
      <4>4. QED
        BY <1>2, <4>1, <4>2, <4>3
    <3>3. QED
      BY <3>1, <3>2 DEF CommandInv, TypeOK
  <2>2. SpawnInv'
    <3>1. child' \in {child, "exited"} /\ UNCHANGED <<pc, result, reader>>
      BY <1>2 DEF RegainGroup, WriteBroken, Daemonize, Exit, Killed, ioVars
    <3>2. pc # "spawn"
      BY <1>2 DEF CommandInv, SpawnInv, TypeOK, PreExec, RegainGroup, WriteBroken,
                  Daemonize, Exit, Killed, Alive
    <3>3. background' => child' = "exited"
      BY <1>2 DEF CommandInv, SpawnInv, RegainGroup, WriteBroken, Daemonize, Exit, Killed
    <3>4. QED
      BY <3>1, <3>2, <3>3 DEF CommandInv, SpawnInv, PreExec
  <2>3. ConfineInv'
    <3>1. CASE RegainGroup
      <4>1. child = "running" /\ ~setgid
        BY <3>1 DEF RegainGroup, CommandInv, ConfineInv
      <4>2. group' = group
        BY <3>1, <4>1 DEF RegainGroup, CommandInv, TypeOK
      <4>3. QED
        BY <3>1, <4>2 DEF RegainGroup, CommandInv, ConfineInv, Reaches
    <3>2. CASE WriteBroken \/ Daemonize \/ Exit \/ Killed
      BY <3>2 DEF CommandInv, ConfineInv, Reaches, WriteBroken, Daemonize, Exit,
                  Killed, confVars
    <3>3. QED
      BY <1>2, <3>1, <3>2
  <2>4. CaptureInv'
    BY <1>2 DEF CommandInv, CaptureInv, RegainGroup, WriteBroken, Daemonize, Exit,
                Killed, ioVars
  <2>5. QED
    BY <2>1, <2>2, <2>3, <2>4 DEF CommandInv
<1>3. QED
    BY <1>1, <1>2 DEF Program

\* The steps of a reader thread.
LEMMA ReaderStep ==
    ASSUME CommandInv, NEW s \in Streams, Reader(s)
    PROVE  CommandInv'
<1> USE DEF CommandInv
<1>0. /\ reader[s] = "reading"
      /\ UNCHANGED <<plan, at, confVars, child, background, success, wrote, pc, result>>
    BY DEF Reader, ReadLine, ReadError, ReadEof
<1>1. SpawnInv'
    BY <1>0 DEF Reader, ReadLine, ReadError, ReadEof, SpawnInv, TypeOK
<1>2. ConfineInv'
    BY <1>0 DEF ConfineInv, confVars, Reaches
<1>3. CASE ReadLine(s)
  <2> DEFINE P == 1..Len(plan)
  <2>1. /\ pipe \in [Streams -> Seq(P)] /\ pipe[s] # <<>>
        /\ buf \in Seq(P)
        /\ \A t \in Streams : Len(pipe[t]) <= PipeCap
    BY <1>3 DEF ReadLine, TypeOK
  <2> HIDE DEF P
  <2>2. /\ Head(pipe[s]) \in P /\ Tail(pipe[s]) \in Seq(P)
        /\ Len(Tail(pipe[s])) = Len(pipe[s]) - 1
        /\ Append(buf, Head(pipe[s])) \in Seq(P)
        /\ buf \o pipe[s] = Append(buf, Head(pipe[s])) \o Tail(pipe[s])
    BY <2>1, ConcatHeadTail
  <2>3. /\ pipe' = [pipe EXCEPT ![s] = Tail(@)]
        /\ buf' = IF s = "stdout" THEN Append(buf, Head(pipe[s])) ELSE buf
        /\ reader' = reader
    BY <1>3 DEF ReadLine
  <2>4. TypeOK'
    <3>1. pipe' \in [Streams -> Seq(P)]
      BY <2>1, <2>2, <2>3
    <3>2. \A t \in Streams : Len(pipe'[t]) <= PipeCap
      BY <2>1, <2>2, <2>3, StreamCommandAssumption
    <3>3. buf' \in Seq(P)
      BY <2>1, <2>2, <2>3
    <3>4. QED
      BY <1>0, <2>3, <3>1, <3>2, <3>3 DEF TypeOK, confVars, P
  <2>5. CaptureInv'
    <3>1. CASE s = "stdout"
      <4>1. wrote = buf \o pipe["stdout"]
        BY <1>0, <3>1 DEF CaptureInv
      <4>2. pipe'["stdout"] = Tail(pipe["stdout"])
        BY <2>3, <3>1 DEF TypeOK
      <4>3. buf \o pipe["stdout"] = Append(buf, Head(pipe["stdout"])) \o Tail(pipe["stdout"])
        BY <2>2, <3>1
      <4>4. QED
        BY <1>0, <2>3, <3>1, <4>1, <4>2, <4>3 DEF CaptureInv
    <3>2. CASE s # "stdout"
      <4>1. pipe'["stdout"] = pipe["stdout"] /\ buf' = buf
        BY <2>3, <3>2 DEF TypeOK, Streams
      <4>2. QED
        BY <4>1, <1>0, <2>3 DEF CaptureInv
    <3>3. QED
      BY <3>1, <3>2
  <2>6. QED
    BY <1>1, <1>2, <2>4, <2>5
<1>4. CASE ReadError(s)
  <2>1. TypeOK'
    BY <1>0, <1>4, StreamCommandAssumption DEF ReadError, TypeOK, confVars
  <2>2. CaptureInv'
    BY <1>0, <1>4 DEF ReadError, TypeOK, CaptureInv, Streams
  <2>3. QED
    BY <1>1, <1>2, <2>1, <2>2
<1>5. CASE ReadEof(s)
  <2>1. TypeOK'
    BY <1>0, <1>5 DEF ReadEof, TypeOK, confVars
  <2>2. pipe[s] = <<>> /\ buf \in Seq(1..Len(plan)) /\ UNCHANGED <<pipe, buf>>
    BY <1>5 DEF ReadEof, TypeOK
  <2>3. buf \o <<>> = buf
    BY <2>2
  <2>4. CaptureInv'
    BY <1>0, <1>5, <2>2, <2>3 DEF ReadEof, TypeOK, CaptureInv, Streams
  <2>5. QED
    BY <1>1, <1>2, <2>1, <2>4
<1>6. QED
    BY <1>3, <1>4, <1>5 DEF Reader

LEMMA CommandInvStep == CommandInv /\ [Next]_vars => CommandInv'
<1> SUFFICES ASSUME CommandInv, [Next]_vars
             PROVE  CommandInv'
    OBVIOUS
<1>1. CASE UNCHANGED vars
    BY <1>1 DEF vars, confVars, ioVars, CommandInv, TypeOK, SpawnInv, ConfineInv,
                Reaches, CaptureInv
<1>2. CASE Next
    BY <1>2, CallerStep, ProgramStep, ReaderStep DEF Next
<1>3. QED
    BY <1>1, <1>2

\* The inductive invariant of stream_command.
THEOREM CommandInvariant == Spec => []CommandInv
BY InitCommandInv, CommandInvStep, PTL DEF Spec

\* The type invariant holds for every program and every size of the pipes
\* (src/toolchain/runner.rs, stream_command).
THEOREM CommandTypeCorrect == Spec => []TypeOK
<1>1. CommandInv => TypeOK
    BY DEF CommandInv
<1>2. QED
    BY CommandInvariant, <1>1, PTL

\* A command that runs can never open /dev/sev-guest, with or without
\* CAP_SETGID in the server (src/toolchain/confine.rs, confine).
THEOREM BuildsAreConfined == Spec => []Confined
<1>1. CommandInv => Confined
    BY DEF CommandInv, ConfineInv, Confined
<1>2. QED
    BY CommandInvariant, <1>1, PTL

\* A successful command's output is captured whole and in order, whatever it
\* writes, and when a background process writes the rest (stream_command).
THEOREM OutputCaptured == Spec => []CapturedAll
<1>1. CommandInv => CapturedAll
    BY DEF CommandInv, CaptureInv, CapturedAll
<1>2. QED
    BY CommandInvariant, <1>1, PTL
=============================================================================
