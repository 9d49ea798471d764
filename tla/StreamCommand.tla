--------------------------- MODULE StreamCommand ---------------------------
(***************************************************************************)
(* stream_command (src/toolchain/runner.rs): the build command runs as a   *)
(* confined child (src/toolchain/confine.rs) whose two pipes are read by   *)
(* two threads while the caller waits.  The child is any program: it       *)
(* writes the lines of `plan` and may leave a background process behind    *)
(* that holds the pipes and writes the rest.                               *)
(***************************************************************************)
EXTENDS Naturals, Sequences

CONSTANTS
    PipeCap,    \* lines a pipe holds
    MaxLines    \* bound: lines the command prints

ASSUME StreamCommandAssumption == PipeCap \in Nat \ {0} /\ MaxLines \in Nat

Streams == {"stdout", "stderr"}

\* A line, and whether it is UTF-8: BufReader::lines fails on one that is not.
Line == [to : Streams, utf8 : BOOLEAN]

Devices == {"absent", "group", "world"}

VARIABLES
    plan,       \* the lines the command writes, in order
    at,         \* number of lines it is past
    device,     \* who may open /dev/sev-guest
    group,      \* is the child in the group sev-guest?
    setgid,     \* can the child change its groups (CAP_SETGID)?
    child,      \* the child: "none", the steps of pre_exec, "running", "exited"
    background, \* does a process the child left behind hold the pipes?
    success,    \* the child's exit status
    pipe,       \* [Streams -> positions in plan of the lines in the pipe]
    reader,     \* [Streams -> "off", "reading", "ok", "err"]
    buf,        \* stdout_buf: positions in plan of the lines captured
    wrote,      \* history: positions in plan of the lines written to stdout
    pc,         \* the caller: "spawn", "wait", "join", "join_stderr", "returned"
    result      \* what it returned: "none", "ok", "err"

confVars == <<device, group, setgid>>
ioVars == <<pipe, reader, buf, wrote>>
vars == <<plan, at, confVars, child, background, success, ioVars, pc, result>>

Init ==
    /\ plan \in UNION {[1..k -> Line] : k \in 0..MaxLines}
    /\ at = 0
    /\ device \in Devices /\ group \in BOOLEAN /\ setgid \in BOOLEAN
    /\ child = "none"
    /\ background = FALSE
    /\ success = FALSE
    /\ pipe = [s \in Streams |-> <<>>]
    /\ reader = [s \in Streams |-> "off"]
    /\ buf = <<>> /\ wrote = <<>>
    /\ pc = "spawn"
    /\ result = "none"

Return(r) == pc' = "returned" /\ result' = r

-----------------------------------------------------------------------------
(* confine::spawn: between fork and exec *)

Reaches == device = "world" \/ (device = "group" /\ group)

Fork ==
    /\ pc = "spawn" /\ child = "none"
    /\ child' = "setgroups"
    /\ UNCHANGED <<plan, at, confVars, background, success, ioVars, pc, result>>

\* setgroups(0): its failure, without CAP_SETGID, is ignored.
SetGroups ==
    /\ child = "setgroups"
    /\ child' = "ambient"
    /\ group' = (group /\ ~setgid)
    /\ UNCHANGED <<plan, at, device, setgid, background, success, ioVars, pc, result>>

\* Fault: the ambient capabilities are kept.
KeepAmbient ==
    /\ child = "ambient"
    /\ child' = "access"
    /\ UNCHANGED <<plan, at, confVars, background, success, ioVars, pc, result>>

\* PR_CAP_AMBIENT_CLEAR_ALL: no capability survives exec.
ClearAmbient ==
    /\ child = "ambient"
    /\ child' = "access"
    /\ setgid' = FALSE
    /\ UNCHANGED <<plan, at, device, group, background, success, ioVars, pc, result>>

\* access() finds the device open: spawn returns EPERM.
Refuse ==
    /\ child = "access" /\ Reaches
    /\ child' = "exited"
    /\ Return("err")
    /\ UNCHANGED <<plan, at, confVars, background, success, ioVars>>

\* fork or exec fails.
SpawnFails ==
    /\ pc = "spawn" /\ child # "exited"
    /\ child' = "exited"
    /\ Return("err")
    /\ UNCHANGED <<plan, at, confVars, background, success, ioVars>>

\* Fault: no thread is spawned for stderr.
ExecOneReader ==
    /\ child = "access" /\ ~Reaches
    /\ child' = "running"
    /\ reader' = [reader EXCEPT !["stdout"] = "reading"]
    /\ pc' = "wait"
    /\ UNCHANGED <<plan, at, confVars, background, success, pipe, buf, wrote, result>>

\* The reader threads are spawned once exec has succeeded.
Exec ==
    /\ child = "access" /\ ~Reaches
    /\ child' = "running"
    /\ reader' = [s \in Streams |-> "reading"]
    /\ pc' = "wait"
    /\ UNCHANGED <<plan, at, confVars, background, success, pipe, buf, wrote, result>>

-----------------------------------------------------------------------------
(* The build command *)

Alive == child = "running" \/ background

\* It tries to put itself back into the group: setgroups needs the capability.
RegainGroup ==
    /\ child = "running"
    /\ group' = (group \/ setgid)
    /\ UNCHANGED <<plan, at, device, setgid, child, background, success, ioVars,
                   pc, result>>

\* It writes its next line; a full pipe blocks it.
Write ==
    /\ Alive /\ at < Len(plan)
    /\ LET s == plan[at + 1].to
       IN  /\ reader[s] = "reading" /\ Len(pipe[s]) < PipeCap
           /\ pipe' = [pipe EXCEPT ![s] = Append(@, at + 1)]
           /\ wrote' = IF s = "stdout" THEN Append(wrote, at + 1) ELSE wrote
    /\ at' = at + 1
    /\ UNCHANGED <<plan, confVars, child, background, success, reader, buf, pc, result>>

\* It writes to a pipe whose reader has gone: EPIPE, and SIGPIPE unless ignored.
WriteBroken ==
    /\ Alive /\ at < Len(plan)
    /\ reader[plan[at + 1].to] # "reading"
    /\ at' = at + 1
    /\ child' \in {child, "exited"}
    /\ UNCHANGED <<plan, confVars, background, success, ioVars, pc, result>>

\* It leaves a process behind that holds its pipes, and exits.
Daemonize ==
    /\ child = "running" /\ at < Len(plan)
    /\ child' = "exited" /\ background' = TRUE
    /\ success' \in BOOLEAN
    /\ UNCHANGED <<plan, at, confVars, ioVars, pc, result>>

\* It is past its output and exits, or its background process does.
Exit ==
    /\ at = Len(plan)
    /\ \/ /\ child = "running"
          /\ child' = "exited"
          /\ success' \in BOOLEAN
          /\ UNCHANGED background
       \/ /\ background
          /\ background' = FALSE
          /\ UNCHANGED <<child, success>>
    /\ UNCHANGED <<plan, at, confVars, ioVars, pc, result>>

\* It is killed, or its background process is.
Killed ==
    /\ Alive
    /\ child' = "exited" /\ background' = FALSE
    /\ UNCHANGED <<plan, at, confVars, success, ioVars, pc, result>>

Program == RegainGroup \/ Write \/ WriteBroken \/ Daemonize \/ Exit \/ Killed

-----------------------------------------------------------------------------
(* The reader threads *)

\* Fault: stderr is read only after stdout has ended.
ReadLineInTurn(s) ==
    /\ reader[s] = "reading" /\ pipe[s] # <<>>
    /\ s = "stderr" => reader["stdout"] # "reading"
    /\ pipe' = [pipe EXCEPT ![s] = Tail(@)]
    /\ plan[Head(pipe[s])].utf8
    /\ buf' = IF s = "stdout" THEN Append(buf, Head(pipe[s])) ELSE buf
    /\ UNCHANGED <<plan, at, confVars, child, background, success, reader, wrote,
                   pc, result>>

\* A line is captured (stdout only) and offered to the sink, which never blocks.
ReadLine(s) ==
    /\ reader[s] = "reading" /\ pipe[s] # <<>>
    /\ plan[Head(pipe[s])].utf8
    /\ pipe' = [pipe EXCEPT ![s] = Tail(@)]
    /\ buf' = IF s = "stdout" THEN Append(buf, Head(pipe[s])) ELSE buf
    /\ UNCHANGED <<plan, at, confVars, child, background, success, reader, wrote,
                   pc, result>>

\* A line is not UTF-8: the thread ends and its end of the pipe is closed.
ReadError(s) ==
    /\ reader[s] = "reading" /\ pipe[s] # <<>>
    /\ ~plan[Head(pipe[s])].utf8
    /\ reader' = [reader EXCEPT ![s] = "err"]
    /\ pipe' = [pipe EXCEPT ![s] = <<>>]
    /\ UNCHANGED <<plan, at, confVars, child, background, success, buf, wrote, pc,
                   result>>

\* No writer is left and the pipe is empty.
ReadEof(s) ==
    /\ reader[s] = "reading" /\ pipe[s] = <<>> /\ ~Alive
    /\ reader' = [reader EXCEPT ![s] = "ok"]
    /\ UNCHANGED <<plan, at, confVars, child, background, success, pipe, buf, wrote,
                   pc, result>>

Reader(s) == ReadLine(s) \/ ReadError(s) \/ ReadEof(s)

-----------------------------------------------------------------------------
(* The caller *)

Wait ==
    /\ pc = "wait" /\ child = "exited"
    /\ pc' = "join"
    /\ UNCHANGED <<plan, at, confVars, child, background, success, ioVars, result>>

\* wait() fails: the reader threads are left detached.
WaitFails ==
    /\ pc = "wait"
    /\ Return("err")
    /\ UNCHANGED <<plan, at, confVars, child, background, success, ioVars>>

JoinStdout ==
    /\ pc = "join" /\ reader["stdout"] # "reading"
    /\ pc' = "join_stderr"
    /\ UNCHANGED <<plan, at, confVars, child, background, success, ioVars, result>>

\* Fault: an error of a reader thread is not an error of the command.
JoinStderrOnly ==
    /\ pc = "join_stderr" /\ reader["stderr"] # "reading"
    /\ Return(IF success THEN "ok" ELSE "err")
    /\ UNCHANGED <<plan, at, confVars, child, background, success, ioVars>>

\* Both threads are joined; then their results and the status decide.
JoinStderr ==
    /\ pc = "join_stderr" /\ reader["stderr"] # "reading"
    /\ Return(IF success /\ \A s \in Streams : reader[s] = "ok" THEN "ok" ELSE "err")
    /\ UNCHANGED <<plan, at, confVars, child, background, success, ioVars>>

Caller == Fork \/ SetGroups \/ ClearAmbient \/ Refuse \/ Exec
          \/ Wait \/ JoinStdout \/ JoinStderr

Next == Caller \/ SpawnFails \/ WaitFails \/ Program \/ \E s \in Streams : Reader(s)

Spec == Init /\ [][Next]_vars

(* The kernel schedules the threads, and the command goes on writing and    *)
(* exits in the end: stream_command has no timeout of its own.  No failure  *)
(* of the caller has to happen.                                             *)
Fairness ==
    /\ WF_vars(Caller)
    /\ WF_vars(Write \/ WriteBroken)
    /\ WF_vars(Exit)
    /\ \A s \in Streams : WF_vars(Reader(s))

FairSpec == Spec /\ Fairness

-----------------------------------------------------------------------------
(* Properties *)

\* Every variable has its type, a pipe holds no more than it can, and a caller
\* that waits has a thread on each pipe (src/toolchain/runner.rs, stream_command).
TypeOK ==
    /\ plan \in Seq(Line) /\ at \in 0..Len(plan)
    /\ device \in Devices /\ group \in BOOLEAN /\ setgid \in BOOLEAN
    /\ child \in {"none", "setgroups", "ambient", "access", "running", "exited"}
    /\ background \in BOOLEAN /\ success \in BOOLEAN
    /\ pipe \in [Streams -> Seq(1..Len(plan))]
    /\ \A s \in Streams : Len(pipe[s]) <= PipeCap
    /\ reader \in [Streams -> {"off", "reading", "ok", "err"}]
    /\ buf \in Seq(1..Len(plan)) /\ wrote \in Seq(1..Len(plan))
    /\ pc \in {"spawn", "wait", "join", "join_stderr", "returned"}
    /\ pc \in {"wait", "join", "join_stderr"} => \A s \in Streams : reader[s] # "off"
    /\ result \in {"none", "ok", "err"}

\* What a successful call returns is all that was written to stdout, in order:
\* nix's artifacts are parsed from it (src/toolchain/runner.rs, stream_command).
CapturedAll == result = "ok" => buf = wrote

\* A command that runs can never open /dev/sev-guest, whatever it does to its
\* groups (src/toolchain/confine.rs).
Confined == child = "running" => ~Reaches

\* stream_command returns: a child that fills one pipe while the other is idle,
\* or whose reader has failed, is never left blocked.
Returns == <>(pc = "returned")
=============================================================================
