------------------------------ MODULE JobServer ------------------------------
(***************************************************************************)
(* kettle-server: the HTTP handlers (src/server/api.rs), the one-shot job  *)
(* registry and the job's event log (src/server/job.rs), the task that     *)
(* runs the build (src/server/runner.rs) and the sink the build reports    *)
(* to (src/toolchain.rs).                                                  *)
(*                                                                         *)
(*   build thread --try_emit/emit--> chan --forwarder--> log               *)
(*                                                  \--> sent --> streams  *)
(*                                                                         *)
(* The build itself is its sequence of reports; any step of it may fail or *)
(* panic.  The job is the only one: the registry accepts one per process.  *)
(***************************************************************************)
EXTENDS Naturals, Sequences

CONSTANTS
    Posters,        \* clients that POST /build
    Requests,       \* what they may send: [nonceOk, source] records
    Subscribers,    \* clients that GET /build/{id}/events and .../result
    MpscCap,        \* capacity of the sink's channel (256 in the code)
    BcastCap,       \* capacity of the broadcast channel (256 in the code)
    MaxLines,       \* bound: lines the build command prints
    AttestEnabled   \* is the server compiled with the feature "attest"?

RequestType ==
    [nonceOk : BOOLEAN, source : SUBSET {"repo_url", "source_data"}]

ASSUME JobServerAssumption ==
    /\ Requests \subseteq RequestType
    /\ MpscCap \in Nat \ {0}
    /\ BcastCap \in Nat \ {0}
    /\ MaxLines \in Nat
    /\ AttestEnabled \in BOOLEAN

VARIABLES
    post,       \* [Posters -> state of the POST handler or its reply]
    gate,       \* JobRegistry.gate
    source,     \* which of repo_url, source_data the accepted request has
    registered, \* is the job in JobRegistry.inner?
    pc,         \* where the task spawned by BuildRunner::spawn is
    outcome,    \* run_build's build_result: "ok" or "err"
    emitted,    \* number of events produced so far; numbers the events
    lines,      \* lines of build output produced so far
    chan,       \* the sink's mpsc channel
    sinkOpen,   \* is a clone of the EventSink alive?
    fwd,        \* the forwarder task: "none", "recv", "log", "send", "exited"
    held,       \* the event the forwarder is pushing, as a sequence of 0 or 1
    log,        \* ServerJob.event_log
    sent,       \* everything sent on ServerJob.events, the broadcast channel
    result,     \* is ServerJob.result set?
    state,      \* ServerJob.state
    sub,        \* [Subscribers -> "idle", "subscribed", "streaming"]
    backlog,    \* [Subscribers -> snapshot events not yet written]
    next,       \* [Subscribers -> messages of `sent` its receiver is past]
    lagged,     \* [Subscribers -> did its receiver ever report Lagged?]
    received,   \* [Subscribers -> events written to the SSE stream]
    fetched     \* [Subscribers -> last answer of GET /build/{id}/result]

postVars == <<post, gate, source, registered>>
runVars  == <<pc, outcome, emitted, lines, result, state>>
sinkVars == <<chan, sinkOpen, fwd, held>>
pubVars  == <<log, sent>>
subVars  == <<sub, backlog, next, lagged, received, fetched>>
vars == <<postVars, runVars, sinkVars, pubVars, subVars>>

Kinds == {"detect", "build", "provenance", "attest", "ok", "failed"}
Event == [kind : Kinds, id : Nat]

\* Complete{Ok} and Complete{Failed}.
IsComplete(e) == e.kind \in {"ok", "failed"}

NewEvent(kind) == [kind |-> kind, id |-> emitted + 1]

Init ==
    /\ post = [p \in Posters |-> "idle"]
    /\ gate = FALSE
    /\ source = {}
    /\ registered = FALSE
    /\ pc = "none"
    /\ outcome = "ok"
    /\ emitted = 0
    /\ lines = 0
    /\ chan = <<>>
    /\ sinkOpen = FALSE
    /\ fwd = "none"
    /\ held = <<>>
    /\ log = <<>>
    /\ sent = <<>>
    /\ result = FALSE
    /\ state = "Building"
    /\ sub = [s \in Subscribers |-> "idle"]
    /\ backlog = [s \in Subscribers |-> <<>>]
    /\ next = [s \in Subscribers |-> 0]
    /\ lagged = [s \in Subscribers |-> FALSE]
    /\ received = [s \in Subscribers |-> <<>>]
    /\ fetched = [s \in Subscribers |-> "none"]

-----------------------------------------------------------------------------
(* POST /build *)

\* validate_nonce refuses the nonce, or the request names no source.
Malformed(r) == ~r.nonceOk \/ r.source = {}

\* Fault: the gate is taken before the request is validated.
PostBuildGateFirst(p, r) ==
    /\ post[p] = "idle"
    /\ gate' = TRUE
    /\ post' = [post EXCEPT ![p] = IF gate THEN "conflict"
                                   ELSE IF Malformed(r) THEN "bad_request"
                                   ELSE "won"]
    /\ source' = IF gate THEN source ELSE r.source
    /\ UNCHANGED <<registered, runVars, sinkVars, pubVars, subVars>>

\* post_build up to the gate: the nonce and source checks touch no shared
\* state, the swap is one atomic operation.
PostBuild(p, r) ==
    /\ post[p] = "idle"
    /\ IF Malformed(r)
         THEN /\ post' = [post EXCEPT ![p] = "bad_request"]
              /\ UNCHANGED <<gate, source>>
         ELSE /\ gate' = TRUE
              /\ post' = [post EXCEPT ![p] = IF gate THEN "conflict" ELSE "won"]
              /\ source' = IF gate THEN source ELSE r.source
    /\ UNCHANGED <<registered, runVars, sinkVars, pubVars, subVars>>

\* try_register_with_nonce after the swap: the job enters the map.
InsertJob(p) ==
    /\ post[p] = "won"
    /\ registered' = TRUE
    /\ post' = [post EXCEPT ![p] = "inserted"]
    /\ UNCHANGED <<gate, source, runVars, sinkVars, pubVars, subVars>>

\* runner.spawn and the reply with the job id.
SpawnRunner(p) ==
    /\ post[p] = "inserted"
    /\ post' = [post EXCEPT ![p] = "accepted"]
    /\ pc' = "tempdir"
    /\ UNCHANGED <<gate, source, registered, outcome, emitted, lines, result,
                   state, sinkVars, pubVars, subVars>>

-----------------------------------------------------------------------------
(* The sink *)

\* Fault: one event more than the channel holds.
TryEmitOverfull(kind) ==
    /\ emitted' = emitted + 1
    /\ chan' = IF Len(chan) <= MpscCap THEN Append(chan, NewEvent(kind)) ELSE chan

\* EventSink::try_emit: the event is dropped when the channel is full.
TryEmit(kind) ==
    /\ emitted' = emitted + 1
    /\ chan' = IF Len(chan) < MpscCap THEN Append(chan, NewEvent(kind)) ELSE chan

\* Fault: emit drops the event when the channel is full.
EmitLossy(kind) ==
    /\ emitted' = emitted + 1
    /\ chan' = IF Len(chan) < MpscCap THEN Append(chan, NewEvent(kind)) ELSE chan

\* EventSink::emit: the build thread waits for room.
Emit(kind) ==
    /\ Len(chan) < MpscCap
    /\ emitted' = emitted + 1
    /\ chan' = Append(chan, NewEvent(kind))

-----------------------------------------------------------------------------
(* The build task: run_build and the build it runs *)

\* tempdir(), the channel and the forwarder.
StartBuild ==
    /\ pc = "tempdir"
    /\ pc' = "source"
    /\ sinkOpen' = TRUE
    /\ fwd' = "recv"
    /\ UNCHANGED <<postVars, outcome, emitted, lines, result, state, chan,
                   held, pubVars, subVars>>

\* tempdir() fails: run_build returns before there is a forwarder.
StartFails ==
    /\ pc = "tempdir"
    /\ pc' = "complete"
    /\ outcome' = "err"
    /\ UNCHANGED <<postVars, emitted, lines, result, state, sinkVars, pubVars,
                   subVars>>

\* source_data is unpacked, or else repo_url is cloned.
MaterializeSource ==
    /\ pc = "source"
    /\ pc' = "detect"
    /\ UNCHANGED <<postVars, outcome, emitted, lines, result, state, sinkVars,
                   pubVars, subVars>>

\* A step of the build thread that reports with try_emit.
TryStep(from, kind, to) ==
    /\ pc = from
    /\ pc' = to
    /\ TryEmit(kind)
    /\ UNCHANGED <<postVars, outcome, lines, result, state, sinkOpen, fwd,
                   held, pubVars, subVars>>

\* build_with_sink finds the toolchain.
DetectToolchain == TryStep("detect", "detect", "prepare")

\* runner::run, steps 1 to 6: "Running `...`".
PrepareBuild == TryStep("prepare", "build", "stream")

\* A line of the build command's output, from a reader thread of stream_command.
EmitLine ==
    /\ pc = "stream"
    /\ lines < MaxLines
    /\ lines' = lines + 1
    /\ TryEmit("build")
    /\ UNCHANGED <<postVars, pc, outcome, result, state, sinkOpen, fwd, held,
                   pubVars, subVars>>

\* The command exits successfully: "Build command finished".
FinishCommand == TryStep("stream", "build", "artifacts")

\* runner::run, steps 7 to 10.
WriteProvenance ==
    TryStep("artifacts", "provenance",
            IF AttestEnabled THEN "platform" ELSE "publish")

\* A step of attest_with_sink that reports with emit.
AttestStep(from, to) ==
    /\ pc = from
    /\ pc' = to
    /\ Emit("attest")
    /\ UNCHANGED <<postVars, outcome, lines, result, state, sinkOpen, fwd,
                   held, pubVars, subVars>>

DetectPlatform == AttestStep("platform", "checksum")
ReadProvenance == AttestStep("checksum", "evidence")
WriteEvidence  == AttestStep("evidence", "publish")

\* Fault: a step after result.set fails the build.
PublishResultThenFail ==
    /\ pc = "publish"
    /\ pc' = "drop"
    /\ result' = TRUE
    /\ outcome' \in {"ok", "err"}
    /\ UNCHANGED <<postVars, emitted, lines, state, sinkVars, pubVars, subVars>>

\* tar_dir and result.set.
PublishResult ==
    /\ pc = "publish"
    /\ pc' = "drop"
    /\ result' = TRUE
    /\ UNCHANGED <<postVars, outcome, emitted, lines, state, sinkVars, pubVars,
                   subVars>>

FalliblePcs == {"source", "detect", "prepare", "stream", "artifacts",
                "platform", "checksum", "evidence", "publish"}

\* Fault: the error of the build is not propagated.
BuildFailsSilently ==
    /\ pc \in FalliblePcs
    /\ pc' = "drop"
    /\ UNCHANGED <<postVars, outcome, emitted, lines, result, state, sinkVars,
                   pubVars, subVars>>

\* Any step returns an error, or panics inside spawn_blocking.
BuildFails ==
    /\ pc \in FalliblePcs
    /\ pc' = "drop"
    /\ outcome' = "err"
    /\ UNCHANGED <<postVars, emitted, lines, result, state, sinkVars, pubVars,
                   subVars>>

\* Fault: a clone of the sink stays alive in a detached thread.
DropSinkLeaked ==
    /\ pc = "drop"
    /\ pc' = "drain"
    /\ UNCHANGED <<postVars, outcome, emitted, lines, result, state, sinkVars,
                   pubVars, subVars>>

\* drop(sink): the build thread's and the reader threads' clones are gone.
DropSink ==
    /\ pc = "drop"
    /\ pc' = "drain"
    /\ sinkOpen' = FALSE
    /\ UNCHANGED <<postVars, outcome, emitted, lines, result, state, chan, fwd,
                   held, pubVars, subVars>>

\* Fault: the forwarder is not awaited.
AwaitForwarderSkipped ==
    /\ pc = "drain"
    /\ pc' = "complete"
    /\ UNCHANGED <<postVars, outcome, emitted, lines, result, state, sinkVars,
                   pubVars, subVars>>

\* fwd.await
AwaitForwarder ==
    /\ pc = "drain"
    /\ fwd = "exited"
    /\ pc' = "complete"
    /\ UNCHANGED <<postVars, outcome, emitted, lines, result, state, sinkVars,
                   pubVars, subVars>>

Verdict == IF outcome = "ok" THEN "ok" ELSE "failed"

\* push_event(Complete), first half: into the log, under its lock.
LogComplete ==
    /\ pc = "complete"
    /\ pc' = "announce"
    /\ emitted' = emitted + 1
    /\ log' = Append(log, NewEvent(Verdict))
    /\ UNCHANGED <<postVars, outcome, lines, result, state, sinkVars, sent,
                   subVars>>

\* push_event(Complete), second half: out on the broadcast channel.
SendComplete ==
    /\ pc = "announce"
    /\ pc' = "mark"
    /\ sent' = Append(sent, [kind |-> Verdict, id |-> emitted])
    /\ UNCHANGED <<postVars, outcome, emitted, lines, result, state, sinkVars,
                   log, subVars>>

\* mark_done, mark_failed
MarkState ==
    /\ pc = "mark"
    /\ pc' = "stopped"
    /\ state' = IF outcome = "ok" THEN "Done" ELSE "Failed"
    /\ UNCHANGED <<postVars, outcome, emitted, lines, result, sinkVars,
                   pubVars, subVars>>

-----------------------------------------------------------------------------
(* The forwarder: while let Some(e) = rx.recv().await { push_event(e) } *)

ForwarderRecv ==
    /\ fwd = "recv" /\ chan # <<>>
    /\ held' = <<Head(chan)>>
    /\ chan' = Tail(chan)
    /\ fwd' = "log"
    /\ UNCHANGED <<postVars, runVars, sinkOpen, pubVars, subVars>>

ForwarderLog ==
    /\ fwd = "log"
    /\ log' = log \o held
    /\ fwd' = "send"
    /\ UNCHANGED <<postVars, runVars, chan, sinkOpen, held, sent, subVars>>

ForwarderSend ==
    /\ fwd = "send"
    /\ sent' = sent \o held
    /\ held' = <<>>
    /\ fwd' = "recv"
    /\ UNCHANGED <<postVars, runVars, chan, sinkOpen, log, subVars>>

\* recv returns None: no sender is left and the channel is drained.
ForwarderExit ==
    /\ fwd = "recv" /\ chan = <<>> /\ ~sinkOpen
    /\ fwd' = "exited"
    /\ UNCHANGED <<postVars, runVars, chan, sinkOpen, held, pubVars, subVars>>

-----------------------------------------------------------------------------
(* GET /build/{id}/events and GET /build/{id}/result.  An unknown id is     *)
(* answered 404 and changes nothing.                                        *)

\* job.subscribe(): the receiver sees what is sent from now on.
Subscribe(s) ==
    /\ registered /\ sub[s] = "idle"
    /\ sub' = [sub EXCEPT ![s] = "subscribed"]
    /\ next' = [next EXCEPT ![s] = Len(sent)]
    /\ UNCHANGED <<postVars, runVars, sinkVars, pubVars, backlog, lagged,
                   received, fetched>>

\* job.snapshot_events(), under the lock of the log.
Snapshot(s) ==
    /\ sub[s] = "subscribed"
    /\ sub' = [sub EXCEPT ![s] = "streaming"]
    /\ backlog' = [backlog EXCEPT ![s] = log]
    /\ UNCHANGED <<postVars, runVars, sinkVars, pubVars, next, lagged,
                   received, fetched>>

\* Fault: the receiver is created when the backlog has been written.
WriteBacklogThenSubscribe(s) ==
    /\ sub[s] = "streaming" /\ backlog[s] # <<>>
    /\ received' = [received EXCEPT ![s] = Append(@, Head(backlog[s]))]
    /\ backlog' = [backlog EXCEPT ![s] = Tail(@)]
    /\ next' = [next EXCEPT ![s] = Len(sent)]
    /\ UNCHANGED <<postVars, runVars, sinkVars, pubVars, sub, lagged, fetched>>

\* backlog_stream, written before live_stream is polled.
WriteBacklog(s) ==
    /\ sub[s] = "streaming" /\ backlog[s] # <<>>
    /\ received' = [received EXCEPT ![s] = Append(@, Head(backlog[s]))]
    /\ backlog' = [backlog EXCEPT ![s] = Tail(@)]
    /\ UNCHANGED <<postVars, runVars, sinkVars, pubVars, sub, next, lagged,
                   fetched>>

\* live_stream yields the next message still in the broadcast ring.
WriteLive(s) ==
    /\ sub[s] = "streaming" /\ backlog[s] = <<>>
    /\ next[s] < Len(sent) /\ Len(sent) <= next[s] + BcastCap
    /\ received' = [received EXCEPT ![s] = Append(@, sent[next[s] + 1])]
    /\ next' = [next EXCEPT ![s] = @ + 1]
    /\ UNCHANGED <<postVars, runVars, sinkVars, pubVars, sub, backlog, lagged,
                   fetched>>

\* Fault: a lagging receiver resumes at the tail of the ring.
SkipLaggedToTail(s) ==
    /\ sub[s] = "streaming" /\ backlog[s] = <<>>
    /\ Len(sent) > next[s] + BcastCap
    /\ next' = [next EXCEPT ![s] = Len(sent)]
    /\ lagged' = [lagged EXCEPT ![s] = TRUE]
    /\ UNCHANGED <<postVars, runVars, sinkVars, pubVars, sub, backlog,
                   received, fetched>>

\* recv reports Lagged, which the stream filters out: the receiver moves to
\* the oldest message the ring still holds.
SkipLagged(s) ==
    /\ sub[s] = "streaming" /\ backlog[s] = <<>>
    /\ Len(sent) > next[s] + BcastCap
    /\ next' = [next EXCEPT ![s] = Len(sent) - BcastCap]
    /\ lagged' = [lagged EXCEPT ![s] = TRUE]
    /\ UNCHANGED <<postVars, runVars, sinkVars, pubVars, sub, backlog,
                   received, fetched>>

\* get_result: 200 once the result is set, 404 before.
GetResult(s) ==
    /\ registered
    /\ fetched' = [fetched EXCEPT ![s] = IF result THEN "200" ELSE "404"]
    /\ UNCHANGED <<postVars, runVars, sinkVars, pubVars, sub, backlog, next,
                   lagged, received>>

-----------------------------------------------------------------------------
Handler(p) == InsertJob(p) \/ SpawnRunner(p)

Attest == DetectPlatform \/ ReadProvenance \/ WriteEvidence

Runner ==
    \/ StartBuild \/ StartFails \/ MaterializeSource \/ DetectToolchain
    \/ PrepareBuild \/ EmitLine \/ FinishCommand \/ WriteProvenance
    \/ Attest \/ PublishResult \/ BuildFails
    \/ DropSink \/ AwaitForwarder \/ LogComplete \/ SendComplete \/ MarkState

Forwarder == ForwarderRecv \/ ForwarderLog \/ ForwarderSend \/ ForwarderExit

Stream(s) ==
    Snapshot(s) \/ WriteBacklog(s) \/ WriteLive(s) \/ SkipLagged(s)

Next ==
    \/ \E p \in Posters, r \in Requests : PostBuild(p, r)
    \/ \E p \in Posters : Handler(p)
    \/ Runner
    \/ Forwarder
    \/ \E s \in Subscribers : Subscribe(s) \/ Stream(s) \/ GetResult(s)

Spec == Init /\ [][Next]_vars

(* The runtime keeps polling the tasks it was given, the build command ends, *)
(* and a connected client keeps reading.  No client has to send a request.   *)
Fairness ==
    /\ \A p \in Posters : WF_vars(Handler(p))
    /\ WF_vars(Runner)
    /\ WF_vars(Forwarder)
    /\ \A s \in Subscribers : WF_vars(Stream(s))

FairSpec == Spec /\ Fairness

-----------------------------------------------------------------------------
(* Properties *)

PcValues == FalliblePcs \union
    {"none", "tempdir", "drop", "drain", "complete", "announce", "mark", "stopped"}

\* Every variable has its type, and neither the sink's channel nor the
\* forwarder's hand holds more than its capacity (src/server/runner.rs, run_build).
TypeOK ==
    /\ post \in [Posters -> {"idle", "bad_request", "conflict", "won",
                             "inserted", "accepted"}]
    /\ gate \in BOOLEAN
    /\ source \subseteq {"repo_url", "source_data"}
    /\ registered \in BOOLEAN
    /\ pc \in PcValues
    /\ outcome \in {"ok", "err"}
    /\ emitted \in Nat
    /\ lines \in 0..MaxLines
    /\ chan \in Seq(Event) /\ Len(chan) <= MpscCap
    /\ sinkOpen \in BOOLEAN
    /\ fwd \in {"none", "recv", "log", "send", "exited"}
    /\ held \in Seq(Event) /\ Len(held) <= 1
    /\ log \in Seq(Event)
    /\ sent \in Seq(Event)
    /\ result \in BOOLEAN
    /\ state \in {"Building", "Done", "Failed"}
    /\ sub \in [Subscribers -> {"idle", "subscribed", "streaming"}]
    /\ backlog \in [Subscribers -> Seq(Event)]
    /\ next \in [Subscribers -> Nat]
    /\ lagged \in [Subscribers -> BOOLEAN]
    /\ received \in [Subscribers -> Seq(Event)]
    /\ fetched \in [Subscribers -> {"none", "404", "200"}]

\* The gate is taken by exactly one request that passed validation, and a
\* rejected request never uses up the VM's only build (post_build).
OneBuildPerVM ==
    LET Winners == {p \in Posters : post[p] \in {"won", "inserted", "accepted"}}
    IN  /\ gate <=> Winners # {}
        /\ \A p, q \in Winners : p = q
        /\ (\E p \in Posters : post[p] = "conflict") => Winners # {}

\* The Complete event is the last event of the log, and there is one: it is
\* pushed after the forwarder has drained the sink (run_build).
CompleteIsLast ==
    \A i \in DOMAIN log : IsComplete(log[i]) => i = Len(log)

\* A job announced or marked as successful has its result, and a job announced
\* or marked as failed has none (run_build, mark_done, mark_failed).
VerdictMatchesResult ==
    /\ \A i \in DOMAIN log : IsComplete(log[i]) => (log[i].kind = "ok" <=> result)
    /\ state # "Building" => (state = "Done" <=> result)

AttestEvents == {i \in DOMAIN log : log[i].kind = "attest"}

\* Build output may be dropped by a full sink, but the log of a successful
\* attested build has its three Attest events: emit waits where try_emit drops.
AttestEventsLogged ==
    (AttestEnabled /\ \E i \in DOMAIN log : log[i].kind = "ok") =>
        \E i, j, k \in AttestEvents : i < j /\ j < k

\* When an event is written, every event logged before it has been written.
NoGap(s) ==
    \A k \in DOMAIN received[s] : \E j \in DOMAIN log :
        /\ received[s][k] = log[j]
        /\ \A i \in 1..(j - 1) : \E m \in 1..(k - 1) : received[s][m] = log[i]

\* A stream whose receiver never lagged has no gap, although events are
\* pushed while get_events runs: it subscribes before it takes the snapshot,
\* and push_event logs before it sends.
NoGapInStream == \A s \in Subscribers : ~lagged[s] => NoGap(s)

CaughtUp(s) ==
    /\ sub[s] = "streaming"
    /\ backlog[s] = <<>>
    /\ next[s] = Len(sent)

\* "Every received stream must end with a Complete event (no terminal-event
\* drops)", tests/server_events_test.rs: also when the receiver lagged.
StreamEndsWithComplete ==
    \A s \in Subscribers :
        (pc \in {"mark", "stopped"} /\ CaughtUp(s)) =>
            received[s] # <<>> /\ IsComplete(received[s][Len(received[s])])

SawOk(s) == \E k \in DOMAIN received[s] : received[s][k].kind = "ok"

\* A client that has read Complete{Ok} is not answered 404 when it asks for
\* the result (get_result): result.set comes before the Complete event.
ResultAfterOk ==
    [][\A s \in Subscribers :
          SawOk(s) /\ fetched'[s] # fetched[s] => fetched'[s] = "200"]_vars

\* Every stream that is being read gets the verdict (get_events).
EveryStreamCompletes ==
    \A s \in Subscribers :
        sub[s] = "streaming" ~> \E k \in DOMAIN received[s] : IsComplete(received[s][k])

LoggedVerdict ==
    IF log # <<>> /\ IsComplete(log[Len(log)]) THEN log[Len(log)].kind ELSE "none"

OSB == INSTANCE OneShotBuild WITH
    accepted <- gate, result <- result, verdict <- LoggedVerdict

\* The server implements the one-shot build it promises, and concludes the
\* build it accepted.
ImplementsOneShotBuild == OSB!FairSpec
=============================================================================
