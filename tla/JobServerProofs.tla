--------------------------- MODULE JobServerProofs ---------------------------
(***************************************************************************)
(* Theorems about JobServer, for any clients, any channel capacities and   *)
(* any amount of build output.                                             *)
(***************************************************************************)
EXTENDS JobServer, SequenceTheorems, TLAPS

-----------------------------------------------------------------------------
(* Type correctness *)

\* A new event is an event, whatever it reports.
LEMMA NewEventType ==
    ASSUME NEW kind \in Kinds, emitted \in Nat
    PROVE  NewEvent(kind) \in Event
BY DEF NewEvent, Event

\* try_emit keeps the channel within its capacity (src/toolchain.rs).
LEMMA TryEmitType ==
    ASSUME TypeOK, NEW kind \in Kinds, TryEmit(kind)
    PROVE  /\ emitted' \in Nat
           /\ chan' \in Seq(Event) /\ Len(chan') <= MpscCap
<1>1. NewEvent(kind) \in Event
  BY NewEventType DEF TypeOK
<1>2. QED
  BY <1>1, JobServerAssumption DEF TypeOK, TryEmit

\* emit keeps the channel within its capacity (src/toolchain.rs).
LEMMA EmitType ==
    ASSUME TypeOK, NEW kind \in Kinds, Emit(kind)
    PROVE  /\ emitted' \in Nat
           /\ chan' \in Seq(Event) /\ Len(chan') <= MpscCap
<1>1. NewEvent(kind) \in Event
  BY NewEventType DEF TypeOK
<1>2. QED
  BY <1>1, JobServerAssumption DEF TypeOK, Emit

\* Init establishes the type invariant.
LEMMA InitType == Init => TypeOK
<1> SUFFICES ASSUME Init PROVE TypeOK
  OBVIOUS
<1>1. MaxLines \in Nat /\ MpscCap \in Nat
  BY JobServerAssumption DEF JobServerAssumption
<1>2. pc \in PcValues
  BY DEF Init, PcValues
<1>3. lagged \in [Subscribers -> BOOLEAN]
  BY Zenon DEF Init
<1>4. /\ gate \in BOOLEAN /\ registered \in BOOLEAN
      /\ sinkOpen \in BOOLEAN /\ result \in BOOLEAN
  BY Zenon DEF Init
<1>5. /\ chan \in Seq(Event) /\ Len(chan) <= MpscCap
      /\ held \in Seq(Event) /\ Len(held) <= 1
      /\ log \in Seq(Event) /\ sent \in Seq(Event)
  BY <1>1 DEF Init
<1>6. /\ backlog \in [Subscribers -> Seq(Event)]
      /\ received \in [Subscribers -> Seq(Event)]
  BY DEF Init
<1>7. /\ emitted \in Nat /\ lines \in 0..MaxLines
      /\ next \in [Subscribers -> Nat]
  BY <1>1 DEF Init
<1>8. /\ post \in [Posters -> {"idle", "bad_request", "conflict", "won",
                             "inserted", "accepted"}]
      /\ source \subseteq {"repo_url", "source_data"}
      /\ sub \in [Subscribers -> {"idle", "subscribed", "streaming"}]
      /\ fetched \in [Subscribers -> {"none", "404", "200"}]
  BY DEF Init
<1>9. QED
  BY <1>2, <1>3, <1>4, <1>5, <1>6, <1>7, <1>8 DEF Init, TypeOK

\* A request handler preserves it.
LEMMA PostType ==
    ASSUME TypeOK, NEW p \in Posters,
           (\E r \in Requests : PostBuild(p, r)) \/ Handler(p)
    PROVE  TypeOK'
<1>1. ASSUME NEW r \in Requests, PostBuild(p, r) PROVE TypeOK'
  <2>1. r.source \subseteq {"repo_url", "source_data"}
    BY JobServerAssumption DEF JobServerAssumption, RequestType
  <2>2. gate' \in BOOLEAN
    BY <1>1, Zenon DEF TypeOK, PostBuild
  <2>3. /\ post' \in [Posters -> {"idle", "bad_request", "conflict", "won",
                                 "inserted", "accepted"}]
        /\ source' \subseteq {"repo_url", "source_data"}
    BY <1>1, <2>1 DEF TypeOK, PostBuild
  <2>4. QED
    BY <1>1, <2>2, <2>3 DEF TypeOK, PostBuild, runVars, sinkVars, pubVars, subVars
<1>2. CASE InsertJob(p)
  BY <1>2 DEF TypeOK, InsertJob, runVars, sinkVars, pubVars, subVars
<1>3. CASE SpawnRunner(p)
  BY <1>3 DEF TypeOK, SpawnRunner, PcValues, sinkVars, pubVars, subVars
<1>4. QED
  BY <1>1, <1>2, <1>3 DEF Handler

\* The build task preserves it.
LEMMA RunnerType == ASSUME TypeOK, Runner PROVE TypeOK'
<1> USE DEF postVars, sinkVars, pubVars, subVars
<1>1. ASSUME NEW kind \in Kinds, NEW from, NEW to \in PcValues,
             TryStep(from, kind, to)
      PROVE  TypeOK'
  BY <1>1, TryEmitType DEF TypeOK, TryStep
<1>2. ASSUME NEW from, NEW to \in PcValues, AttestStep(from, to)
      PROVE  TypeOK'
  <2>1. "attest" \in Kinds
    BY DEF Kinds
  <2>2. QED
    BY <1>2, <2>1, EmitType DEF TypeOK, AttestStep
<1>3. CASE StartBuild
  <2>1. sinkOpen' \in BOOLEAN
    BY <1>3, Zenon DEF StartBuild
  <2>2. QED
    BY <1>3, <2>1 DEF TypeOK, StartBuild, PcValues, FalliblePcs
<1>11. CASE StartFails
  BY <1>11 DEF TypeOK, StartFails, PcValues
<1>12. CASE MaterializeSource
  BY <1>12 DEF TypeOK, MaterializeSource, PcValues, FalliblePcs
<1>4. CASE DetectToolchain \/ PrepareBuild \/ FinishCommand \/ WriteProvenance
  BY <1>4, <1>1
  DEF DetectToolchain, PrepareBuild, FinishCommand, WriteProvenance, Kinds,
      PcValues, FalliblePcs
<1>5. CASE EmitLine
  <2>1. "build" \in Kinds
    BY DEF Kinds
  <2>2. QED
    BY <1>5, <2>1, TryEmitType, JobServerAssumption DEF TypeOK, EmitLine
<1>6. CASE Attest
  BY <1>6, <1>2
  DEF Attest, DetectPlatform, ReadProvenance, WriteEvidence, PcValues, FalliblePcs
<1>7. CASE PublishResult \/ DropSink
  <2>1. /\ pc' \in PcValues /\ outcome' \in {"ok", "err"}
        /\ result' \in BOOLEAN /\ sinkOpen' \in BOOLEAN
    BY <1>7, Zenon DEF TypeOK, PublishResult, DropSink, PcValues
  <2>2. UNCHANGED <<post, gate, source, registered, emitted, lines, state, chan, fwd, held,
                    log, sent, sub, backlog, next, lagged, received, fetched>>
    BY <1>7 DEF PublishResult, DropSink
  <2>3. QED
    BY <2>1, <2>2, Zenon DEF TypeOK
<1>13. CASE BuildFails \/ AwaitForwarder
  <2>1. pc' \in PcValues /\ outcome' \in {"ok", "err"}
    BY <1>13 DEF TypeOK, BuildFails, AwaitForwarder, PcValues
  <2>2. UNCHANGED <<post, gate, source, registered, emitted, lines, state, chan, sinkOpen, fwd,
                    held, log, sent, result, sub, backlog, next, lagged, received, fetched>>
    BY <1>13 DEF BuildFails, AwaitForwarder
  <2>3. QED
    BY <2>1, <2>2, Zenon DEF TypeOK
<1>8. CASE LogComplete
  <2>1. NewEvent(Verdict) \in Event
    BY NewEventType DEF TypeOK, Verdict, Kinds
  <2>2. QED
    BY <1>8, <2>1 DEF TypeOK, LogComplete, PcValues
<1>9. CASE SendComplete
  <2>1. [kind |-> Verdict, id |-> emitted] \in Event
    BY DEF TypeOK, Verdict, Kinds, Event
  <2>2. QED
    BY <1>9, <2>1 DEF TypeOK, SendComplete, PcValues
<1>10. CASE MarkState
  BY <1>10 DEF TypeOK, MarkState, PcValues
<1>14. QED
  BY <1>3, <1>4, <1>5, <1>6, <1>7, <1>8, <1>9, <1>10, <1>11, <1>12, <1>13 DEF Runner

\* The forwarder preserves it.
LEMMA ForwarderType == ASSUME TypeOK, Forwarder PROVE TypeOK'
<1> USE DEF postVars, runVars, pubVars, subVars
<1>1. CASE ForwarderRecv
  <2>1. /\ Head(chan) \in Event /\ Tail(chan) \in Seq(Event)
        /\ Len(Tail(chan)) <= MpscCap
    BY <1>1, JobServerAssumption DEF JobServerAssumption, TypeOK, ForwarderRecv
  <2>2. held' \in Seq(Event) /\ Len(held') <= 1
    BY <1>1, <2>1 DEF ForwarderRecv
  <2>3. QED
    BY <1>1, <2>1, <2>2 DEF TypeOK, ForwarderRecv
<1>2. CASE ForwarderLog
  BY <1>2 DEF TypeOK, ForwarderLog
<1>3. CASE ForwarderSend
  BY <1>3 DEF TypeOK, ForwarderSend
<1>4. CASE ForwarderExit
  BY <1>4 DEF TypeOK, ForwarderExit
<1>5. QED
  BY <1>1, <1>2, <1>3, <1>4 DEF Forwarder

\* A subscriber preserves it.
LEMMA SubscriberType ==
    ASSUME TypeOK, NEW s \in Subscribers, Subscribe(s) \/ Stream(s) \/ GetResult(s)
    PROVE  TypeOK'
<1> USE DEF postVars, runVars, sinkVars, pubVars
<1>1. CASE Subscribe(s)
  BY <1>1 DEF TypeOK, Subscribe
<1>2. CASE Snapshot(s)
  BY <1>2 DEF TypeOK, Snapshot
<1>3. CASE WriteBacklog(s)
  <2>1. Head(backlog[s]) \in Event /\ Tail(backlog[s]) \in Seq(Event)
    BY <1>3 DEF TypeOK, WriteBacklog
  <2>2. QED
    BY <1>3, <2>1 DEF TypeOK, WriteBacklog
<1>4. CASE WriteLive(s)
  <2>1. sent[next[s] + 1] \in Event
    BY <1>4 DEF TypeOK, WriteLive
  <2>2. QED
    BY <1>4, <2>1, SMTT(20) DEF TypeOK, WriteLive
<1>5. CASE SkipLagged(s)
  <2>1. Len(sent) - BcastCap \in Nat
    BY <1>5, JobServerAssumption DEF TypeOK, SkipLagged
  <2>2. QED
    BY <1>5, <2>1 DEF TypeOK, SkipLagged
<1>6. CASE GetResult(s)
  BY <1>6 DEF TypeOK, GetResult
<1>7. QED
  BY <1>1, <1>2, <1>3, <1>4, <1>5, <1>6 DEF Stream

\* Every variable keeps its type and the sink's channel its capacity.
THEOREM TypeCorrect == Spec => []TypeOK
<1>1. TypeOK /\ [Next]_vars => TypeOK'
  <2> SUFFICES ASSUME TypeOK, [Next]_vars PROVE TypeOK'
    OBVIOUS
  <2>1. CASE UNCHANGED vars
    BY <2>1 DEF TypeOK, vars, postVars, runVars, sinkVars, pubVars, subVars
  <2>2. CASE Next
    BY <2>2, PostType, RunnerType, ForwarderType, SubscriberType DEF Next
  <2>3. QED
    BY <2>1, <2>2
<1>2. QED
  BY InitType, <1>1, PTL DEF Spec

-----------------------------------------------------------------------------
(* The inductive invariant *)

Working == FalliblePcs \union {"drop"}
Announced == {"announce", "mark", "stopped"}
Finishing == {"complete"} \union Announced

\* Where the forwarder stands while the build task is at pc.
ControlInv ==
    /\ pc \in {"none", "tempdir"} => fwd = "none"
    /\ pc \in Working => fwd \in {"recv", "log", "send"}
    /\ pc = "drain" => fwd # "none"
    /\ pc \in Finishing => fwd \in {"none", "exited"}
    /\ fwd \in {"none", "exited"} => chan = <<>>
    /\ fwd \in {"none", "recv", "exited"} => held = <<>>
    /\ (sinkOpen <=> pc \in Working)

\* What the outcome of the build, the result and the job's state say.
OutcomeInv ==
    /\ outcome = "err" => pc \in {"drop", "drain"} \union Finishing
    /\ (result <=> outcome = "ok" /\ pc \in {"drop", "drain"} \union Finishing)
    /\ state = IF pc = "stopped" THEN IF outcome = "ok" THEN "Done" ELSE "Failed"
                                 ELSE "Building"

\* Where a Complete event may be.
CompleteInv ==
    /\ \A i \in DOMAIN chan : ~IsComplete(chan[i])
    /\ \A i \in DOMAIN held : ~IsComplete(held[i])
    /\ \A i \in DOMAIN log : IsComplete(log[i]) =>
          i = Len(log) /\ pc \in Announced /\ log[i].kind = Verdict
    /\ pc \in Announced => log # <<>> /\ log[Len(log)].kind = Verdict

\* The event that is in the log and not yet on the broadcast channel.
Pending ==
    IF fwd = "send" THEN held
    ELSE IF pc = "announce" THEN <<[kind |-> Verdict, id |-> emitted]>>
    ELSE <<>>

\* The broadcast channel carries the log, in its order.
SentInv == log = sent \o Pending

\* What a stream that never lagged has written and will write.
StreamInv(s) ==
    /\ next[s] <= Len(sent)
    /\ sub[s] # "streaming" => received[s] = <<>> /\ backlog[s] = <<>>
    /\ ~lagged[s] =>
         IF backlog[s] # <<>>
           THEN /\ next[s] <= Len(received[s]) + Len(backlog[s])
                /\ Len(received[s]) + Len(backlog[s]) <= Len(log)
                /\ \A k \in DOMAIN received[s] : received[s][k] = log[k]
                /\ \A k \in DOMAIN backlog[s] :
                       backlog[s][k] = log[Len(received[s]) + k]
           ELSE sub[s] = "streaming" =>
                  \A i \in 1..next[s] :
                      \E m \in DOMAIN received[s] : received[s][m] = log[i]

\* The last event a stream that is past the Complete event will have written.
EndInv(s) ==
    (pc \in {"mark", "stopped"} /\ sub[s] = "streaming" /\ next[s] = Len(sent)) =>
        LET rest == received[s] \o backlog[s]
        IN  rest # <<>> /\ IsComplete(rest[Len(rest)])

\* Who has taken the gate, and that the build task starts once.
GateInv ==
    /\ OneBuildPerVM
    /\ \A p \in Posters : post[p] \in {"won", "inserted"} => pc = "none"
    /\ ~gate => pc = "none"

JobInv == TypeOK /\ GateInv /\ ControlInv /\ OutcomeInv /\ CompleteInv /\ SentInv

\* Init establishes the part of the invariant about the job.
LEMMA InitJobInv == Init => JobInv
<1> SUFFICES ASSUME Init PROVE JobInv
  OBVIOUS
<1>1. GateInv
  BY DEF Init, GateInv, OneBuildPerVM
<1>2. ControlInv
  BY DEF Init, ControlInv, Working, Finishing, Announced, FalliblePcs
<1>3. OutcomeInv
  BY DEF Init, OutcomeInv, Finishing, Announced
<1>4. CompleteInv
  BY DEF Init, CompleteInv, Announced
<1>5. SentInv
  BY DEF Init, SentInv, Pending
<1>6. QED
  BY <1>1, <1>2, <1>3, <1>4, <1>5, InitType DEF JobInv

\* Steps of the request handlers keep the gate to one winner.
LEMMA PostGate ==
    ASSUME TypeOK, GateInv, NEW p \in Posters,
           (\E r \in Requests : PostBuild(p, r)) \/ Handler(p)
    PROVE  GateInv'
<1>1. ASSUME NEW r \in Requests, PostBuild(p, r), Malformed(r) PROVE GateInv'
  <2>1. \A q \in Posters : post'[q] = IF q = p THEN "bad_request" ELSE post[q]
    BY <1>1 DEF TypeOK, PostBuild
  <2>2. post[p] = "idle" /\ gate' = gate /\ pc' = pc
    BY <1>1 DEF PostBuild, runVars
  <2>3. QED
    BY <2>1, <2>2 DEF GateInv, OneBuildPerVM
<1>2. ASSUME NEW r \in Requests, PostBuild(p, r), ~Malformed(r), gate PROVE GateInv'
  BY <1>2 DEF TypeOK, GateInv, OneBuildPerVM, PostBuild, runVars
<1>3. ASSUME NEW r \in Requests, PostBuild(p, r), ~Malformed(r), ~gate PROVE GateInv'
  BY <1>3 DEF TypeOK, GateInv, OneBuildPerVM, PostBuild, runVars
<1>4. CASE InsertJob(p)
  BY <1>4 DEF TypeOK, GateInv, OneBuildPerVM, InsertJob, runVars
<1>5. CASE SpawnRunner(p)
  BY <1>5 DEF TypeOK, GateInv, OneBuildPerVM, SpawnRunner
<1>6. QED
  BY <1>1, <1>2, <1>3, <1>4, <1>5 DEF Handler

\* The request handlers leave the job alone, except that the task is spawned.
LEMMA PostJob ==
    ASSUME JobInv, NEW p \in Posters,
           (\E r \in Requests : PostBuild(p, r)) \/ Handler(p)
    PROVE  JobInv'
<1> USE DEF JobInv
<1>1. TypeOK' /\ GateInv'
  BY PostType, PostGate
<1>2. CASE pc' = pc /\ UNCHANGED <<outcome, emitted, result, state, sinkVars, pubVars>>
  BY <1>1, <1>2
  DEF ControlInv, OutcomeInv, CompleteInv, SentInv, Pending, Verdict, sinkVars, pubVars
<1>3. CASE SpawnRunner(p)
  <2>1. pc = "none" /\ pc' = "tempdir"
    BY <1>3 DEF SpawnRunner, GateInv
  <2>2. UNCHANGED <<outcome, emitted, result, state, chan, sinkOpen, fwd, held, log, sent>>
    BY <1>3 DEF SpawnRunner, sinkVars, pubVars
  <2>3. ControlInv' /\ OutcomeInv'
    BY <2>1, <2>2 DEF ControlInv, OutcomeInv, Working, Finishing, Announced, FalliblePcs
  <2>4. CompleteInv' /\ SentInv'
    BY <2>1, <2>2 DEF CompleteInv, SentInv, Pending, Announced, Verdict
  <2>5. QED
    BY <1>1, <2>3, <2>4
<1>4. QED
  BY <1>2, <1>3 DEF Handler, PostBuild, InsertJob, runVars

\* A step of the build thread that only adds an event to the sink.
LEMMA EmitJob ==
    ASSUME JobInv, pc \in FalliblePcs, pc' \in FalliblePcs,
           NEW kind \in Kinds \ {"ok", "failed"},
           emitted' = emitted + 1,
           chan' \in {chan, Append(chan, NewEvent(kind))},
           UNCHANGED <<outcome, result, state, sinkOpen, fwd, held, log, sent>>
    PROVE  ControlInv' /\ OutcomeInv' /\ CompleteInv' /\ SentInv'
<1> USE DEF JobInv
<1>1. fwd \notin {"none", "exited"} /\ pc \in Working /\ pc' \in Working
  BY DEF ControlInv, Working
<1>2. ControlInv'
  BY <1>1 DEF ControlInv, Finishing, Announced, FalliblePcs
<1>3. OutcomeInv'
  BY DEF OutcomeInv, Finishing, Announced, FalliblePcs
<1>4. CompleteInv'
  <2>1. ~IsComplete(NewEvent(kind))
    BY DEF IsComplete, NewEvent
  <2>2. \A i \in DOMAIN chan' : ~IsComplete(chan'[i])
    <3>1. NewEvent(kind) \in Event /\ chan \in Seq(Event)
      BY NewEventType DEF TypeOK
    <3>2. \A i \in DOMAIN chan : ~IsComplete(chan[i])
      BY DEF CompleteInv
    <3>3. CASE chan' = chan
      BY <3>2, <3>3
    <3>4. CASE chan' = Append(chan, NewEvent(kind))
      BY <2>1, <3>1, <3>2, <3>4, AppendProperties
    <3>5. QED
      BY <3>3, <3>4
  <2>3. QED
    BY <2>2 DEF CompleteInv, Announced, FalliblePcs, Verdict
<1>5. SentInv'
  BY DEF SentInv, Pending, FalliblePcs
<1>6. QED
  BY <1>2, <1>3, <1>4, <1>5

\* The build task preserves the invariant of the job.
LEMMA RunnerJob == ASSUME JobInv, Runner PROVE JobInv'
<1> USE DEF JobInv
<1>1. TypeOK'
  BY RunnerType
<1>2. GateInv'
  <2>1. pc # "none" /\ UNCHANGED postVars
    BY DEF Runner, StartBuild, StartFails, MaterializeSource, DetectToolchain,
       PrepareBuild, EmitLine, FinishCommand, WriteProvenance, Attest, DetectPlatform,
       ReadProvenance, WriteEvidence, PublishResult, BuildFails, DropSink,
       AwaitForwarder, LogComplete, SendComplete, MarkState, TryStep, AttestStep,
       FalliblePcs
  <2>2. QED
    BY <2>1 DEF GateInv, OneBuildPerVM, postVars
<1> USE DEF sinkVars, pubVars
<1>3. ASSUME NEW from \in FalliblePcs, NEW to \in FalliblePcs,
             NEW kind \in Kinds \ {"ok", "failed"}, TryStep(from, kind, to)
      PROVE  ControlInv' /\ OutcomeInv' /\ CompleteInv' /\ SentInv'
  BY <1>3, EmitJob DEF TryStep, TryEmit
<1>4. ASSUME NEW from \in FalliblePcs, NEW to \in FalliblePcs, AttestStep(from, to)
      PROVE  ControlInv' /\ OutcomeInv' /\ CompleteInv' /\ SentInv'
  <2>1. "attest" \in Kinds \ {"ok", "failed"}
    BY DEF Kinds
  <2>2. QED
    BY <1>4, <2>1, EmitJob DEF AttestStep, Emit
<1>5. CASE StartBuild
  <2>1. ControlInv'
    BY <1>5 DEF StartBuild, ControlInv, Working, Finishing, Announced, FalliblePcs
  <2>2. OutcomeInv'
    BY <1>5 DEF StartBuild, OutcomeInv, Finishing, Announced
  <2>3. CompleteInv' /\ SentInv'
    BY <1>5 DEF StartBuild, ControlInv, CompleteInv, SentInv, Pending, Announced, Verdict
  <2>4. QED
    BY <1>1, <1>2, <2>1, <2>2, <2>3
<1>6. CASE StartFails
  <2>1. ControlInv'
    BY <1>6 DEF StartFails, ControlInv, Working, Finishing, Announced, FalliblePcs
  <2>2. OutcomeInv'
    BY <1>6 DEF StartFails, OutcomeInv, Finishing, Announced
  <2>3. CompleteInv' /\ SentInv'
    BY <1>6 DEF StartFails, CompleteInv, SentInv, Pending, Announced, Verdict
  <2>4. QED
    BY <1>1, <1>2, <2>1, <2>2, <2>3
<1>7. CASE MaterializeSource
  <2>1. ControlInv'
    BY <1>7 DEF MaterializeSource, ControlInv, Working, Finishing, Announced, FalliblePcs
  <2>2. OutcomeInv'
    BY <1>7 DEF MaterializeSource, OutcomeInv, Finishing, Announced
  <2>3. CompleteInv' /\ SentInv'
    BY <1>7 DEF MaterializeSource, CompleteInv, SentInv, Pending, Announced, Verdict
  <2>4. QED
    BY <1>1, <1>2, <2>1, <2>2, <2>3
<1>8. CASE DetectToolchain \/ PrepareBuild \/ FinishCommand \/ WriteProvenance
  BY <1>1, <1>2, <1>3, <1>8
  DEF DetectToolchain, PrepareBuild, FinishCommand, WriteProvenance, Kinds, FalliblePcs
<1>9. CASE EmitLine
  <2>1. "build" \in Kinds \ {"ok", "failed"} /\ pc \in FalliblePcs /\ pc' \in FalliblePcs
    BY <1>9 DEF EmitLine, Kinds, FalliblePcs
  <2>2. QED
    BY <1>1, <1>2, <1>9, <2>1, EmitJob DEF EmitLine, TryEmit
<1>10. CASE Attest
  BY <1>1, <1>2, <1>4, <1>10
  DEF Attest, DetectPlatform, ReadProvenance, WriteEvidence, FalliblePcs
<1>11. CASE PublishResult
  <2>1. ControlInv'
    BY <1>11 DEF PublishResult, ControlInv, Working, Finishing, Announced, FalliblePcs
  <2>2. OutcomeInv'
    BY <1>11 DEF PublishResult, OutcomeInv, Finishing, Announced, TypeOK
  <2>3. CompleteInv' /\ SentInv'
    BY <1>11 DEF PublishResult, CompleteInv, SentInv, Pending, Announced, Verdict
  <2>4. QED
    BY <1>1, <1>2, <2>1, <2>2, <2>3
<1>12. CASE BuildFails
  <2>1. ControlInv'
    BY <1>12 DEF BuildFails, ControlInv, Working, Finishing, Announced, FalliblePcs
  <2>2. OutcomeInv'
    BY <1>12 DEF BuildFails, OutcomeInv, Finishing, Announced, FalliblePcs
  <2>3. CompleteInv' /\ SentInv'
    BY <1>12
    DEF BuildFails, CompleteInv, SentInv, Pending, Announced, Verdict, FalliblePcs
  <2>4. QED
    BY <1>1, <1>2, <2>1, <2>2, <2>3
<1>13. CASE DropSink
  <2>1. ControlInv'
    BY <1>13 DEF DropSink, ControlInv, Working, Finishing, Announced, FalliblePcs
  <2>2. OutcomeInv'
    BY <1>13 DEF DropSink, OutcomeInv, Finishing, Announced
  <2>3. CompleteInv' /\ SentInv'
    BY <1>13 DEF DropSink, CompleteInv, SentInv, Pending, Announced, Verdict
  <2>4. QED
    BY <1>1, <1>2, <2>1, <2>2, <2>3
<1>14. CASE AwaitForwarder
  <2>1. ControlInv'
    BY <1>14 DEF AwaitForwarder, ControlInv, Working, Finishing, Announced, FalliblePcs
  <2>2. OutcomeInv'
    BY <1>14 DEF AwaitForwarder, OutcomeInv, Finishing, Announced
  <2>3. CompleteInv' /\ SentInv'
    BY <1>14 DEF AwaitForwarder, CompleteInv, SentInv, Pending, Announced, Verdict
  <2>4. QED
    BY <1>1, <1>2, <2>1, <2>2, <2>3
<1>15. CASE LogComplete
  <2> DEFINE e == NewEvent(Verdict)
  <2>1. e \in Event /\ e.kind = Verdict /\ e = [kind |-> Verdict, id |-> emitted + 1]
    BY NewEventType DEF TypeOK, Verdict, Kinds, NewEvent
  <2>2. ControlInv'
    BY <1>15 DEF LogComplete, ControlInv, Working, Finishing, Announced, FalliblePcs
  <2>3. OutcomeInv'
    BY <1>15 DEF LogComplete, OutcomeInv, Finishing, Announced
  <2>4. CompleteInv'
    <3>1. log' = Append(log, e) /\ pc' = "announce" /\ Verdict' = Verdict
      BY <1>15 DEF LogComplete, Verdict
    <3>2. \A i \in DOMAIN log : ~IsComplete(log[i])
      BY <1>15 DEF LogComplete, CompleteInv, Announced
    <3>3. \A i \in DOMAIN log' : IsComplete(log'[i]) => i = Len(log')
      BY <2>1, <3>1, <3>2 DEF TypeOK
    <3>4. log' # <<>> /\ log'[Len(log')] = e
      <4>1. log \in Seq(Event)
        BY DEF TypeOK
      <4>2. QED
        BY <2>1, <3>1, <4>1, AppendProperties
    <3>5. UNCHANGED <<chan, held>>
      BY <1>15 DEF LogComplete
    <3>6. QED
      BY <2>1, <3>1, <3>3, <3>4, <3>5 DEF CompleteInv, Announced
  <2>5. SentInv'
    <3>1. fwd' # "send" /\ fwd # "send"
      BY <1>15 DEF LogComplete, ControlInv, Finishing
    <3>2. log = sent
      BY <1>15, <3>1 DEF LogComplete, SentInv, Pending, TypeOK
    <3>3. Pending' = <<e>>
      BY <1>15, <2>1, <3>1 DEF LogComplete, Pending, Verdict
    <3>4. sent' = sent /\ log' = Append(log, e)
      BY <1>15 DEF LogComplete
    <3>5. log \in Seq(Event)
      BY DEF TypeOK
    <3>6. log' = sent' \o Pending'
      BY <2>1, <3>2, <3>3, <3>4, <3>5, AppendIsConcat
    <3>7. QED
      BY <3>6 DEF SentInv
  <2>6. QED
    BY <1>1, <1>2, <2>2, <2>3, <2>4, <2>5
<1>16. CASE SendComplete
  <2>1. ControlInv'
    BY <1>16 DEF SendComplete, ControlInv, Working, Finishing, Announced, FalliblePcs
  <2>2. OutcomeInv'
    BY <1>16 DEF SendComplete, OutcomeInv, Finishing, Announced
  <2>3. CompleteInv'
    BY <1>16 DEF SendComplete, CompleteInv, Announced, Verdict
  <2>4. SentInv'
    <3> DEFINE e == [kind |-> Verdict, id |-> emitted]
    <3>1. fwd # "send" /\ fwd' # "send" /\ pc' # "announce"
      BY <1>16 DEF SendComplete, ControlInv, Finishing, Announced
    <3>2. log = sent \o <<e>>
      BY <1>16, <3>1 DEF SendComplete, SentInv, Pending
    <3>3. log' = log /\ sent' = Append(sent, e) /\ e \in Event
      BY <1>16 DEF SendComplete, TypeOK, Event, Verdict, Kinds
    <3>4. Pending' = <<>>
      BY <3>1 DEF Pending
    <3>5. sent' = log'
      BY <3>2, <3>3 DEF TypeOK
    <3>6. QED
      BY <1>1, <3>4, <3>5 DEF SentInv, TypeOK
  <2>5. QED
    BY <1>1, <1>2, <2>1, <2>2, <2>3, <2>4
<1>17. CASE MarkState
  <2>1. ControlInv'
    BY <1>17 DEF MarkState, ControlInv, Working, Finishing, Announced, FalliblePcs
  <2>2. OutcomeInv'
    BY <1>17 DEF MarkState, OutcomeInv, Finishing, Announced
  <2>3. CompleteInv' /\ SentInv'
    BY <1>17 DEF MarkState, CompleteInv, SentInv, Pending, Announced, Verdict
  <2>4. QED
    BY <1>1, <1>2, <2>1, <2>2, <2>3
<1>18. QED
  BY <1>5, <1>6, <1>7, <1>8, <1>9, <1>10, <1>11, <1>12, <1>13, <1>14, <1>15,
     <1>16, <1>17 DEF Runner

\* The forwarder preserves the invariant of the job.
LEMMA ForwarderJob == ASSUME JobInv, Forwarder PROVE JobInv'
<1> USE DEF JobInv
<1>1. TypeOK'
  BY ForwarderType
<1>2. UNCHANGED <<postVars, runVars>> /\ pc \in Working \union {"drain"}
  <2>1. UNCHANGED <<postVars, runVars>> /\ fwd \notin {"none", "exited"}
    BY DEF Forwarder, ForwarderRecv, ForwarderLog, ForwarderSend, ForwarderExit
  <2>2. QED
    BY <2>1 DEF ControlInv, TypeOK, PcValues, Working, Finishing, Announced
<1>3. GateInv' /\ OutcomeInv'
  BY <1>2 DEF GateInv, OneBuildPerVM, OutcomeInv, postVars, runVars
<1>4. pc' = pc /\ pc \notin Finishing /\ pc \notin Announced
  BY <1>2 DEF runVars, Working, Finishing, Announced, FalliblePcs
<1>5. pc # "announce" /\ pc' # "announce"
  BY <1>4 DEF Announced
<1>6. /\ log \in Seq(Event) /\ sent \in Seq(Event)
      /\ held \in Seq(Event) /\ chan \in Seq(Event)
  BY DEF TypeOK
<1>7. \A i \in DOMAIN log : ~IsComplete(log[i])
  BY <1>4 DEF CompleteInv
<1>8. pc # "none" /\ pc # "tempdir"
  BY <1>2 DEF Working, FalliblePcs
<1> USE DEF pubVars
<1>9. CASE ForwarderRecv
  <2>1. ControlInv'
    BY <1>4, <1>8, <1>9 DEF ForwarderRecv, ControlInv
  <2>2. CompleteInv'
    <3>1. \A i \in DOMAIN Tail(chan) : ~IsComplete(Tail(chan)[i])
      BY <1>6, <1>9 DEF CompleteInv, ForwarderRecv
    <3>2. \A i \in DOMAIN held' : ~IsComplete(held'[i])
      <4>1. ~IsComplete(Head(chan))
        BY <1>6, <1>9 DEF CompleteInv, ForwarderRecv
      <4>2. QED
        BY <1>9, <4>1 DEF ForwarderRecv
    <3>3. QED
      BY <1>4, <1>7, <1>9, <3>1, <3>2 DEF ForwarderRecv, CompleteInv
  <2>3. SentInv'
    BY <1>5, <1>9 DEF ForwarderRecv, SentInv, Pending
  <2>4. QED
    BY <1>1, <1>3, <2>1, <2>2, <2>3
<1>10. CASE ForwarderLog
  <2>1. ControlInv'
    BY <1>4, <1>8, <1>10 DEF ForwarderLog, ControlInv
  <2>2. CompleteInv'
    <3>1. \A i \in DOMAIN (log \o held) : ~IsComplete((log \o held)[i])
      BY <1>6, <1>7, ConcatProperties DEF CompleteInv
    <3>2. QED
      BY <1>4, <1>10, <3>1 DEF ForwarderLog, CompleteInv
  <2>3. SentInv'
    <3>1. log = sent
      BY <1>5, <1>6, <1>10 DEF ForwarderLog, SentInv, Pending
    <3>2. QED
      BY <1>10, <3>1 DEF ForwarderLog, SentInv, Pending
  <2>4. QED
    BY <1>1, <1>3, <2>1, <2>2, <2>3
<1>11. CASE ForwarderSend
  <2>1. ControlInv'
    BY <1>4, <1>8, <1>11 DEF ForwarderSend, ControlInv
  <2>2. CompleteInv'
    BY <1>4, <1>7, <1>11 DEF ForwarderSend, CompleteInv
  <2>3. SentInv'
    <3>1. log' = sent' /\ Pending' = <<>>
      BY <1>5, <1>11 DEF ForwarderSend, SentInv, Pending
    <3>2. sent' \in Seq(Event)
      BY <1>1 DEF TypeOK
    <3>3. QED
      BY <3>1, <3>2 DEF SentInv
  <2>4. QED
    BY <1>1, <1>3, <2>1, <2>2, <2>3
<1>12. CASE ForwarderExit
  <2>1. pc = "drain"
    BY <1>2, <1>12 DEF ForwarderExit, ControlInv
  <2>2. ControlInv'
    BY <1>4, <1>8, <1>12, <2>1 DEF ForwarderExit, ControlInv, Working, FalliblePcs
  <2>3. CompleteInv'
    BY <1>4, <1>7, <1>12 DEF ForwarderExit, CompleteInv
  <2>4. SentInv'
    BY <1>5, <1>12 DEF ForwarderExit, SentInv, Pending
  <2>5. QED
    BY <1>1, <1>3, <2>2, <2>3, <2>4
<1>13. QED
  BY <1>9, <1>10, <1>11, <1>12 DEF Forwarder

\* Readers of the job leave it alone.
LEMMA JobUnchanged ==
    ASSUME JobInv, TypeOK', UNCHANGED <<postVars, runVars, sinkVars, pubVars>>
    PROVE  JobInv'
<1> USE DEF JobInv, postVars, runVars, sinkVars, pubVars
<1>1. GateInv' /\ ControlInv' /\ OutcomeInv'
  BY DEF GateInv, OneBuildPerVM, ControlInv, OutcomeInv
<1>2. CompleteInv' /\ SentInv'
  BY DEF CompleteInv, SentInv, Pending, Verdict
<1>3. QED
  BY <1>1, <1>2

\* Every step preserves the invariant of the job.
LEMMA NextJobInv == JobInv /\ [Next]_vars => JobInv'
<1> SUFFICES ASSUME JobInv, [Next]_vars PROVE JobInv'
  OBVIOUS
<1> USE DEF JobInv
<1>1. CASE UNCHANGED vars
  <2>1. TypeOK'
    BY <1>1 DEF TypeOK, vars, postVars, runVars, sinkVars, pubVars, subVars
  <2>2. QED
    BY <1>1, <2>1, JobUnchanged DEF vars
<1>2. ASSUME NEW s \in Subscribers, Subscribe(s) \/ Stream(s) \/ GetResult(s)
      PROVE  JobInv'
  BY <1>2, SubscriberType, JobUnchanged
  DEF Stream, Subscribe, Snapshot, WriteBacklog, WriteLive, SkipLagged, GetResult
<1>3. CASE Next
  BY <1>2, <1>3, PostJob, RunnerJob, ForwarderJob DEF Next
<1>4. QED
  BY <1>1, <1>3

\* The invariant of the job holds throughout.
THEOREM JobInvariant == Spec => []JobInv
BY InitJobInv, NextJobInv, PTL DEF Spec

\* However many clients race for it, one valid request takes the gate, and a
\* rejected one never does (src/server/api.rs, post_build).
THEOREM OneBuild == Spec => []OneBuildPerVM
<1>1. JobInv => OneBuildPerVM
  BY DEF JobInv, GateInv
<1>2. QED
  BY <1>1, JobInvariant, PTL

\* Nothing follows the Complete event in the log (src/server/runner.rs,
\* run_build: "strictly AFTER all build events").
THEOREM CompleteLast == Spec => []CompleteIsLast
<1>1. JobInv => CompleteIsLast
  BY DEF JobInv, CompleteInv, CompleteIsLast
<1>2. QED
  BY <1>1, JobInvariant, PTL

\* The announced verdict, the job's state and the result agree
\* (src/server/runner.rs, run_build; src/server/job.rs, mark_done, mark_failed).
THEOREM VerdictCorrect == Spec => []VerdictMatchesResult
<1>1. JobInv => VerdictMatchesResult
  <2> SUFFICES ASSUME JobInv PROVE VerdictMatchesResult
    OBVIOUS
  <2>1. \A i \in DOMAIN log : IsComplete(log[i]) =>
           pc \in Finishing /\ log[i].kind = Verdict
    BY DEF JobInv, CompleteInv, Finishing
  <2>2. pc \in Finishing => (result <=> Verdict = "ok")
    BY DEF JobInv, OutcomeInv, Verdict
  <2>3. state # "Building" => pc = "stopped" /\ (state = "Done" <=> outcome = "ok")
    BY DEF JobInv, OutcomeInv
  <2>4. pc = "stopped" => (result <=> outcome = "ok")
    BY DEF JobInv, OutcomeInv, Finishing, Announced
  <2>5. QED
    BY <2>1, <2>2, <2>3, <2>4 DEF VerdictMatchesResult
<1>2. QED
  BY <1>1, JobInvariant, PTL

-----------------------------------------------------------------------------
(* Streams *)

StreamsInv ==
    /\ JobInv
    /\ \A s \in Subscribers : StreamInv(s) /\ EndInv(s) /\ (~lagged[s] => NoGap(s))

\* The log and the broadcast channel only grow.
Grows ==
    /\ Len(log) <= Len(log') /\ \A i \in 1..Len(log) : log'[i] = log[i]
    /\ Len(sent) <= Len(sent')

\* Once the Complete event is sent nothing more is.
SendsComplete ==
    pc' \in {"mark", "stopped"} =>
        (pc \in {"mark", "stopped"} /\ sent' = sent) \/ Len(sent) < Len(sent')

\* Every step lets the log and the broadcast channel grow, or leaves them.
LEMMA NextGrows ==
    ASSUME JobInv, [Next]_vars
    PROVE  Grows /\ SendsComplete
<1>1. log \in Seq(Event) /\ sent \in Seq(Event) /\ held \in Seq(Event)
  BY DEF JobInv, TypeOK
<1>2. CASE UNCHANGED <<log, sent>> /\ pc' = pc
  BY <1>1, <1>2 DEF Grows, SendsComplete
<1>3. CASE UNCHANGED <<log, sent>> /\ pc' \notin {"mark", "stopped"}
  BY <1>1, <1>3 DEF Grows, SendsComplete
<1>4. CASE LogComplete
  <2>1. NewEvent(Verdict) \in Event
    BY NewEventType DEF JobInv, TypeOK, Verdict, Kinds
  <2>2. QED
    BY <1>1, <1>4, <2>1, AppendProperties DEF LogComplete, Grows, SendsComplete
<1>5. CASE SendComplete
  <2>1. [kind |-> Verdict, id |-> emitted] \in Event
    BY DEF JobInv, TypeOK, Verdict, Kinds, Event
  <2>2. QED
    BY <1>1, <1>5, <2>1, AppendProperties DEF SendComplete, Grows, SendsComplete
<1>6. CASE MarkState
  BY <1>1, <1>6 DEF MarkState, Grows, SendsComplete, pubVars
<1>7. CASE ForwarderLog \/ ForwarderSend
  <2>1. pc' = pc /\ pc \notin {"mark", "stopped"}
    BY <1>7
    DEF ForwarderLog, ForwarderSend, runVars, JobInv, ControlInv, Finishing, Announced
  <2>2. Grows
    BY <1>1, <1>7, ConcatProperties DEF ForwarderLog, ForwarderSend, Grows
  <2>3. QED
    BY <2>1, <2>2 DEF SendsComplete
<1> USE DEF runVars, pubVars
<1>8. CASE Runner
  <2>1. CASE StartBuild \/ StartFails \/ MaterializeSource \/ PublishResult
             \/ BuildFails \/ DropSink \/ AwaitForwarder
    BY <1>3, <2>1
    DEF StartBuild, StartFails, MaterializeSource, PublishResult, BuildFails,
        DropSink, AwaitForwarder
  <2>2. CASE DetectToolchain \/ PrepareBuild \/ FinishCommand \/ WriteProvenance
    BY <1>3, <2>2
    DEF DetectToolchain, PrepareBuild, FinishCommand, WriteProvenance, TryStep
  <2>3. CASE EmitLine
    BY <1>2, <2>3 DEF EmitLine
  <2>4. CASE Attest
    BY <1>3, <2>4 DEF Attest, DetectPlatform, ReadProvenance, WriteEvidence, AttestStep
  <2>5. QED
    BY <1>4, <1>5, <1>6, <1>8, <2>1, <2>2, <2>3, <2>4 DEF Runner
<1>9. CASE Forwarder
  BY <1>2, <1>7, <1>9 DEF Forwarder, ForwarderRecv, ForwarderExit
<1>10. ASSUME NEW p \in Posters, (\E r \in Requests : PostBuild(p, r)) \/ Handler(p)
       PROVE  Grows /\ SendsComplete
  BY <1>2, <1>3, <1>10 DEF Handler, PostBuild, InsertJob, SpawnRunner
<1>11. ASSUME NEW s \in Subscribers, Subscribe(s) \/ Stream(s) \/ GetResult(s)
       PROVE  Grows /\ SendsComplete
  BY <1>2, <1>11
  DEF Stream, Subscribe, Snapshot, WriteBacklog, WriteLive, SkipLagged, GetResult
<1>12. CASE UNCHANGED vars
  BY <1>2, <1>12 DEF vars
<1>13. QED
  BY <1>8, <1>9, <1>10, <1>11, <1>12 DEF Next

\* What was sent is in the log, at the same place.
LEMMA SentBehindLog ==
    ASSUME JobInv
    PROVE  /\ Len(sent) <= Len(log)
           /\ \A i \in 1..Len(sent) : sent[i] = log[i]
<1>1. [kind |-> Verdict, id |-> emitted] \in Event
  BY DEF JobInv, TypeOK, Verdict, Kinds, Event
<1>2. held \in Seq(Event) /\ sent \in Seq(Event)
  BY DEF JobInv, TypeOK
<1>3. Pending \in Seq(Event)
  BY <1>1, <1>2 DEF Pending
<1>4. log = sent \o Pending
  BY DEF JobInv, SentInv
<1>5. QED
  BY <1>2, <1>3, <1>4, ConcatProperties

\* A step that does not touch a stream preserves what is known of it.
LEMMA StreamFrame ==
    ASSUME JobInv, JobInv', Grows, SendsComplete, NEW s \in Subscribers,
           sub'[s] = sub[s], backlog'[s] = backlog[s], next'[s] = next[s],
           lagged'[s] = lagged[s], received'[s] = received[s]
    PROVE  /\ StreamInv(s) => StreamInv(s)'
           /\ StreamInv(s) /\ EndInv(s) => EndInv(s)'
           /\ NoGap(s) => NoGap(s)'
<1>1. /\ log \in Seq(Event) /\ log' \in Seq(Event)
      /\ sent \in Seq(Event) /\ sent' \in Seq(Event)
      /\ backlog[s] \in Seq(Event) /\ received[s] \in Seq(Event)
      /\ next[s] \in Nat
  BY DEF JobInv, TypeOK
<1>2. /\ Len(log) \in Nat /\ Len(log') \in Nat /\ DOMAIN log = 1..Len(log)
      /\ DOMAIN log' = 1..Len(log') /\ Len(sent) \in Nat /\ Len(sent') \in Nat
      /\ Len(backlog[s]) \in Nat /\ DOMAIN backlog[s] = 1..Len(backlog[s])
      /\ Len(received[s]) \in Nat /\ DOMAIN received[s] = 1..Len(received[s])
  BY <1>1, LenProperties
<1>3. NoGap(s) => NoGap(s)'
  <2> SUFFICES ASSUME NoGap(s) PROVE NoGap(s)'
    OBVIOUS
  <2> SUFFICES ASSUME NEW k \in DOMAIN received[s]
               PROVE  \E j \in DOMAIN log' :
                        /\ received[s][k] = log'[j]
                        /\ \A i \in 1..(j - 1) : \E m \in 1..(k - 1) :
                              received[s][m] = log'[i]
    BY DEF NoGap
  <2>1. PICK j \in DOMAIN log :
           /\ received[s][k] = log[j]
           /\ \A i \in 1..(j - 1) : \E m \in 1..(k - 1) : received[s][m] = log[i]
    BY DEF NoGap
  <2>2. j \in DOMAIN log' /\ log'[j] = log[j]
    BY <1>2 DEF Grows
  <2>3. \A i \in 1..(j - 1) : log'[i] = log[i]
    BY <1>2 DEF Grows
  <2>4. QED
    BY <2>1, <2>2, <2>3
<1>4. StreamInv(s) => StreamInv(s)'
  <2> SUFFICES ASSUME StreamInv(s) PROVE StreamInv(s)'
    OBVIOUS
  <2>1. next'[s] <= Len(sent')
    BY <1>1, <1>2 DEF StreamInv, Grows
  <2>2. CASE backlog[s] # <<>> /\ ~lagged[s]
    <3>1. /\ next[s] <= Len(received[s]) + Len(backlog[s])
          /\ Len(received[s]) + Len(backlog[s]) <= Len(log)
          /\ \A k \in 1..Len(received[s]) : received[s][k] = log[k]
          /\ \A k \in 1..Len(backlog[s]) : backlog[s][k] = log[Len(received[s]) + k]
          /\ sub[s] = "streaming"
      BY <1>2, <2>2 DEF StreamInv
    <3>6. /\ Len(received[s]) <= Len(log)
          /\ Len(received[s]) + Len(backlog[s]) <= Len(log')
          /\ \A k \in 1..Len(backlog[s]) : Len(received[s]) + k \in 1..Len(log)
      <4> DEFINE r == Len(received[s])
                 b == Len(backlog[s])
                 old == Len(log)
                 new == Len(log')
      <4>1. r \in Nat /\ b \in Nat /\ old \in Nat /\ new \in Nat
        BY <1>2
      <4>2. r + b <= old /\ old <= new
        BY <3>1 DEF Grows
      <4> HIDE DEF r, b, old, new
      <4>3. r <= old /\ r + b <= new /\ \A k \in 1..b : r + k \in 1..old
        BY <4>1, <4>2
      <4>4. QED
        BY <4>3 DEF r, b, old, new
    <3>2. \A k \in 1..Len(received[s]) : received[s][k] = log'[k]
      <4> SUFFICES ASSUME NEW k \in 1..Len(received[s]) PROVE received[s][k] = log'[k]
        OBVIOUS
      <4>1. k \in 1..Len(log)
        BY <1>2, <3>6
      <4>2. QED
        BY <3>1, <4>1 DEF Grows
    <3>3. \A k \in 1..Len(backlog[s]) : backlog[s][k] = log'[Len(received[s]) + k]
      <4> SUFFICES ASSUME NEW k \in 1..Len(backlog[s])
                   PROVE  backlog[s][k] = log'[Len(received[s]) + k]
        OBVIOUS
      <4>1. Len(received[s]) + k \in 1..Len(log)
        BY <3>6
      <4>2. QED
        BY <3>1, <4>1 DEF Grows
    <3>5. QED
      BY <1>2, <2>1, <2>2, <3>1, <3>2, <3>3, <3>6 DEF StreamInv
  <2>3. CASE backlog[s] = <<>> /\ ~lagged[s]
    <3>1. Len(sent) <= Len(log)
      BY SentBehindLog
    <3>2. \A i \in 1..next[s] : log'[i] = log[i]
      BY <1>1, <1>2, <3>1 DEF StreamInv, Grows
    <3>3. QED
      BY <2>1, <2>3, <3>2 DEF StreamInv
  <2>4. CASE lagged[s]
    BY <2>1, <2>4 DEF StreamInv
  <2>5. QED
    BY <2>2, <2>3, <2>4
<1>5. StreamInv(s) /\ EndInv(s) => EndInv(s)'
  <2> SUFFICES ASSUME StreamInv(s), EndInv(s), pc' \in {"mark", "stopped"},
                      sub'[s] = "streaming", next'[s] = Len(sent')
               PROVE  LET rest == received[s] \o backlog[s]
                      IN  rest # <<>> /\ IsComplete(rest[Len(rest)])
    BY DEF EndInv
  <2>1. pc \in {"mark", "stopped"} /\ next[s] = Len(sent)
    BY <1>1, <1>2 DEF SendsComplete, StreamInv
  <2>2. QED
    BY <2>1 DEF EndInv
<1>6. QED
  BY <1>3, <1>4, <1>5

\* What the stream lemmas use of types.
StreamTypes(s) ==
    /\ log \in Seq(Event) /\ sent \in Seq(Event)
    /\ backlog[s] \in Seq(Event) /\ received[s] \in Seq(Event)
    /\ next[s] \in Nat

OneStreamInv(s) == StreamInv(s) /\ EndInv(s) /\ (~lagged[s] => NoGap(s))

\* Once the Complete event is sent, the last thing sent is the Complete event.
LEMMA LastSent ==
    ASSUME JobInv, pc \in {"mark", "stopped"}
    PROVE  sent = log /\ log # <<>> /\ IsComplete(log[Len(log)])
<1>1. fwd # "send" /\ pc # "announce"
  BY DEF JobInv, ControlInv, Finishing, Announced
<1>2. sent \in Seq(Event) /\ log = sent \o <<>>
  BY <1>1 DEF JobInv, TypeOK, SentInv, Pending
<1>3. sent = log
  BY <1>2
<1>4. log # <<>> /\ log[Len(log)].kind = Verdict
  BY DEF JobInv, CompleteInv, Announced
<1>5. QED
  BY <1>3, <1>4 DEF IsComplete, Verdict

\* get_events: the receiver is created.
LEMMA SubscribeStream ==
    ASSUME JobInv, NEW s \in Subscribers, OneStreamInv(s), Subscribe(s)
    PROVE  OneStreamInv(s)'
<1>1. StreamTypes(s)
  BY DEF JobInv, TypeOK, StreamTypes
<1>2. /\ sub[s] = "idle" /\ sub'[s] = "subscribed" /\ next'[s] = Len(sent)
      /\ UNCHANGED <<log, sent, backlog, received, lagged>>
  BY DEF Subscribe, pubVars, JobInv, TypeOK
<1>3. received[s] = <<>> /\ backlog[s] = <<>>
  BY <1>2 DEF OneStreamInv, StreamInv
<1>4. Len(sent) <= Len(sent)
  BY <1>1 DEF StreamTypes
<1>5. StreamInv(s)'
  BY <1>2, <1>3, <1>4 DEF StreamInv
<1>6. EndInv(s)'
  BY <1>2 DEF EndInv
<1>7. NoGap(s)'
  BY <1>2, <1>3 DEF NoGap
<1>8. QED
  BY <1>5, <1>6, <1>7 DEF OneStreamInv

\* get_events: the log is copied.
LEMMA SnapshotStream ==
    ASSUME JobInv, NEW s \in Subscribers, OneStreamInv(s), Snapshot(s)
    PROVE  OneStreamInv(s)'
<1>1. StreamTypes(s)
  BY DEF JobInv, TypeOK, StreamTypes
<1>2. /\ sub[s] = "subscribed" /\ sub'[s] = "streaming" /\ backlog'[s] = log
      /\ UNCHANGED <<pc, log, sent, next, received, lagged>>
  BY DEF Snapshot, pubVars, runVars, JobInv, TypeOK
<1>3. received[s] = <<>> /\ next[s] <= Len(sent)
  BY <1>2 DEF OneStreamInv, StreamInv
<1>4. Len(received[s]) = 0 /\ next[s] <= Len(log)
  <2>1. Len(sent) \in Nat /\ Len(log) \in Nat
    BY <1>1 DEF StreamTypes
  <2>2. QED
    BY <1>1, <1>3, <2>1, SentBehindLog DEF StreamTypes
<1>5. StreamInv(s)'
  <2>1. CASE log # <<>>
    <3>1. /\ Len(received[s]) + Len(log) = Len(log)
          /\ \A k \in DOMAIN log : log[k] = log[Len(received[s]) + k]
      BY <1>1, <1>4 DEF StreamTypes
    <3>2. Len(log) <= Len(log) /\ DOMAIN received[s] = {}
      BY <1>1, <1>3 DEF StreamTypes
    <3>3. QED
      BY <1>2, <1>3, <1>4, <2>1, <3>1, <3>2 DEF StreamInv
  <2>2. CASE log = <<>>
    <3>1. next[s] = 0
      BY <1>1, <1>4, <2>2 DEF StreamTypes
    <3>2. QED
      BY <1>2, <1>3, <2>2, <3>1 DEF StreamInv
  <2>3. QED
    BY <2>1, <2>2
<1>6. EndInv(s)'
  <2>1. received'[s] \o backlog'[s] = log
    BY <1>1, <1>2, <1>3 DEF StreamTypes
  <2>2. QED
    BY <1>2, <2>1, LastSent DEF EndInv
<1>7. NoGap(s)'
  BY <1>2, <1>3 DEF NoGap
<1>8. QED
  BY <1>5, <1>6, <1>7 DEF OneStreamInv

\* Moving the head of one sequence to the end of another.
LEMMA MoveHead ==
    ASSUME NEW r \in Seq(Event), NEW b \in Seq(Event), b # <<>>
    PROVE  /\ Append(r, Head(b)) \in Seq(Event) /\ Tail(b) \in Seq(Event)
           /\ Len(Append(r, Head(b))) = Len(r) + 1 /\ Len(Tail(b)) = Len(b) - 1
           /\ Len(b) \in Nat \ {0} /\ Len(r) \in Nat
           /\ \A k \in 1..Len(r) : Append(r, Head(b))[k] = r[k]
           /\ Append(r, Head(b))[Len(r) + 1] = b[1]
           /\ \A k \in 1..(Len(b) - 1) : Tail(b)[k] = b[k + 1]
           /\ Append(r, Head(b)) \o Tail(b) = r \o b
<1>1. Head(b) \in Event /\ Head(b) = b[1] /\ Tail(b) \in Seq(Event)
  BY HeadTailProperties
<1>2. Len(Tail(b)) = Len(b) - 1 /\ \A k \in 1..Len(Tail(b)) : Tail(b)[k] = b[k + 1]
  BY HeadTailProperties
<1>3. Len(b) \in Nat \ {0} /\ Len(r) \in Nat
  BY EmptySeq, LenProperties
<1>4. /\ Append(r, Head(b)) \in Seq(Event)
      /\ Len(Append(r, Head(b))) = Len(r) + 1
      /\ \A k \in 1..Len(r) : Append(r, Head(b))[k] = r[k]
      /\ Append(r, Head(b))[Len(r) + 1] = b[1]
  BY <1>1, AppendProperties
<1>5. Append(r, Head(b)) \o Tail(b) = r \o b
  <2>1. b = <<Head(b)>> \o Tail(b)
    BY <1>1
  <2>2. Append(r, Head(b)) = r \o <<Head(b)>>
    BY <1>1, AppendIsConcat
  <2>3. <<Head(b)>> \in Seq(Event)
    BY <1>1
  <2>4. QED
    BY <1>1, <2>1, <2>2, <2>3, ConcatAssociative
<1>6. QED
  BY <1>1, <1>2, <1>3, <1>4, <1>5

\* backlog_stream: an event of the snapshot is written.
LEMMA WriteBacklogStream ==
    ASSUME JobInv, NEW s \in Subscribers, OneStreamInv(s), WriteBacklog(s)
    PROVE  OneStreamInv(s)'
<1> DEFINE r == received[s]
           b == backlog[s]
           rr == Append(r, Head(b))
           bb == Tail(b)
<1>1. /\ log \in Seq(Event) /\ sent \in Seq(Event) /\ next[s] \in Nat
      /\ r \in Seq(Event) /\ b \in Seq(Event) /\ b # <<>>
  BY DEF JobInv, TypeOK, WriteBacklog
<1>2. /\ sub[s] = "streaming" /\ received'[s] = rr /\ backlog'[s] = bb
      /\ UNCHANGED <<pc, log, sent, sub, next, lagged>>
  BY DEF WriteBacklog, pubVars, runVars, JobInv, TypeOK
<1>3. /\ rr \in Seq(Event) /\ bb \in Seq(Event)
      /\ Len(rr) = Len(r) + 1 /\ Len(bb) = Len(b) - 1
      /\ Len(b) \in Nat \ {0} /\ Len(r) \in Nat /\ Len(log) \in Nat
      /\ \A k \in 1..Len(r) : rr[k] = r[k]
      /\ rr[Len(r) + 1] = b[1]
      /\ \A k \in 1..(Len(b) - 1) : bb[k] = b[k + 1]
      /\ rr \o bb = r \o b
  BY <1>1, MoveHead
<1>4. ~lagged[s] => /\ next[s] <= Len(r) + Len(b)
                    /\ Len(r) + Len(b) <= Len(log)
                    /\ \A k \in 1..Len(r) : r[k] = log[k]
                    /\ \A k \in 1..Len(b) : b[k] = log[Len(r) + k]
  <2>1. DOMAIN r = 1..Len(r) /\ DOMAIN b = 1..Len(b)
    BY <1>1, LenProperties
  <2>2. StreamInv(s) /\ b # <<>>
    BY <1>1 DEF OneStreamInv
  <2>3. QED
    BY <2>1, <2>2 DEF StreamInv
<1>5. next[s] <= Len(sent)
  BY DEF OneStreamInv, StreamInv
<1> HIDE DEF r, b, rr, bb
<1>6. ~lagged[s] => /\ next[s] <= Len(rr) + Len(bb)
                    /\ Len(rr) + Len(bb) <= Len(log)
                    /\ \A k \in 1..Len(rr) : rr[k] = log[k]
                    /\ \A k \in 1..Len(bb) : bb[k] = log[Len(rr) + k]
  <2> SUFFICES ASSUME ~lagged[s]
               PROVE  /\ next[s] <= Len(rr) + Len(bb)
                      /\ Len(rr) + Len(bb) <= Len(log)
                      /\ \A k \in 1..Len(rr) : rr[k] = log[k]
                      /\ \A k \in 1..Len(bb) : bb[k] = log[Len(rr) + k]
    OBVIOUS
  <2>1. next[s] <= Len(rr) + Len(bb) /\ Len(rr) + Len(bb) <= Len(log)
    BY <1>1, <1>3, <1>4
  <2>2. ASSUME NEW k \in 1..Len(rr) PROVE rr[k] = log[k]
    <3>1. 1 \in 1..Len(b)
      BY <1>3
    <3>2. b[1] = log[Len(r) + 1]
      BY <1>4, <3>1
    <3>3. CASE k = Len(r) + 1
      BY <1>3, <3>2, <3>3
    <3>4. CASE k # Len(r) + 1
      <4>1. k \in 1..Len(r)
        BY <1>3, <2>2, <3>4
      <4>2. QED
        BY <1>3, <1>4, <4>1
    <3>5. QED
      BY <3>3, <3>4
  <2>3. ASSUME NEW k \in 1..Len(bb) PROVE bb[k] = log[Len(rr) + k]
    <3>1. k \in 1..(Len(b) - 1) /\ k + 1 \in 1..Len(b)
      BY <1>3, <2>3
    <3>2. bb[k] = b[k + 1] /\ b[k + 1] = log[Len(r) + (k + 1)]
      BY <1>3, <1>4, <3>1
    <3>3. Len(r) + (k + 1) = Len(rr) + k
      BY <1>3, <2>3
    <3>4. QED
      BY <3>2, <3>3
  <2>4. QED
    BY <2>1, <2>2, <2>3
<1>7. DOMAIN rr = 1..Len(rr) /\ DOMAIN bb = 1..Len(bb) /\ DOMAIN log = 1..Len(log)
  BY <1>1, <1>3, LenProperties
<1>8. StreamInv(s)'
  <2>1. CASE bb # <<>>
    BY <1>2, <1>5, <1>6, <1>7, <2>1 DEF StreamInv
  <2>2. CASE bb = <<>>
    <3>1. ~lagged[s] => next[s] <= Len(rr) /\ \A i \in 1..next[s] :
             i \in DOMAIN rr /\ rr[i] = log[i]
      <4>1. Len(bb) = 0
        BY <2>2
      <4>2. QED
        BY <1>1, <1>3, <1>6, <1>7, <4>1
    <3>2. QED
      BY <1>2, <1>5, <2>2, <3>1 DEF StreamInv
  <2>3. QED
    BY <2>1, <2>2
<1>9. EndInv(s)'
  <2>1. received'[s] \o backlog'[s] = received[s] \o backlog[s]
    BY <1>2, <1>3 DEF r, b
  <2>2. EndInv(s)
    BY DEF OneStreamInv
  <2>3. QED
    BY <1>2, <2>1, <2>2 DEF EndInv
<1>10. ~lagged[s] => NoGap(s)'
  <2> SUFFICES ASSUME ~lagged[s], NEW k \in DOMAIN rr
               PROVE  \E j \in DOMAIN log :
                        /\ rr[k] = log[j]
                        /\ \A i \in 1..(j - 1) : \E m \in 1..(k - 1) : rr[m] = log[i]
    BY <1>2 DEF NoGap
  <2>1. k \in 1..Len(rr) /\ k \in DOMAIN log /\ rr[k] = log[k]
    BY <1>3, <1>6, <1>7
  <2>2. ASSUME NEW i \in 1..(k - 1) PROVE rr[i] = log[i]
    <3>1. i \in 1..Len(rr)
      BY <1>3, <2>1
    <3>2. QED
      BY <1>6, <3>1
  <2>3. QED
    BY <2>1, <2>2
<1>11. QED
  BY <1>2, <1>8, <1>9, <1>10 DEF OneStreamInv

\* live_stream: a message of the broadcast ring is written.
LEMMA WriteLiveStream ==
    ASSUME JobInv, NEW s \in Subscribers, OneStreamInv(s), WriteLive(s)
    PROVE  OneStreamInv(s)'
<1> DEFINE r == received[s]
           n == next[s]
           e == sent[n + 1]
           rr == Append(r, e)
<1>1. /\ log \in Seq(Event) /\ sent \in Seq(Event) /\ n \in Nat
      /\ r \in Seq(Event) /\ n < Len(sent) /\ backlog[s] = <<>>
  BY DEF JobInv, TypeOK, WriteLive
<1>2. /\ sub[s] = "streaming" /\ received'[s] = rr /\ next'[s] = n + 1
      /\ UNCHANGED <<pc, log, sent, sub, backlog, lagged>>
  BY DEF WriteLive, pubVars, runVars, JobInv, TypeOK
<1>3. /\ Len(sent) \in Nat /\ Len(log) \in Nat /\ DOMAIN log = 1..Len(log)
      /\ Len(r) \in Nat /\ DOMAIN r = 1..Len(r)
  BY <1>1, LenProperties
<1>4. n + 1 \in 1..Len(sent) /\ n + 1 \in 1..Len(log) /\ e = log[n + 1] /\ e \in Event
  <2>1. n + 1 \in 1..Len(sent)
    BY <1>1, <1>3
  <2>2. Len(sent) <= Len(log) /\ e = log[n + 1]
    BY <2>1, SentBehindLog
  <2>3. e \in Event
    BY <1>1, <2>1
  <2>4. n + 1 \in 1..Len(log)
    BY <1>1, <1>3, <2>1, <2>2
  <2>5. QED
    BY <2>1, <2>2, <2>3, <2>4
<1>5. /\ rr \in Seq(Event) /\ Len(rr) = Len(r) + 1 /\ DOMAIN rr = 1..(Len(r) + 1)
      /\ \A k \in 1..Len(r) : rr[k] = r[k]
      /\ rr[Len(r) + 1] = log[n + 1]
  BY <1>1, <1>4, AppendProperties, LenProperties
<1>6. ~lagged[s] => \A i \in 1..n : \E m \in 1..Len(r) : r[m] = log[i]
  BY <1>1, <1>2, <1>3 DEF OneStreamInv, StreamInv
<1>7. ~lagged[s] => \A k \in 1..Len(r) : \E j \in 1..Len(log) :
           /\ r[k] = log[j]
           /\ \A i \in 1..(j - 1) : \E m \in 1..(k - 1) : r[m] = log[i]
  BY <1>3 DEF OneStreamInv, NoGap
<1> HIDE DEF r, n, e, rr
<1>8. ~lagged[s] => \A i \in 1..(n + 1) : \E m \in DOMAIN rr : rr[m] = log[i]
  <2> SUFFICES ASSUME ~lagged[s], NEW i \in 1..(n + 1)
               PROVE  \E m \in DOMAIN rr : rr[m] = log[i]
    OBVIOUS
  <2>1. CASE i = n + 1
    <3>1. Len(r) + 1 \in DOMAIN rr
      BY <1>3, <1>5
    <3>2. QED
      BY <1>5, <2>1, <3>1
  <2>2. CASE i # n + 1
    <3>1. i \in 1..n
      BY <1>1, <2>2
    <3>2. PICK m \in 1..Len(r) : r[m] = log[i]
      BY <1>6, <3>1
    <3>3. m \in DOMAIN rr /\ rr[m] = r[m]
      BY <1>3, <1>5
    <3>4. QED
      BY <3>2, <3>3
  <2>3. QED
    BY <2>1, <2>2
<1>9. StreamInv(s)'
  <2>1. n + 1 <= Len(sent)
    BY <1>1, <1>3
  <2>2. QED
    BY <1>1, <1>2, <1>8, <2>1 DEF StreamInv
<1>10. EndInv(s)'
  <2> SUFFICES ASSUME pc \in {"mark", "stopped"}, n + 1 = Len(sent)
               PROVE  rr \o backlog[s] # <<>>
                      /\ IsComplete((rr \o backlog[s])[Len(rr \o backlog[s])])
    BY <1>2 DEF EndInv
  <2>1. rr \o backlog[s] = rr
    BY <1>1, <1>5
  <2>2. sent = log /\ IsComplete(log[Len(log)])
    BY LastSent
  <2>3. IsComplete(rr[Len(rr)])
    BY <1>5, <2>2
  <2>4. rr # <<>>
    BY <1>3, <1>5
  <2>5. QED
    BY <2>1, <2>3, <2>4
<1>11. ~lagged[s] => NoGap(s)'
  <2> SUFFICES ASSUME ~lagged[s], NEW k \in DOMAIN rr
               PROVE  \E j \in DOMAIN log :
                        /\ rr[k] = log[j]
                        /\ \A i \in 1..(j - 1) : \E m \in 1..(k - 1) : rr[m] = log[i]
    BY <1>2 DEF NoGap
  <2>1. CASE k = Len(r) + 1
    <3>1. ASSUME NEW i \in 1..((n + 1) - 1)
          PROVE  \E m \in 1..(k - 1) : rr[m] = log[i]
      <4>1. i \in 1..n /\ k - 1 = Len(r)
        BY <1>1, <1>3, <2>1
      <4>2. PICK m \in 1..Len(r) : r[m] = log[i]
        BY <1>6, <4>1
      <4>3. rr[m] = r[m]
        BY <1>5
      <4>4. QED
        BY <4>1, <4>2, <4>3
    <3>2. rr[k] = log[n + 1] /\ n + 1 \in DOMAIN log
      BY <1>3, <1>4, <1>5, <2>1
    <3>3. QED
      BY <3>1, <3>2
  <2>2. CASE k # Len(r) + 1
    <3>1. k \in 1..Len(r)
      BY <1>3, <1>5, <2>2
    <3>2. PICK j \in 1..Len(log) :
             /\ r[k] = log[j]
             /\ \A i \in 1..(j - 1) : \E m \in 1..(k - 1) : r[m] = log[i]
      BY <1>7, <3>1
    <3>3. rr[k] = r[k] /\ \A m \in 1..(k - 1) : rr[m] = r[m]
      <4>1. \A m \in 1..(k - 1) : m \in 1..Len(r)
        BY <1>3, <3>1
      <4>2. QED
        BY <1>5, <3>1, <4>1
    <3>4. QED
      BY <1>3, <3>2, <3>3
  <2>3. QED
    BY <2>1, <2>2
<1>12. QED
  BY <1>2, <1>9, <1>10, <1>11 DEF OneStreamInv

\* live_stream: the receiver lagged and moves to the oldest message held.
LEMMA SkipLaggedStream ==
    ASSUME JobInv, NEW s \in Subscribers, OneStreamInv(s), SkipLagged(s)
    PROVE  OneStreamInv(s)'
<1>1. Len(sent) \in Nat /\ BcastCap \in Nat \ {0}
  BY JobServerAssumption DEF JobServerAssumption, JobInv, TypeOK
<1>2. /\ sub[s] = "streaming" /\ next'[s] = Len(sent) - BcastCap
      /\ UNCHANGED <<log, sent, sub, backlog, received>>
  BY DEF SkipLagged, pubVars, JobInv, TypeOK
<1>3. lagged'[s]
  BY Zenon DEF SkipLagged, JobInv, TypeOK
<1>4. next'[s] <= Len(sent) /\ next'[s] # Len(sent)
  BY <1>1, <1>2
<1>5. StreamInv(s)'
  BY <1>2, <1>3, <1>4 DEF StreamInv
<1>6. EndInv(s)'
  BY <1>2, <1>4 DEF EndInv
<1>7. QED
  BY <1>3, <1>5, <1>6 DEF OneStreamInv

\* Init establishes the invariant of the streams.
LEMMA InitStreams == Init => StreamsInv
<1> SUFFICES ASSUME Init PROVE StreamsInv
  OBVIOUS
<1>1. JobInv
  BY InitJobInv
<1>2. ASSUME NEW s \in Subscribers PROVE OneStreamInv(s)
  <2>1. StreamInv(s)
    BY DEF Init, StreamInv
  <2>2. EndInv(s)
    BY DEF Init, EndInv
  <2>3. NoGap(s)
    BY DEF Init, NoGap
  <2>4. QED
    BY <2>1, <2>2, <2>3 DEF OneStreamInv
<1>3. QED
  BY <1>1, <1>2 DEF StreamsInv, OneStreamInv

\* Every step preserves it.
LEMMA NextStreams == StreamsInv /\ [Next]_vars => StreamsInv'
<1> SUFFICES ASSUME StreamsInv, [Next]_vars PROVE StreamsInv'
  OBVIOUS
<1>1. JobInv /\ JobInv' /\ Grows /\ SendsComplete
  BY NextJobInv, NextGrows DEF StreamsInv
<1>2. \A s \in Subscribers : OneStreamInv(s)
  BY DEF StreamsInv, OneStreamInv
<1>3. ASSUME NEW s \in Subscribers,
             sub'[s] = sub[s], backlog'[s] = backlog[s], next'[s] = next[s],
             lagged'[s] = lagged[s], received'[s] = received[s]
      PROVE  OneStreamInv(s)'
  BY <1>1, <1>2, <1>3, StreamFrame DEF OneStreamInv
<1>4. ASSUME NEW s \in Subscribers PROVE OneStreamInv(s)'
  <2>1. CASE UNCHANGED subVars
    BY <1>3, <2>1 DEF subVars
  <2>2. ASSUME NEW t \in Subscribers, Subscribe(t) \/ Stream(t) \/ GetResult(t)
        PROVE  OneStreamInv(s)'
    <3>1. CASE s # t
      <4>1. /\ sub'[s] = sub[s] /\ backlog'[s] = backlog[s] /\ next'[s] = next[s]
            /\ lagged'[s] = lagged[s] /\ received'[s] = received[s]
        <5> USE DEF JobInv, TypeOK
        <5>1. CASE Subscribe(t)
          BY <1>1, <3>1, <5>1 DEF Subscribe
        <5>2. CASE Snapshot(t)
          BY <1>1, <3>1, <5>2 DEF Snapshot
        <5>3. CASE WriteBacklog(t)
          BY <1>1, <3>1, <5>3 DEF WriteBacklog
        <5>4. CASE WriteLive(t)
          BY <1>1, <3>1, <5>4 DEF WriteLive
        <5>5. CASE SkipLagged(t)
          <6>1. lagged'[s] = lagged[s]
            BY <1>1, <3>1, <5>5, Zenon DEF SkipLagged
          <6>2. QED
            BY <1>1, <3>1, <5>5, <6>1 DEF SkipLagged
        <5>6. CASE GetResult(t)
          BY <5>6 DEF GetResult
        <5>7. QED
          BY <2>2, <5>1, <5>2, <5>3, <5>4, <5>5, <5>6 DEF Stream
      <4>2. QED
        BY <1>3, <4>1
    <3>2. CASE s = t /\ GetResult(t)
      BY <1>3, <3>2 DEF GetResult
    <3>3. QED
      BY <1>1, <1>2, <2>2, <3>1, <3>2, SubscribeStream, SnapshotStream,
         WriteBacklogStream, WriteLiveStream, SkipLaggedStream DEF Stream
  <2>3. CASE Runner
    <3>1. UNCHANGED subVars
      BY <2>3
      DEF Runner, StartBuild, StartFails, MaterializeSource, DetectToolchain,
          PrepareBuild, EmitLine, FinishCommand, WriteProvenance, TryStep, Attest,
          DetectPlatform, ReadProvenance, WriteEvidence, AttestStep,
          PublishResult, BuildFails, DropSink, AwaitForwarder, LogComplete,
          SendComplete, MarkState
    <3>2. QED
      BY <2>1, <3>1
  <2>4. CASE Forwarder
    BY <2>1, <2>4
    DEF Forwarder, ForwarderRecv, ForwarderLog, ForwarderSend, ForwarderExit
  <2>5. ASSUME NEW p \in Posters, (\E r \in Requests : PostBuild(p, r)) \/ Handler(p)
        PROVE  OneStreamInv(s)'
    BY <2>1, <2>5 DEF Handler, PostBuild, InsertJob, SpawnRunner
  <2>6. CASE UNCHANGED vars
    BY <2>1, <2>6 DEF vars
  <2>7. QED
    BY <2>2, <2>3, <2>4, <2>5, <2>6 DEF Next
<1>5. QED
  BY <1>1, <1>4 DEF StreamsInv, OneStreamInv

\* The invariant of the streams holds throughout.
THEOREM StreamsInvariant == Spec => []StreamsInv
BY InitStreams, NextStreams, PTL DEF Spec

\* A stream that never lagged has written every event logged before the last
\* one it wrote (src/server/api.rs, get_events; src/server/job.rs, push_event).
THEOREM NoGaps == Spec => []NoGapInStream
<1>1. StreamsInv => NoGapInStream
  BY DEF StreamsInv, NoGapInStream
<1>2. QED
  BY <1>1, StreamsInvariant, PTL

\* A stream that has caught up after the build ends with the Complete event,
\* whether its receiver lagged or not (src/server/api.rs, get_events).
THEOREM StreamEnds == Spec => []StreamEndsWithComplete
<1>1. StreamsInv => StreamEndsWithComplete
  <2> SUFFICES ASSUME StreamsInv, NEW s \in Subscribers,
                      pc \in {"mark", "stopped"}, CaughtUp(s)
               PROVE  received[s] # <<>> /\ IsComplete(received[s][Len(received[s])])
    BY DEF StreamEndsWithComplete
  <2>1. received[s] \in Seq(Event)
    BY DEF StreamsInv, JobInv, TypeOK
  <2>2. received[s] \o backlog[s] = received[s]
    BY <2>1 DEF CaughtUp
  <2>3. EndInv(s)
    BY DEF StreamsInv
  <2>4. QED
    BY <2>2, <2>3 DEF EndInv, CaughtUp
<1>2. QED
  BY <1>1, StreamsInvariant, PTL

-----------------------------------------------------------------------------
(* Refinement *)

TaskVerdict == IF pc \in Announced THEN Verdict ELSE "none"

\* The verdict in the log is the one the build task has announced.
LEMMA VerdictMap == JobInv => LoggedVerdict = TaskVerdict
<1> SUFFICES ASSUME JobInv PROVE LoggedVerdict = TaskVerdict
  OBVIOUS
<1>1. log \in Seq(Event) /\ log # <<>> => Len(log) \in DOMAIN log
  OBVIOUS
<1>2. log \in Seq(Event)
  BY DEF JobInv, TypeOK
<1>3. CASE pc \in Announced
  <2>1. log # <<>> /\ log[Len(log)].kind = Verdict
    BY <1>3 DEF JobInv, CompleteInv
  <2>2. IsComplete(log[Len(log)])
    BY <2>1 DEF IsComplete, Verdict
  <2>3. QED
    BY <1>3, <2>1, <2>2 DEF LoggedVerdict, TaskVerdict
<1>4. CASE pc \notin Announced
  <2>1. log # <<>> => ~IsComplete(log[Len(log)])
    BY <1>1, <1>2, <1>4 DEF JobInv, CompleteInv
  <2>2. QED
    BY <1>4, <2>1 DEF LoggedVerdict, TaskVerdict
<1>5. QED
  BY <1>3, <1>4

\* Every step of the server is a step of the one-shot build or leaves it alone.
LEMMA StepRefines ==
    ASSUME JobInv, [Next]_vars, LoggedVerdict = TaskVerdict,
           LoggedVerdict' = TaskVerdict'
    PROVE  [OSB!Next]_(OSB!vars)
<1> USE DEF OSB!vars, runVars
<1>1. CASE UNCHANGED <<gate, result>> /\ TaskVerdict' = TaskVerdict
  BY <1>1
<1>2. CASE UNCHANGED <<gate, result, outcome>>
           /\ pc \notin Announced /\ pc' \notin Announced
  BY <1>1, <1>2 DEF TaskVerdict
<1>3. CASE UNCHANGED <<gate, result, outcome, pc>>
  BY <1>1, <1>3 DEF TaskVerdict, Verdict
<1>4. ASSUME NEW p \in Posters, NEW r \in Requests, PostBuild(p, r)
      PROVE  [OSB!Next]_(OSB!vars)
  <2>1. CASE Malformed(r) \/ gate
    <3>1. UNCHANGED <<gate, result, outcome, pc>>
      BY <1>4, <2>1, Zenon DEF PostBuild, JobInv, TypeOK
    <3>2. QED
      BY <1>3, <3>1
  <2>2. CASE ~Malformed(r) /\ ~gate
    <3>1. gate' = TRUE /\ UNCHANGED <<result, outcome, pc>>
      BY <1>4, <2>2 DEF PostBuild
    <3>2. UNCHANGED LoggedVerdict
      BY <3>1 DEF TaskVerdict, Verdict
    <3>3. OSB!Accept
      BY <2>2, <3>1, <3>2 DEF OSB!Accept
    <3>4. QED
      BY <3>3 DEF OSB!Next
  <2>3. QED
    BY <2>1, <2>2
<1>5. ASSUME NEW p \in Posters, Handler(p)
      PROVE  [OSB!Next]_(OSB!vars)
  BY <1>2, <1>3, <1>5
  DEF Handler, InsertJob, SpawnRunner, JobInv, GateInv, Announced
<1>6. pc # "none" => gate
  BY DEF JobInv, GateInv
<1>7. CASE PublishResult
  <2>1. ~result /\ gate
    BY <1>6, <1>7 DEF PublishResult, JobInv, OutcomeInv, Finishing, Announced
  <2>2. result' = TRUE /\ UNCHANGED gate /\ LoggedVerdict = "none" /\ LoggedVerdict' = "none"
    BY <1>7 DEF PublishResult, postVars, TaskVerdict, Announced
  <2>3. OSB!Publish
    BY <2>1, <2>2 DEF OSB!Publish
  <2>4. QED
    BY <2>3 DEF OSB!Next
<1>8. CASE LogComplete
  <2>1. gate /\ LoggedVerdict = "none" /\ LoggedVerdict' = Verdict
    BY <1>6, <1>8 DEF LogComplete, TaskVerdict, Announced, Verdict
  <2>2. result <=> Verdict = "ok"
    BY <1>8 DEF LogComplete, JobInv, OutcomeInv, Finishing, Verdict
  <2>3. UNCHANGED <<gate, result>>
    BY <1>8 DEF LogComplete, postVars
  <2>4. Verdict = IF result THEN "ok" ELSE "failed"
    BY <2>2 DEF Verdict
  <2>5. OSB!Conclude
    BY <2>1, <2>3, <2>4 DEF OSB!Conclude
  <2>6. QED
    BY <2>5 DEF OSB!Next
<1>9. CASE Runner
  <2> USE DEF postVars, Announced
  <2>1. CASE StartBuild \/ MaterializeSource \/ DropSink \/ AwaitForwarder
    BY <1>2, <2>1 DEF StartBuild, MaterializeSource, DropSink, AwaitForwarder
  <2>2. CASE StartFails \/ BuildFails
    <3>1. pc \notin Announced /\ pc' \notin Announced /\ UNCHANGED <<gate, result>>
      BY <2>2 DEF StartFails, BuildFails, FalliblePcs
    <3>2. QED
      BY <1>1, <3>1 DEF TaskVerdict
  <2>3. CASE DetectToolchain \/ PrepareBuild \/ FinishCommand \/ WriteProvenance
    BY <1>2, <2>3
    DEF DetectToolchain, PrepareBuild, FinishCommand, WriteProvenance, TryStep
  <2>4. CASE EmitLine
    BY <1>3, <2>4 DEF EmitLine
  <2>5. CASE Attest
    BY <1>2, <2>5 DEF Attest, DetectPlatform, ReadProvenance, WriteEvidence, AttestStep
  <2>6. CASE SendComplete \/ MarkState
    <3>1. pc \in Announced /\ pc' \in Announced /\ UNCHANGED <<gate, result, outcome>>
      BY <2>6 DEF SendComplete, MarkState
    <3>2. QED
      BY <1>1, <3>1 DEF TaskVerdict, Verdict
  <2>7. QED
    BY <1>7, <1>8, <1>9, <2>1, <2>2, <2>3, <2>4, <2>5, <2>6 DEF Runner
<1>10. CASE Forwarder
  BY <1>3, <1>10
  DEF Forwarder, ForwarderRecv, ForwarderLog, ForwarderSend, ForwarderExit, postVars
<1>11. ASSUME NEW s \in Subscribers, Subscribe(s) \/ Stream(s) \/ GetResult(s)
       PROVE  [OSB!Next]_(OSB!vars)
  BY <1>3, <1>11
  DEF Stream, Subscribe, Snapshot, WriteBacklog, WriteLive, SkipLagged, GetResult,
      postVars
<1>12. CASE UNCHANGED vars
  BY <1>3, <1>12 DEF vars, postVars
<1>13. QED
  BY <1>4, <1>5, <1>9, <1>10, <1>11, <1>12 DEF Next

\* The server implements the one-shot build: one accepted request, one verdict,
\* and "ok" only when the result is there (src/server/runner.rs, run_build).
THEOREM ServerRefinesOneShotBuild == Spec => OSB!Spec
<1>1. Init => OSB!Init
  BY DEF Init, OSB!Init, LoggedVerdict
<1>2. JobInv /\ (LoggedVerdict = TaskVerdict) /\ (LoggedVerdict = TaskVerdict)'
        /\ [Next]_vars => [OSB!Next]_(OSB!vars)
  BY StepRefines
<1>3. QED
  BY <1>1, <1>2, VerdictMap, JobInvariant, PTL DEF Spec, OSB!Spec

-----------------------------------------------------------------------------
(* The Attest events *)

\* What the forwarder has taken from the sink and not logged yet.
Taken == IF fwd = "log" THEN held ELSE <<>>

\* Every event that was not dropped, in the order of the log to be.
Trail == (log \o Taken) \o chan

\* q has n Attest events.
HasAttests(q, n) ==
    \E f \in [1..n -> DOMAIN q] :
        /\ \A i \in 1..n : q[f[i]].kind = "attest"
        /\ \A i, j \in 1..n : i < j => f[i] < f[j]

\* How many of them the build task has emitted, if it has not failed.
AttestsDue ==
    IF pc = "checksum" THEN 1
    ELSE IF pc = "evidence" THEN 2
    ELSE IF pc = "publish" \/ (pc \in {"drop", "drain"} \union Finishing /\ outcome = "ok") THEN 3
    ELSE 0

AttestInv == JobInv /\ (AttestEnabled => HasAttests(Trail, AttestsDue))

\* No Attest event is missing from a sequence of none.
LEMMA NoAttests == ASSUME NEW q PROVE HasAttests(q, 0)
<1> DEFINE f == [i \in 1..0 |-> 0]
<1>1. f \in [1..0 -> DOMAIN q] /\ \A i \in 1..0 : FALSE
  OBVIOUS
<1>2. QED
  BY <1>1 DEF HasAttests

\* Another event adds one if it is an Attest event, and takes none away.
LEMMA AppendAttests ==
    ASSUME NEW q \in Seq(Event), NEW n \in Nat, NEW e \in Event, HasAttests(q, n)
    PROVE  /\ HasAttests(Append(q, e), n)
           /\ e.kind = "attest" => HasAttests(Append(q, e), n + 1)
<1>1. PICK f \in [1..n -> DOMAIN q] :
        /\ \A i \in 1..n : q[f[i]].kind = "attest"
        /\ \A i, j \in 1..n : i < j => f[i] < f[j]
  BY DEF HasAttests
<1> DEFINE r == Append(q, e)
           l == Len(q)
<1>2. /\ l \in Nat /\ DOMAIN q = 1..l /\ DOMAIN r = 1..(l + 1)
      /\ \A i \in 1..l : r[i] = q[i]
      /\ r[l + 1] = e
  BY AppendProperties, LenProperties
<1> HIDE DEF r, l
<1>3. HasAttests(r, n)
  <2>1. f \in [1..n -> DOMAIN r]
    BY <1>2
  <2>2. \A i \in 1..n : r[f[i]].kind = "attest"
    BY <1>1, <1>2
  <2>3. QED
    BY <1>1, <2>1, <2>2 DEF HasAttests
<1>4. ASSUME e.kind = "attest" PROVE HasAttests(r, n + 1)
  <2> DEFINE g == [i \in 1..(n + 1) |-> IF i = n + 1 THEN l + 1 ELSE f[i]]
  <2>1. \A i \in 1..(n + 1) : i # n + 1 => i \in 1..n /\ f[i] \in 1..l
    BY <1>2
  <2>2. g \in [1..(n + 1) -> DOMAIN r]
    BY <1>2, <2>1
  <2>3. ASSUME NEW i \in 1..(n + 1) PROVE r[g[i]].kind = "attest"
    BY <1>1, <1>2, <1>4, <2>1
  <2>4. ASSUME NEW i \in 1..(n + 1), NEW j \in 1..(n + 1), i < j PROVE g[i] < g[j]
    <3>1. i # n + 1 /\ i \in 1..n /\ f[i] \in 1..l /\ g[i] = f[i]
      BY <2>1, <2>4
    <3>2. CASE j = n + 1
      BY <1>2, <3>1, <3>2
    <3>3. CASE j # n + 1
      BY <1>1, <2>1, <2>4, <3>1, <3>3
    <3>4. QED
      BY <3>2, <3>3
  <2> HIDE DEF g
  <2>5. QED
    BY <2>2, <2>3, <2>4 DEF HasAttests
<1>5. QED
  BY <1>3, <1>4 DEF r

\* Every part of the trail is a sequence of events.
LEMMA TrailType ==
    ASSUME JobInv
    PROVE  /\ log \in Seq(Event) /\ chan \in Seq(Event) /\ held \in Seq(Event)
           /\ Taken \in Seq(Event) /\ Trail \in Seq(Event)
<1>1. log \in Seq(Event) /\ chan \in Seq(Event) /\ held \in Seq(Event)
  BY DEF JobInv, TypeOK
<1>2. Taken \in Seq(Event)
  BY <1>1 DEF Taken
<1>3. QED
  BY <1>1, <1>2, ConcatProperties DEF Trail

\* The forwarder moves events along the trail.
LEMMA ForwarderTrail ==
    ASSUME JobInv, Forwarder
    PROVE  Trail' = Trail
<1>1. /\ log \in Seq(Event) /\ chan \in Seq(Event) /\ held \in Seq(Event)
  BY TrailType
<1>2. CASE ForwarderRecv
  <2>1. /\ fwd = "recv" /\ fwd' = "log" /\ log' = log /\ chan # <<>>
        /\ held' = <<Head(chan)>> /\ chan' = Tail(chan)
    BY <1>2 DEF ForwarderRecv, pubVars
  <2>2. Head(chan) \in Event /\ Tail(chan) \in Seq(Event)
    BY <1>1, <2>1, HeadTailProperties
  <2>3. chan = <<Head(chan)>> \o Tail(chan)
    BY <1>1, <2>1, <2>2
  <2>4. (log \o <<Head(chan)>>) \o Tail(chan) = log \o (<<Head(chan)>> \o Tail(chan))
    <3>1. <<Head(chan)>> \in Seq(Event)
      BY <2>2
    <3>2. QED
      BY <1>1, <2>2, <3>1, ConcatAssociative
  <2>5. log \o <<>> = log
    BY <1>1, ConcatEmptySeq
  <2>6. QED
    BY <2>1, <2>3, <2>4, <2>5 DEF Trail, Taken
<1>3. CASE ForwarderLog
  <2>1. fwd = "log" /\ fwd' = "send" /\ log' = log \o held /\ chan' = chan
    BY <1>3 DEF ForwarderLog
  <2>2. log \o held \in Seq(Event)
    BY <1>1, ConcatProperties
  <2>3. (log \o held) \o <<>> = log \o held
    BY <2>2, ConcatEmptySeq
  <2>4. QED
    BY <2>1, <2>3 DEF Trail, Taken
<1>4. CASE ForwarderSend \/ ForwarderExit
  <2>1. fwd # "log" /\ fwd' # "log" /\ log' = log /\ chan' = chan
    BY <1>4 DEF ForwarderSend, ForwarderExit, pubVars
  <2>2. QED
    BY <2>1 DEF Trail, Taken
<1>5. QED
  BY <1>2, <1>3, <1>4 DEF Forwarder

\* An event that gets into the sink comes last on the trail.
LEMMA EmitTrail ==
    ASSUME JobInv, NEW e \in Event, chan' = Append(chan, e),
           UNCHANGED <<log, fwd, held>>
    PROVE  Trail' = Append(Trail, e)
<1>1. chan \in Seq(Event) /\ log \o Taken \in Seq(Event) /\ <<e>> \in Seq(Event)
  BY TrailType, ConcatProperties
<1>2. Taken' = Taken
  BY DEF Taken
<1>3. Append(chan, e) = chan \o <<e>>
  BY <1>1, AppendIsConcat
<1>4. Append(Trail, e) = Trail \o <<e>>
  BY TrailType, AppendIsConcat
<1>5. (log \o Taken) \o (chan \o <<e>>) = ((log \o Taken) \o chan) \o <<e>>
  BY <1>1, ConcatAssociative
<1>6. QED
  BY <1>2, <1>3, <1>4, <1>5 DEF Trail

\* A step that reports with try_emit may lose its event, and owes no Attest
\* event for it.
LEMMA TryEmitAttests ==
    ASSUME AttestInv, NEW kind \in Kinds, TryEmit(kind), UNCHANGED <<log, fwd, held>>,
           AttestEnabled => AttestsDue' = AttestsDue
    PROVE  AttestEnabled => HasAttests(Trail', AttestsDue')
<1> SUFFICES ASSUME AttestEnabled PROVE HasAttests(Trail', AttestsDue)
  OBVIOUS
<1>1. JobInv /\ HasAttests(Trail, AttestsDue) /\ AttestsDue \in Nat
  BY DEF AttestInv, AttestsDue
<1>2. NewEvent(kind) \in Event
  BY <1>1, NewEventType DEF JobInv, TypeOK
<1>3. CASE chan' = chan
  <2>1. Trail' = Trail
    BY <1>3 DEF Trail, Taken
  <2>2. QED
    BY <1>1, <2>1
<1>4. CASE chan' = Append(chan, NewEvent(kind))
  <2>1. Trail' = Append(Trail, NewEvent(kind))
    BY <1>1, <1>2, <1>4, EmitTrail
  <2>2. QED
    BY <1>1, <1>2, <2>1, TrailType, AppendAttests
<1>5. QED
  BY <1>3, <1>4 DEF TryEmit

\* A step of attest_with_sink adds the event it owes.
LEMMA EmitAttests ==
    ASSUME AttestInv, Emit("attest"), UNCHANGED <<log, fwd, held>>,
           AttestsDue' = AttestsDue + 1
    PROVE  AttestEnabled => HasAttests(Trail', AttestsDue')
<1> SUFFICES ASSUME AttestEnabled PROVE HasAttests(Trail', AttestsDue + 1)
  OBVIOUS
<1>1. JobInv /\ HasAttests(Trail, AttestsDue) /\ AttestsDue \in Nat
  BY DEF AttestInv, AttestsDue
<1> DEFINE e == NewEvent("attest")
<1>2. e \in Event /\ e.kind = "attest"
  <2>1. "attest" \in Kinds /\ emitted \in Nat
    BY <1>1 DEF Kinds, JobInv, TypeOK
  <2>2. QED
    BY <2>1 DEF NewEvent, Event
<1>3. chan' = Append(chan, e)
  BY DEF Emit
<1> HIDE DEF e
<1>4. Trail' = Append(Trail, e) /\ Trail \in Seq(Event)
  BY <1>1, <1>2, <1>3, EmitTrail, TrailType
<1>5. QED
  BY <1>1, <1>2, <1>4, AppendAttests

\* A step that touches no event and owes no more than before.
LEMMA QuietAttests ==
    ASSUME AttestInv, Trail' = Trail, AttestsDue' \in {0, AttestsDue}
    PROVE  AttestEnabled => HasAttests(Trail', AttestsDue')
BY NoAttests DEF AttestInv

LEMMA RunnerAttests ==
    ASSUME AttestInv, Runner
    PROVE  AttestEnabled => HasAttests(Trail', AttestsDue')
<1>0. JobInv /\ TypeOK
  BY DEF AttestInv, JobInv
<1>1. CASE DetectToolchain \/ PrepareBuild \/ FinishCommand \/ EmitLine
  <2>1. PICK kind \in Kinds : TryEmit(kind)
    BY <1>1
    DEF DetectToolchain, PrepareBuild, FinishCommand, EmitLine, TryStep, Kinds
  <2>2. UNCHANGED <<log, fwd, held>>
    BY <1>1
    DEF DetectToolchain, PrepareBuild, FinishCommand, EmitLine, TryStep, pubVars
  <2>3. /\ pc \in {"detect", "prepare", "stream"}
        /\ pc' \in {"prepare", "stream", "artifacts"}
    BY <1>1
    DEF DetectToolchain, PrepareBuild, FinishCommand, EmitLine, TryStep
  <2>4. AttestsDue = 0 /\ AttestsDue' = 0
    BY <2>3 DEF AttestsDue, Finishing, Announced
  <2>5. QED
    BY <2>1, <2>2, <2>4, TryEmitAttests
<1>2. CASE WriteProvenance
  <2>1. TryEmit("provenance") /\ UNCHANGED <<log, fwd, held>> /\ "provenance" \in Kinds
    BY <1>2 DEF WriteProvenance, TryStep, pubVars, Kinds
  <2>2. AttestEnabled => AttestsDue' = AttestsDue
    BY <1>2 DEF WriteProvenance, TryStep, AttestsDue, Finishing, Announced
  <2>3. QED
    BY <2>1, <2>2, TryEmitAttests
<1>3. CASE Attest
  <2>1. Emit("attest") /\ UNCHANGED <<log, fwd, held>>
    BY <1>3
    DEF Attest, DetectPlatform, ReadProvenance, WriteEvidence, AttestStep, pubVars
  <2>2. <<pc, pc'>> \in {<<"platform", "checksum">>, <<"checksum", "evidence">>,
                         <<"evidence", "publish">>}
    BY <1>3 DEF Attest, DetectPlatform, ReadProvenance, WriteEvidence, AttestStep
  <2>3. AttestsDue' = AttestsDue + 1
    BY <2>2 DEF AttestsDue, Finishing, Announced
  <2>4. QED
    BY <2>1, <2>3, EmitAttests
<1>4. CASE StartBuild \/ StartFails \/ MaterializeSource \/ PublishResult \/ BuildFails
           \/ DropSink \/ AwaitForwarder \/ SendComplete \/ MarkState
  <2>1. log' = log /\ chan' = chan /\ held' = held /\ (fwd = "log" <=> fwd' = "log")
    <3>1. StartBuild => fwd = "none"
      BY <1>0 DEF StartBuild, JobInv, ControlInv
    <3>2. QED
      BY <1>4, <3>1
      DEF StartBuild, StartFails, MaterializeSource, PublishResult, BuildFails, DropSink,
          AwaitForwarder, SendComplete, MarkState, pubVars, sinkVars
  <2>2. Trail' = Trail
    BY <2>1 DEF Trail, Taken
  <2>3. AttestsDue' \in {0, AttestsDue}
    <3>1. CASE StartBuild \/ StartFails \/ MaterializeSource \/ BuildFails
      <4>1. \/ pc' \in {"source", "detect"}
            \/ pc' \in {"complete", "drop"} /\ outcome' = "err"
        BY <3>1 DEF StartBuild, StartFails, MaterializeSource, BuildFails
      <4>2. QED
        BY <4>1 DEF AttestsDue, Finishing, Announced
    <3>2. CASE PublishResult
      <4>1. pc = "publish" /\ pc' = "drop" /\ outcome' = outcome
        BY <3>2 DEF PublishResult
      <4>2. QED
        BY <4>1 DEF AttestsDue, Finishing, Announced
    <3>3. CASE DropSink \/ AwaitForwarder \/ SendComplete \/ MarkState
      <4>1. /\ pc \in {"drop", "drain", "announce", "mark"} /\ outcome' = outcome
            /\ pc' \in {"drain", "complete", "mark", "stopped"}
        BY <3>3 DEF DropSink, AwaitForwarder, SendComplete, MarkState
      <4>2. QED
        BY <4>1 DEF AttestsDue, Finishing, Announced
    <3>4. QED
      BY <1>4, <3>1, <3>2, <3>3
  <2>4. QED
    BY <2>2, <2>3, QuietAttests
<1>5. CASE LogComplete
  <2> DEFINE e == NewEvent(Verdict)
  <2>1. /\ pc = "complete" /\ pc' = "announce" /\ log' = Append(log, e) /\ outcome' = outcome
        /\ UNCHANGED <<chan, fwd, held>>
    BY <1>5 DEF LogComplete, sinkVars
  <2>2. e \in Event
    BY <1>0, NewEventType DEF TypeOK, Verdict, Kinds
  <2> HIDE DEF e
  <2>3. chan = <<>> /\ fwd # "log"
    BY <1>0, <2>1 DEF JobInv, ControlInv, Finishing, Announced
  <2>4. log \in Seq(Event) /\ log' \in Seq(Event)
    BY <1>0, <2>1, <2>2, TrailType, AppendProperties
  <2>5. Trail = log /\ Trail' = Append(log, e)
    <3>1. (log \o <<>>) \o <<>> = log /\ (log' \o <<>>) \o <<>> = log'
      BY <2>4, ConcatEmptySeq
    <3>2. QED
      BY <2>1, <2>3, <3>1 DEF Trail, Taken
  <2>6. AttestsDue' = AttestsDue /\ AttestsDue \in Nat
    BY <2>1 DEF AttestsDue, Finishing, Announced
  <2>7. QED
    BY <2>2, <2>4, <2>5, <2>6, AppendAttests DEF AttestInv
<1>6. QED
  BY <1>1, <1>2, <1>3, <1>4, <1>5 DEF Runner

LEMMA NextAttests == AttestInv /\ [Next]_vars => AttestInv'
<1> SUFFICES ASSUME AttestInv, [Next]_vars PROVE AttestInv'
  OBVIOUS
<1>1. JobInv /\ JobInv'
  BY NextJobInv DEF AttestInv
<1>2. CASE UNCHANGED <<log, sinkVars, runVars>>
  <2>1. Trail' = Trail /\ AttestsDue' = AttestsDue
    BY <1>2 DEF Trail, Taken, AttestsDue, sinkVars, runVars
  <2>2. QED
    BY <1>1, <2>1, QuietAttests DEF AttestInv
<1>3. CASE Runner
  BY <1>1, <1>3, RunnerAttests DEF AttestInv
<1>4. CASE Forwarder
  <2>1. Trail' = Trail
    BY <1>1, <1>4, ForwarderTrail
  <2>2. UNCHANGED runVars
    BY <1>4 DEF Forwarder, ForwarderRecv, ForwarderLog, ForwarderSend, ForwarderExit
  <2>3. AttestsDue' = AttestsDue
    BY <2>2 DEF AttestsDue, runVars
  <2>4. QED
    BY <1>1, <2>1, <2>3, QuietAttests DEF AttestInv
<1>5. ASSUME NEW p \in Posters, (\E r \in Requests : PostBuild(p, r)) \/ Handler(p)
      PROVE  AttestInv'
  <2>1. CASE SpawnRunner(p)
    <3>1. pc' = "tempdir" /\ UNCHANGED <<log, chan, fwd, held>>
      BY <2>1 DEF SpawnRunner, sinkVars, pubVars
    <3>2. Trail' = Trail /\ AttestsDue' = 0
      BY <3>1 DEF Trail, Taken, AttestsDue, Finishing, Announced
    <3>3. QED
      BY <1>1, <3>2, QuietAttests DEF AttestInv
  <2>2. QED
    BY <1>2, <1>5, <2>1 DEF Handler, PostBuild, InsertJob, pubVars
<1>6. ASSUME NEW s \in Subscribers, Subscribe(s) \/ Stream(s) \/ GetResult(s)
      PROVE  AttestInv'
  BY <1>2, <1>6
  DEF Stream, Subscribe, Snapshot, WriteBacklog, WriteLive, SkipLagged, GetResult, pubVars
<1>7. CASE UNCHANGED vars
  BY <1>2, <1>7 DEF vars, pubVars
<1>8. QED
  BY <1>3, <1>4, <1>5, <1>6, <1>7 DEF Next

LEMMA InitAttests == Init => AttestInv
<1> SUFFICES ASSUME Init PROVE AttestInv
  OBVIOUS
<1>1. AttestsDue = 0
  BY DEF Init, AttestsDue, Finishing, Announced
<1>2. QED
  BY <1>1, InitJobInv, NoAttests DEF AttestInv

\* The log of a build that is announced as successful by a server that attests
\* has its Attest events, however much output the sink dropped: emit waits for
\* room (src/toolchain.rs, EventSink; src/commands/attest.rs, attest_with_sink).
THEOREM AttestsLogged == Spec => []AttestEventsLogged
<1>1. AttestInv => AttestEventsLogged
  <2> SUFFICES ASSUME AttestInv, AttestEnabled, NEW i \in DOMAIN log, log[i].kind = "ok"
               PROVE  \E a, b, c \in AttestEvents : a < b /\ b < c
    BY DEF AttestEventsLogged
  <2>1. pc \in Announced /\ Verdict = "ok"
    BY DEF AttestInv, JobInv, CompleteInv, IsComplete
  <2>2. outcome = "ok" /\ pc \in Finishing
    BY <2>1 DEF Verdict, Finishing
  <2>3. AttestsDue = 3
    BY <2>1, <2>2 DEF AttestsDue, Announced
  <2>4. chan = <<>> /\ fwd # "log"
    BY <2>2 DEF AttestInv, JobInv, ControlInv
  <2>5. Trail = log
    <3>1. log \in Seq(Event)
      BY TrailType DEF AttestInv
    <3>2. (log \o <<>>) \o <<>> = log
      BY <3>1, ConcatEmptySeq
    <3>3. QED
      BY <2>4, <3>2 DEF Trail, Taken
  <2>6. PICK f \in [1..3 -> DOMAIN log] :
          /\ \A k \in 1..3 : log[f[k]].kind = "attest"
          /\ \A k, m \in 1..3 : k < m => f[k] < f[m]
    BY <2>3, <2>5 DEF AttestInv, HasAttests
  <2>7. f[1] \in AttestEvents /\ f[2] \in AttestEvents /\ f[3] \in AttestEvents
    BY <2>6 DEF AttestEvents
  <2>8. f[1] < f[2] /\ f[2] < f[3]
    BY <2>6
  <2>9. QED
    BY <2>7, <2>8
<1>2. QED
  BY <1>1, InitAttests, NextAttests, PTL DEF Spec

-----------------------------------------------------------------------------
(* The result after the verdict *)

\* Complete{Ok} is among the events of q.
HasOk(q) == \E k \in DOMAIN q : q[k].kind = "ok"

\* A stream that has written Complete{Ok}, or holds it, finds the result.
OkInv ==
    /\ JobInv
    /\ \A s \in Subscribers : HasOk(received[s]) \/ HasOk(backlog[s]) => result

\* Complete{Ok} is logged, and sent, after the result was set.
LEMMA LoggedOk ==
    ASSUME JobInv, HasOk(log) \/ HasOk(sent)
    PROVE  result
<1>1. HasOk(log)
  <2>1. ASSUME HasOk(sent) PROVE HasOk(log)
    <3>1. log \in Seq(Event) /\ sent \in Seq(Event)
      BY DEF JobInv, TypeOK
    <3>2. DOMAIN sent = 1..Len(sent) /\ DOMAIN log = 1..Len(log)
          /\ Len(sent) \in Nat /\ Len(log) \in Nat
      BY <3>1, LenProperties
    <3>3. Len(sent) <= Len(log) /\ \A i \in 1..Len(sent) : sent[i] = log[i]
      BY SentBehindLog
    <3>4. QED
      BY <2>1, <3>2, <3>3 DEF HasOk
  <2>2. QED
    BY <2>1
<1>2. pc \in Announced /\ Verdict = "ok"
  BY <1>1 DEF HasOk, JobInv, CompleteInv, IsComplete
<1>3. outcome = "ok" /\ pc \in Finishing
  BY <1>2 DEF Verdict, Finishing
<1>4. QED
  BY <1>3 DEF JobInv, OutcomeInv

\* The result, once set, stays.
LEMMA ResultStays ==
    ASSUME [Next]_vars
    PROVE  result => result'
<1>1. CASE Runner
  BY <1>1
  DEF Runner, StartBuild, StartFails, MaterializeSource, DetectToolchain, PrepareBuild,
      EmitLine, FinishCommand, WriteProvenance, TryStep, Attest, DetectPlatform,
      ReadProvenance, WriteEvidence, AttestStep, PublishResult, BuildFails, DropSink,
      AwaitForwarder, LogComplete, SendComplete, MarkState
<1>2. CASE Forwarder
  BY <1>2 DEF Forwarder, ForwarderRecv, ForwarderLog, ForwarderSend, ForwarderExit, runVars
<1>3. ASSUME NEW p \in Posters, (\E r \in Requests : PostBuild(p, r)) \/ Handler(p)
      PROVE  result' = result
  BY <1>3 DEF Handler, PostBuild, InsertJob, SpawnRunner, runVars
<1>4. ASSUME NEW s \in Subscribers, Subscribe(s) \/ Stream(s) \/ GetResult(s)
      PROVE  result' = result
  BY <1>4
  DEF Stream, Subscribe, Snapshot, WriteBacklog, WriteLive, SkipLagged, GetResult, runVars
<1>5. CASE UNCHANGED vars
  BY <1>5 DEF vars, runVars
<1>6. QED
  BY <1>1, <1>2, <1>3, <1>4, <1>5 DEF Next

\* A step of a stream takes its events from the log or from the channel.
LEMMA StreamOk ==
    ASSUME OkInv, NEW s \in Subscribers, Subscribe(s) \/ Stream(s) \/ GetResult(s),
           HasOk(received'[s]) \/ HasOk(backlog'[s])
    PROVE  result
<1>1. /\ JobInv /\ received \in [Subscribers -> Seq(Event)]
      /\ backlog \in [Subscribers -> Seq(Event)] /\ sent \in Seq(Event) /\ next[s] \in Nat
      /\ (HasOk(received[s]) \/ HasOk(backlog[s]) => result)
  BY DEF OkInv, JobInv, TypeOK
<1>2. received[s] \in Seq(Event) /\ backlog[s] \in Seq(Event)
  BY <1>1
<1>3. CASE Subscribe(s) \/ SkipLagged(s) \/ GetResult(s)
  BY <1>1, <1>3 DEF Subscribe, SkipLagged, GetResult
<1>4. CASE Snapshot(s)
  <2>1. received' = received /\ backlog'[s] = log
    BY <1>1, <1>4 DEF Snapshot
  <2>2. QED
    BY <1>1, <2>1, LoggedOk
<1>5. CASE WriteBacklog(s)
  <2>1. /\ backlog[s] # <<>> /\ received'[s] = Append(received[s], Head(backlog[s]))
        /\ backlog'[s] = Tail(backlog[s])
    BY <1>1, <1>5 DEF WriteBacklog
  <2>2. HasOk(Tail(backlog[s])) => HasOk(backlog[s])
    BY <1>2, <2>1 DEF HasOk
  <2>3. Head(backlog[s]) = backlog[s][1] /\ 1 \in DOMAIN backlog[s] /\ Head(backlog[s]) \in Event
    BY <1>2, <2>1
  <2>4. HasOk(Append(received[s], Head(backlog[s]))) => HasOk(received[s]) \/ HasOk(backlog[s])
    BY <1>2, <2>3, AppendProperties DEF HasOk
  <2>5. QED
    BY <1>1, <2>1, <2>2, <2>4
<1>6. CASE WriteLive(s)
  <2>1. /\ received'[s] = Append(received[s], sent[next[s] + 1]) /\ backlog' = backlog
        /\ next[s] < Len(sent)
    BY <1>1, <1>6 DEF WriteLive
  <2>2. next[s] + 1 \in DOMAIN sent /\ sent[next[s] + 1] \in Event
    BY <1>1, <2>1
  <2>3. HasOk(Append(received[s], sent[next[s] + 1])) => HasOk(received[s]) \/ HasOk(sent)
    BY <1>2, <2>2, AppendProperties DEF HasOk
  <2>4. QED
    BY <1>1, <2>1, <2>3, LoggedOk
<1>7. QED
  BY <1>3, <1>4, <1>5, <1>6 DEF Stream

\* The other streams are not touched.
LEMMA OtherStreams ==
    ASSUME JobInv, NEW s \in Subscribers, NEW t \in Subscribers, s # t,
           Subscribe(t) \/ Stream(t) \/ GetResult(t)
    PROVE  received'[s] = received[s] /\ backlog'[s] = backlog[s]
BY DEF JobInv, TypeOK, Stream, Subscribe, Snapshot, WriteBacklog, WriteLive, SkipLagged, GetResult

LEMMA NextOk == OkInv /\ [Next]_vars => OkInv'
<1> SUFFICES ASSUME OkInv, [Next]_vars PROVE OkInv'
  OBVIOUS
<1>1. JobInv /\ JobInv' /\ (result => result')
  BY NextJobInv, ResultStays DEF OkInv
<1>2. CASE UNCHANGED <<received, backlog>>
  BY <1>1, <1>2 DEF OkInv
<1>3. ASSUME NEW t \in Subscribers, Subscribe(t) \/ Stream(t) \/ GetResult(t)
      PROVE  OkInv'
  <2>1. ASSUME NEW s \in Subscribers, HasOk(received'[s]) \/ HasOk(backlog'[s])
        PROVE  result
    <3>1. CASE s = t
      BY <1>3, <2>1, <3>1, StreamOk
    <3>2. CASE s # t
      BY <1>1, <1>3, <2>1, <3>2, OtherStreams DEF OkInv
    <3>3. QED
      BY <3>1, <3>2
  <2>2. QED
    BY <1>1, <2>1 DEF OkInv
<1>4. CASE Runner
  <2>1. UNCHANGED subVars
    BY <1>4
    DEF Runner, StartBuild, StartFails, MaterializeSource, DetectToolchain,
        PrepareBuild, EmitLine, FinishCommand, WriteProvenance, TryStep, Attest,
        DetectPlatform, ReadProvenance, WriteEvidence, AttestStep,
        PublishResult, BuildFails, DropSink, AwaitForwarder, LogComplete,
        SendComplete, MarkState
  <2>2. QED
    BY <1>2, <2>1 DEF subVars
<1>5. CASE Forwarder
  BY <1>2, <1>5
  DEF Forwarder, ForwarderRecv, ForwarderLog, ForwarderSend, ForwarderExit, subVars
<1>6. ASSUME NEW p \in Posters, (\E r \in Requests : PostBuild(p, r)) \/ Handler(p)
      PROVE  OkInv'
  BY <1>2, <1>6 DEF Handler, PostBuild, InsertJob, SpawnRunner, subVars
<1>7. CASE UNCHANGED vars
  BY <1>2, <1>7 DEF vars, subVars
<1>8. QED
  BY <1>3, <1>4, <1>5, <1>6, <1>7 DEF Next

\* Only get_result answers for the result.
LEMMA FetchStep ==
    ASSUME OkInv, [Next]_vars, NEW s \in Subscribers, SawOk(s), fetched'[s] # fetched[s]
    PROVE  fetched'[s] = "200"
<1>1. result /\ fetched \in [Subscribers -> {"none", "404", "200"}]
  BY DEF OkInv, JobInv, TypeOK, SawOk, HasOk
<1>2. ASSUME NEW t \in Subscribers, Subscribe(t) \/ Stream(t) PROVE fetched' = fetched
  BY <1>2 DEF Stream, Subscribe, Snapshot, WriteBacklog, WriteLive, SkipLagged
<1>3. ASSUME NEW t \in Subscribers, GetResult(t) PROVE fetched'[s] = "200"
  BY <1>1, <1>3 DEF GetResult
<1>4. CASE Runner
  BY <1>4
  DEF Runner, StartBuild, StartFails, MaterializeSource, DetectToolchain,
      PrepareBuild, EmitLine, FinishCommand, WriteProvenance, TryStep, Attest,
      DetectPlatform, ReadProvenance, WriteEvidence, AttestStep,
      PublishResult, BuildFails, DropSink, AwaitForwarder, LogComplete,
      SendComplete, MarkState, subVars
<1>5. CASE Forwarder
  BY <1>5 DEF Forwarder, ForwarderRecv, ForwarderLog, ForwarderSend, ForwarderExit, subVars
<1>6. ASSUME NEW p \in Posters, (\E r \in Requests : PostBuild(p, r)) \/ Handler(p)
      PROVE  fetched' = fetched
  BY <1>6 DEF Handler, PostBuild, InsertJob, SpawnRunner, subVars
<1>7. CASE UNCHANGED vars
  BY <1>7 DEF vars, subVars
<1>8. QED
  BY <1>2, <1>3, <1>4, <1>5, <1>6, <1>7 DEF Next

\* A client that has read Complete{Ok} from its stream, from the backlog or
\* live, is never answered 404 when it asks for the result
\* (src/server/runner.rs, run_build; src/server/api.rs, get_result).
THEOREM ResultIsThereAfterOk == Spec => ResultAfterOk
<1>1. Init => OkInv
  BY InitJobInv DEF Init, OkInv, HasOk
<1>2. OkInv /\ [Next]_vars =>
        [\A s \in Subscribers :
            SawOk(s) /\ fetched'[s] # fetched[s] => fetched'[s] = "200"]_vars
  BY FetchStep
<1>3. QED
  BY <1>1, <1>2, NextOk, PTL DEF Spec, ResultAfterOk
=============================================================================
