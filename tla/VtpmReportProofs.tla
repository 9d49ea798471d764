-------------------------- MODULE VtpmReportProofs --------------------------
(***************************************************************************)
(* For any number of callers, of pieces and of PCRs, and for any paravisor *)
(* that renews the report within the callers' sleep: what                  *)
(* get_report_with_report_data, get_report and get_quote return.           *)
(***************************************************************************)
EXTENDS VtpmReport, TLAPS

\* An index of the right size holds the data after it is written.
LEMMA OverwrittenWhole ==
    ASSUME NEW cells \in Seq(Cells), NEW data \in Seq(Cells)
    PROVE  /\ Overwritten(cells, data) \in Seq(Cells)
           /\ Len(cells) = Len(data) => Overwritten(cells, data) = data
BY DEF Overwritten

LEMMA BlankIndex ==
    ASSUME NEW data \in Seq(Cells)
    PROVE  /\ [i \in 1..Len(data) |-> BlankCell] \in Seq(Cells)
           /\ Len([i \in 1..Len(data) |-> BlankCell]) = Len(data)
BY VtpmAssumption

LEMMA ArgIsSeq == VtpmTypeOK => \A c \in Callers : arg[c] \in Seq(Cells)
<1>1. <<>> \in Seq(Cells)
    OBVIOUS
<1>2. QED
    BY <1>1, VtpmAssumption DEF VtpmTypeOK

LEMMA ExtendedPcrs ==
    ASSUME NEW p \in [1..Slots -> Nat], NEW s \in 1..Slots
    PROVE  [p EXCEPT ![s] = @ + 1] \in [1..Slots -> Nat]
OBVIOUS

LEMMA Numbers ==
    /\ Latency \in Nat /\ Slots \in Nat \ {0} /\ Chunks \in Nat \ {0} /\ Delay \in Nat
    /\ 0 \in 0..Latency /\ Latency \in 0..Latency
BY VtpmAssumption

LEMMA InitTypeOK == Init => VtpmTypeOK
<1> SUFFICES ASSUME Init PROVE VtpmTypeOK
    OBVIOUS
<1>1. <<>> \in Seq(Cells) /\ <<>> \in Seq(Report)
    OBVIOUS
<1>2. index \in [def : BOOLEAN, cells : Seq(Cells)]
  <2>1. CASE index = NoIndex
    BY <1>1, <2>1 DEF NoIndex
  <2>2. ASSUME NEW d \in Data, index = [def |-> TRUE, cells |-> d]
        PROVE  index \in [def : BOOLEAN, cells : Seq(Cells)]
    <3>1. d \in Seq(Cells)
      BY VtpmAssumption
    <3>2. QED
      BY <2>2, <3>1
  <2>3. QED
    BY <2>1, <2>2 DEF Init
<1>3. report \in Report
    BY <1>2 DEF Init, Report
<1>4. /\ raced \in [Callers -> BOOLEAN]
      /\ stale \in BOOLEAN /\ bank \in BOOLEAN /\ died \in BOOLEAN
    BY Zenon DEF Init
<1>5. /\ dev \in Callers \union {NoCaller}
      /\ arg \in [Callers -> Data \union {<<>>}]
      /\ got \in [Callers -> Seq(Report)]
      /\ op \in [Callers -> Ops]
    BY <1>1 DEF Init, Ops
<1>6. /\ slept \in [Callers -> 0..Delay]
      /\ due \in 0..Latency
      /\ pcr \in [1..Slots -> Nat]
    BY VtpmAssumption DEF Init
<1>7. /\ pc \in [Callers -> {"idle", "open", "find", "undefine", "define", "write", "sleep",
                           "read", "quote", "pcrs", "extend", "return"}]
      /\ \A c \in Callers : pc[c] \notin {"idle", "open"} <=> dev = c
    BY VtpmAssumption DEF Init
<1>8. QED
    BY <1>2, <1>3, <1>4, <1>5, <1>6, <1>7 DEF VtpmTypeOK

LEMMA StepTypeOK == VtpmTypeOK /\ [Next]_vars => VtpmTypeOK'
<1> SUFFICES ASSUME VtpmTypeOK, [Next]_vars
             PROVE  VtpmTypeOK'
    OBVIOUS
<1> USE VtpmAssumption
<1> DEFINE Labels == {"idle", "open", "find", "undefine", "define", "write", "sleep",
                      "read", "quote", "pcrs", "extend", "return"}
           Owner == \A c \in Callers : pc[c] \notin {"idle", "open"} <=> dev = c
<1>1. CASE UNCHANGED vars
    BY <1>1 DEF vars, callVars, tpmVars, VtpmTypeOK
<1>2. ASSUME NEW c \in Callers, Call(c)
      PROVE  VtpmTypeOK'
  <2>1. op' \in [Callers -> Ops] /\ arg' \in [Callers -> Data \union {<<>>}]
    <3>1. op \in [Callers -> Ops] /\ arg \in [Callers -> Data \union {<<>>}]
      BY DEF VtpmTypeOK
    <3>2. \E o \in Ops, d \in Data \union {<<>>} :
            op' = [op EXCEPT ![c] = o] /\ arg' = [arg EXCEPT ![c] = d]
      BY <1>2 DEF Call
    <3>3. QED
      BY <1>2, <3>1, <3>2
  <2>2. pc' \in [Callers -> Labels] /\ Owner'
    BY <1>2 DEF Call, Goto, VtpmTypeOK
  <2>3. UNCHANGED <<dev, slept, got, raced, index, report, stale, due, pcr, bank, died>>
    BY <1>2 DEF Call, tpmVars
  <2>4. QED
    BY <2>1, <2>2, <2>3, Zenon DEF VtpmTypeOK
<1>3. ASSUME NEW c \in Callers, Ends(c), died' \in BOOLEAN
      PROVE  VtpmTypeOK'
  <2>1. <<>> \in Seq(Report)
    OBVIOUS
  <2>2. pc' \in [Callers -> Labels] /\ dev' \in Callers \union {NoCaller} /\ Owner'
    BY <1>3 DEF Ends, Goto, VtpmTypeOK
  <2>3. op' \in [Callers -> Ops] /\ arg' \in [Callers -> Data \union {<<>>}]
    BY <1>3 DEF Ends, VtpmTypeOK, Ops
  <2>4. slept' \in [Callers -> 0..Delay]
    BY <1>3 DEF Ends, VtpmTypeOK
  <2>5. got' \in [Callers -> Seq(Report)]
    BY <1>3, <2>1 DEF Ends, VtpmTypeOK
  <2>6. raced' \in [Callers -> BOOLEAN]
    BY <1>3 DEF Ends, VtpmTypeOK
  <2>7. UNCHANGED <<index, report, stale, due, pcr, bank>>
    BY <1>3 DEF Ends, tpmVars
  <2>8. QED
    BY <1>3, <2>2, <2>3, <2>4, <2>5, <2>6, <2>7, Zenon DEF VtpmTypeOK
<1>4. ASSUME NEW c \in Callers, Open(c)
      PROVE  VtpmTypeOK'
    BY <1>4 DEF Open, FirstStep, Goto, VtpmTypeOK, Ops, tpmVars
<1>5. ASSUME NEW c \in Callers, FindIndex(c) \/ Wake(c) \/ ReadFull(c) \/ ReadAll(c)
      PROVE  VtpmTypeOK'
  <2>1. pc' \in [Callers -> Labels] /\ Owner'
    <3>1. pc \in [Callers -> Labels] /\ Owner
      BY DEF VtpmTypeOK
    <3>2. /\ pc[c] \notin {"idle", "open"} /\ dev' = dev
          /\ \E l \in Labels \ {"idle", "open"} : pc' = [pc EXCEPT ![c] = l]
      BY <1>5 DEF FindIndex, Wake, ReadFull, ReadAll, Local, Goto
    <3>3. QED
      BY <1>5, <3>1, <3>2
  <2>2. UNCHANGED <<dev, op, arg, slept, got, raced, index, report, stale, due, pcr, bank, died>>
    BY <1>5 DEF FindIndex, Wake, ReadFull, ReadAll, Local, tpmVars
  <2>3. QED
    BY <2>1, <2>2, Zenon DEF VtpmTypeOK
<1>6. ASSUME NEW c \in Callers, DeleteIndex(c)
      PROVE  VtpmTypeOK'
  <2>1. NoIndex \in [def : BOOLEAN, cells : Seq(Cells)]
    BY DEF NoIndex
  <2>2. QED
    BY <1>6, <2>1 DEF DeleteIndex, Local, Goto, VtpmTypeOK
<1>7. ASSUME NEW c \in Callers, CreateIndex(c)
      PROVE  VtpmTypeOK'
  <2>1. index' \in [def : BOOLEAN, cells : Seq(Cells)]
    BY <1>7, ArgIsSeq, BlankIndex DEF CreateIndex
  <2>2. QED
    BY <1>7, <2>1 DEF CreateIndex, Local, Goto, VtpmTypeOK
<1>8. ASSUME NEW c \in Callers, NvWrite(c)
      PROVE  VtpmTypeOK'
  <2>1. index' \in [def : BOOLEAN, cells : Seq(Cells)]
    BY <1>8, ArgIsSeq, OverwrittenWhole DEF NvWrite, VtpmTypeOK
  <2>2. stale' \in BOOLEAN /\ due' \in 0..Latency
    BY <1>8 DEF NvWrite
  <2>3. QED
    BY <1>8, <2>1, <2>2 DEF NvWrite, Local, Goto, VtpmTypeOK
<1>9. ASSUME NEW c \in Callers, ReadChunk(c)
      PROVE  VtpmTypeOK'
  <2>1. got' \in [Callers -> Seq(Report)]
    BY <1>9 DEF ReadChunk, VtpmTypeOK
  <2>2. UNCHANGED <<dev, pc, op, arg, slept, raced, index, report, stale, due, pcr, bank, died>>
    BY <1>9 DEF ReadChunk, Local, tpmVars
  <2>3. QED
    BY <2>1, <2>2, Zenon DEF VtpmTypeOK
<1>10. ASSUME NEW c \in Callers, Quote(c) \/ ReadPcrs(c)
       PROVE  VtpmTypeOK'
    BY <1>10 DEF Quote, ReadPcrs, Goto, Local, VtpmTypeOK, tpmVars
<1>11. ASSUME NEW c \in Callers, ExtendPcr(c)
       PROVE  VtpmTypeOK'
  <2>1. pcr' \in [1..Slots -> Nat]
    <3>1. pcr \in [1..Slots -> Nat]
      BY DEF VtpmTypeOK
    <3>2. \E s \in 1..Slots : pcr' = [pcr EXCEPT ![s] = @ + 1]
      BY <1>11 DEF ExtendPcr
    <3>3. QED
      BY <3>1, <3>2, ExtendedPcrs
  <2>2. QED
    BY <1>11, <2>1 DEF ExtendPcr, Goto, Local, VtpmTypeOK
<1>12. CASE Renew
  <2>1. report' \in Report
    <3>1. index.cells \in Seq(Cells) /\ report.epoch + 1 \in Nat
      BY DEF VtpmTypeOK, Report
    <3>2. QED
      BY <1>12, <3>1 DEF Renew, Report
  <2>2. stale' \in BOOLEAN /\ due' \in 0..Latency
    BY <1>12, Numbers, Zenon DEF Renew
  <2>3. QED
    BY <1>12, <2>1, <2>2 DEF Renew, callVars, VtpmTypeOK
<1>13. CASE Tick
  <2>1. due' \in 0..Latency
    <3>1. due \in 0..Latency /\ (stale => due > 0)
      BY <1>13 DEF Tick, VtpmTypeOK
    <3>2. due' = IF stale THEN due - 1 ELSE due
      BY <1>13 DEF Tick
    <3>3. QED
      BY <3>1, <3>2, Numbers
  <2>2. slept' \in [Callers -> 0..Delay]
    <3>1. slept \in [Callers -> 0..Delay]
      BY DEF VtpmTypeOK
    <3>2. slept' = [c \in Callers |-> IF pc[c] = "sleep" /\ slept[c] < Delay
                                      THEN slept[c] + 1 ELSE slept[c]]
      BY <1>13 DEF Tick
    <3>3. QED
      BY <3>1, <3>2, Numbers
  <2>3. UNCHANGED <<dev, pc, op, arg, got, raced, index, report, stale, pcr, bank, died>>
    BY <1>13 DEF Tick
  <2>4. QED
    BY <2>1, <2>2, <2>3, Zenon DEF VtpmTypeOK
<1>14. CASE KernelExtend
  <2>1. pcr' \in [1..Slots -> Nat]
    <3>1. pcr \in [1..Slots -> Nat]
      BY DEF VtpmTypeOK
    <3>2. \E s \in 1..Slots : pcr' = [pcr EXCEPT ![s] = @ + 1]
      BY <1>14 DEF KernelExtend
    <3>3. QED
      BY <3>1, <3>2, ExtendedPcrs
  <2>2. raced' \in [Callers -> BOOLEAN]
    BY <1>14, Zenon DEF KernelExtend, VtpmTypeOK
  <2>3. QED
    BY <1>14, <2>1, <2>2 DEF KernelExtend, VtpmTypeOK
<1>15. QED
    BY <1>1, <1>2, <1>3, <1>4, <1>5, <1>6, <1>7, <1>8, <1>9, <1>10, <1>11, <1>12,
       <1>13, <1>14 DEF Next, Step, Busy, DataTooLong, Return, Die, VtpmTypeOK

\* The state has its type and a call past Open has the device to itself, for any
\* number of callers (get_session_context).
THEOREM VtpmTypeCorrect == Spec => []VtpmTypeOK
BY InitTypeOK, StepTypeOK, PTL DEF Spec

-----------------------------------------------------------------------------
\* What a call has done so far, by where it is.
OpInv(c) ==
    /\ pc[c] \in {"find", "undefine", "define", "write", "sleep"} => op[c] = "data"
    /\ pc[c] = "read" => op[c] \in {"data", "report"}
    /\ pc[c] \in {"quote", "pcrs"} => op[c] = "quote"
    /\ pc[c] = "extend" => op[c] = "extend"

FreshInv(c) ==
    pc[c] \in {"idle", "open", "find", "undefine", "define", "write"} =>
        slept[c] = 0 /\ got[c] = <<>>

SizeInv(c) == pc[c] = "write" => Len(index.cells) = Len(arg[c])

\* While a caller sleeps its data stay in the index, and either the report is
\* renewed already or there is time left to renew it.
SleepInv(c) ==
    pc[c] = "sleep" =>
        /\ got[c] = <<>>
        /\ index.cells = arg[c]
        /\ stale => due + slept[c] <= Latency
        /\ ~stale => report.data = arg[c]

\* While a caller reads, the report stays as it is.
ReadInv(c) ==
    pc[c] = "read" =>
        /\ Len(got[c]) <= Chunks
        /\ op[c] = "data" \/ ~died =>
               ~stale /\ \A k \in 1..Len(got[c]) : got[c][k] = report
        /\ op[c] = "data" => report.data = arg[c]

\* What a call that reads the report returns.
ReturnInv(c) ==
    pc[c] = "return" =>
        /\ op[c] = "data" => Whole(got[c]) /\ \A k \in 1..Chunks : got[c][k].data = arg[c]
        /\ op[c] = "report" /\ ~died => Whole(got[c])

CallInv(c) ==
    OpInv(c) /\ FreshInv(c) /\ SizeInv(c) /\ SleepInv(c) /\ ReadInv(c) /\ ReturnInv(c)

\* A renewal outlives the sleep it belongs to only when its caller died.
RenewInv == stale /\ ~died => \E c \in Callers : pc[c] = "sleep"

ReportInv == VtpmTypeOK /\ RenewInv /\ \A c \in Callers : CallInv(c)

\* At most one call is past Open.
LEMMA Exclusive ==
    ASSUME VtpmTypeOK, NEW c \in Callers, NEW d \in Callers,
           pc[c] \notin {"idle", "open"}, d # c
    PROVE  pc[d] \in {"idle", "open"}
BY DEF VtpmTypeOK

LEMMA InitReportInv == Init => ReportInv
<1> SUFFICES ASSUME Init PROVE ReportInv
    OBVIOUS
<1>1. \A c \in Callers : pc[c] = "idle" /\ slept[c] = 0 /\ got[c] = <<>>
    BY DEF Init
<1>2. \A c \in Callers : CallInv(c)
    BY <1>1 DEF CallInv, OpInv, FreshInv, SizeInv, SleepInv, ReadInv, ReturnInv
<1>3. RenewInv
    BY DEF Init, RenewInv
<1>4. QED
    BY <1>2, <1>3, InitTypeOK DEF ReportInv

\* A call that no step concerns keeps its invariant when the step leaves the
\* index and the report alone, or when it is not past Open.
LEMMA OthersKeep ==
    ASSUME ReportInv, NEW d \in Callers,
           pc'[d] = pc[d], op'[d] = op[d], arg'[d] = arg[d], slept'[d] = slept[d],
           got'[d] = got[d], died' \in BOOLEAN, died => died',
           \/ pc[d] \in {"idle", "open"}
           \/ UNCHANGED <<index, report, stale, due>>
    PROVE  CallInv(d)'
<1>1. CallInv(d)
    BY DEF ReportInv
<1>2. CASE pc[d] \in {"idle", "open"}
    BY <1>1, <1>2 DEF CallInv, OpInv, FreshInv, SizeInv, SleepInv, ReadInv, ReturnInv
<1>3. CASE UNCHANGED <<index, report, stale, due>>
  <2>1. ReturnInv(d)'
    BY <1>1, <1>3 DEF CallInv, ReturnInv, Whole
  <2>2. ReadInv(d)'
    BY <1>1, <1>3 DEF CallInv, ReadInv
  <2>3. QED
    BY <1>1, <1>3, <2>1, <2>2 DEF CallInv, OpInv, FreshInv, SizeInv, SleepInv
<1>4. QED
    BY <1>2, <1>3

Stays(d) ==
    /\ pc'[d] = pc[d] /\ op'[d] = op[d] /\ arg'[d] = arg[d]
    /\ slept'[d] = slept[d] /\ got'[d] = got[d]

LEMMA EndsStep ==
    ASSUME ReportInv, VtpmTypeOK', NEW c \in Callers, Ends(c), died => died',
           pc[c] = "sleep" => died'
    PROVE  RenewInv' /\ \A d \in Callers : CallInv(d)'
<1> USE DEF ReportInv
<1>1. UNCHANGED <<index, report, stale, due>>
    BY DEF Ends, tpmVars
<1>2. pc'[c] = "idle" /\ slept'[c] = 0 /\ got'[c] = <<>>
    BY DEF Ends, Goto, VtpmTypeOK
<1>3. CallInv(c)'
    BY <1>2 DEF CallInv, OpInv, FreshInv, SizeInv, SleepInv, ReadInv, ReturnInv
<1>4. \A d \in Callers \ {c} : Stays(d)
    BY DEF Ends, Goto, VtpmTypeOK, Stays
<1>5. died' \in BOOLEAN
    BY DEF VtpmTypeOK
<1>6. \A d \in Callers \ {c} : CallInv(d)'
    BY <1>1, <1>4, <1>5, OthersKeep DEF Stays
<1>7. RenewInv'
    BY <1>1, <1>4 DEF RenewInv, Stays
<1>8. QED
    BY <1>3, <1>6, <1>7

\* A step that leaves the index and the report alone and wakes nobody up.
LEMMA OtherCalls ==
    ASSUME ReportInv, VtpmTypeOK', NEW c \in Callers, Call(c) \/ Step(c), ~Ends(c)
    PROVE  /\ UNCHANGED died
           /\ \A d \in Callers \ {c} : Stays(d)
           /\ \A d \in Callers \ {c} : CallInv(d)'
<1> USE DEF ReportInv
<1>1. UNCHANGED died /\ \A d \in Callers \ {c} : Stays(d)
  <2>1. CASE Call(c)
    BY <2>1 DEF Call, Goto, VtpmTypeOK, Stays
  <2>2. CASE Open(c)
    BY <2>2 DEF Open, Goto, VtpmTypeOK, Stays
  <2>3. CASE FindIndex(c) \/ DeleteIndex(c) \/ CreateIndex(c) \/ NvWrite(c)
    BY <2>3 DEF FindIndex, DeleteIndex, CreateIndex, NvWrite, Goto, Local, VtpmTypeOK, Stays
  <2>4. CASE Wake(c) \/ ReadChunk(c) \/ ReadFull(c)
    BY <2>4 DEF Wake, ReadChunk, ReadFull, Goto, Local, VtpmTypeOK, Stays
  <2>5. CASE Quote(c) \/ ReadPcrs(c) \/ ReadAll(c) \/ ExtendPcr(c)
    BY <2>5 DEF Quote, ReadPcrs, ReadAll, ExtendPcr, Goto, Local, VtpmTypeOK, Stays
  <2>6. QED
    BY <2>1, <2>2, <2>3, <2>4, <2>5 DEF Step, Busy, DataTooLong, Return
<1>2. \/ pc[c] \notin {"idle", "open"}
      \/ UNCHANGED <<index, report, stale, due>>
    BY DEF Call, Step, Open, Busy, FindIndex, DataTooLong, DeleteIndex, CreateIndex, NvWrite,
           Wake, ReadChunk, ReadFull, Quote, ReadPcrs, ReadAll, ExtendPcr, Return, tpmVars
<1>3. died' \in BOOLEAN /\ (died => died')
    BY <1>1 DEF VtpmTypeOK
<1>4. ASSUME NEW d \in Callers \ {c}
      PROVE  CallInv(d)'
  <2>1. \/ pc[d] \in {"idle", "open"}
        \/ UNCHANGED <<index, report, stale, due>>
    BY <1>2, Exclusive
  <2>2. QED
    BY <1>1, <1>3, <2>1, OthersKeep DEF Stays
<1>5. QED
    BY <1>1, <1>4

LEMMA CallerStep ==
    ASSUME ReportInv, VtpmTypeOK', NEW c \in Callers, Call(c) \/ Step(c) \/ Die(c)
    PROVE  RenewInv' /\ \A d \in Callers : CallInv(d)'
<1> DEFINE Calm == UNCHANGED <<index, report, stale, due>>
<1>0. VtpmTypeOK /\ RenewInv /\ CallInv(c)
    BY DEF ReportInv
<1>1. CASE Ends(c)
  <2>1. \/ died' = TRUE
        \/ died' = died /\ pc[c] # "sleep"
        \/ Wake(c)
    BY DEF Call, Step, Die, Open, Busy, FindIndex, DataTooLong, DeleteIndex, CreateIndex,
           NvWrite, Wake, ReadChunk, ReadFull, Quote, ReadPcrs, ReadAll, ExtendPcr, Return,
           Local
  <2>2. ~Wake(c)
    BY <1>0, <1>1 DEF Wake, Ends, Goto, VtpmTypeOK
  <2>3. QED
    BY <1>1, <2>1, <2>2, EndsStep
<1>2. CASE ~Ends(c)
  <2> SUFFICES CallInv(c)' /\ RenewInv'
    BY <1>2, OtherCalls DEF Die
  <2>1. /\ UNCHANGED died
        /\ \A d \in Callers \ {c} : pc'[d] = pc[d]
    BY <1>2, OtherCalls DEF Die, Stays
  <2>2. ASSUME Calm, pc[c] # "sleep"
        PROVE  RenewInv'
    BY <1>0, <2>1, <2>2 DEF RenewInv
  <2>3. CASE Call(c)
    <3>1. pc'[c] = "open" /\ slept'[c] = slept[c] /\ got'[c] = got[c] /\ pc[c] = "idle" /\ Calm
      BY <1>0, <2>3 DEF Call, Goto, VtpmTypeOK, tpmVars
    <3>2. CallInv(c)'
      BY <1>0, <3>1 DEF CallInv, OpInv, FreshInv, SizeInv, SleepInv, ReadInv, ReturnInv
    <3>3. QED
      BY <2>2, <3>1, <3>2
  <2>4. CASE Open(c)
    <3>1. /\ pc[c] = "open" /\ pc'[c] = FirstStep(op[c]) /\ op'[c] = op[c] /\ op[c] \in Ops
          /\ slept'[c] = slept[c] /\ got'[c] = got[c] /\ Calm /\ dev = NoCaller
      BY <1>0, <2>4 DEF Open, Goto, VtpmTypeOK, tpmVars
    <3>2. slept[c] = 0 /\ got[c] = <<>>
      BY <1>0, <3>1 DEF CallInv, FreshInv
    <3>3. CASE op[c] = "report"
      <4>1. pc'[c] = "read"
        BY <3>1, <3>3 DEF FirstStep
      <4>2. ~died => ~stale
        BY <1>0, <3>1, VtpmAssumption DEF RenewInv, VtpmTypeOK
      <4>3. ReadInv(c)'
        BY <2>1, <3>1, <3>2, <3>3, <4>2, Numbers DEF ReadInv
      <4>4. QED
        BY <2>2, <3>1, <3>2, <3>3, <4>1, <4>3
        DEF CallInv, OpInv, FreshInv, SizeInv, SleepInv, ReturnInv
    <3>4. CASE op[c] # "report"
      <4>1. \/ op[c] = "data" /\ pc'[c] = "find"
            \/ op[c] = "quote" /\ pc'[c] = "quote"
            \/ op[c] = "extend" /\ pc'[c] = "extend"
        BY <3>1, <3>4 DEF FirstStep, Ops
      <4>2. QED
        BY <2>2, <3>1, <3>2, <4>1
        DEF CallInv, OpInv, FreshInv, SizeInv, SleepInv, ReadInv, ReturnInv
    <3>5. QED
      BY <3>3, <3>4
  <2>5. CASE FindIndex(c)
    <3>1. /\ pc[c] = "find" /\ op'[c] = op[c] /\ slept'[c] = slept[c] /\ got'[c] = got[c] /\ Calm
          /\ arg'[c] = arg[c]
          /\ pc'[c] \in {"define", "undefine", "write"}
          /\ pc'[c] = "write" => Len(index.cells) = Len(arg[c])
      BY <1>0, <2>5 DEF FindIndex, Goto, VtpmTypeOK, tpmVars
    <3>2. QED
      BY <1>0, <2>2, <3>1 DEF CallInv, OpInv, FreshInv, SizeInv, SleepInv, ReadInv, ReturnInv
  <2>6. CASE DeleteIndex(c) \/ CreateIndex(c)
    <3>1. /\ pc[c] \in {"undefine", "define"} /\ pc'[c] \in {"define", "write"}
          /\ op'[c] = op[c] /\ slept'[c] = slept[c] /\ got'[c] = got[c] /\ arg'[c] = arg[c]
          /\ UNCHANGED stale
      BY <1>0, <2>6 DEF DeleteIndex, CreateIndex, Goto, VtpmTypeOK
    <3>2. pc'[c] = "write" => Len(index'.cells) = Len(arg[c])
      <4>1. CASE DeleteIndex(c)
        BY <1>0, <4>1 DEF DeleteIndex, Goto, VtpmTypeOK
      <4>2. CASE CreateIndex(c)
        BY <1>0, <4>2, ArgIsSeq, BlankIndex DEF CreateIndex
      <4>3. QED
        BY <2>6, <4>1, <4>2
    <3>3. RenewInv'
      BY <1>0, <2>1, <3>1 DEF RenewInv
    <3>4. QED
      BY <1>0, <3>1, <3>2, <3>3
      DEF CallInv, OpInv, FreshInv, SizeInv, SleepInv, ReadInv, ReturnInv
  <2>7. CASE NvWrite(c)
    <3>1. /\ pc[c] = "write" /\ pc'[c] = "sleep" /\ stale' /\ due' = Latency
          /\ op'[c] = op[c] /\ slept'[c] = slept[c] /\ got'[c] = got[c] /\ arg'[c] = arg[c]
      BY <1>0, <2>7 DEF NvWrite, Goto, VtpmTypeOK
    <3>2. index'.cells = Overwritten(index.cells, arg[c])
      BY <1>0, <2>7 DEF NvWrite, VtpmTypeOK
    <3>3. index'.cells = arg[c]
      <4>1. index.cells \in Seq(Cells) /\ arg[c] \in Seq(Cells)
        BY <1>0, ArgIsSeq DEF VtpmTypeOK
      <4>2. Len(index.cells) = Len(arg[c])
        BY <1>0, <3>1 DEF CallInv, SizeInv
      <4>3. QED
        BY <3>2, <4>1, <4>2, OverwrittenWhole
    <3>4. SleepInv(c)'
      BY <1>0, <3>1, <3>3, Numbers DEF CallInv, FreshInv, SleepInv
    <3>5. RenewInv'
      BY <3>1 DEF RenewInv
    <3>6. QED
      BY <1>0, <3>1, <3>4, <3>5 DEF CallInv, OpInv, FreshInv, SizeInv, ReadInv, ReturnInv
  <2>8. CASE Wake(c)
    <3>1. /\ pc[c] = "sleep" /\ pc'[c] = "read" /\ Calm /\ slept[c] = Delay
          /\ op'[c] = op[c] /\ slept'[c] = slept[c] /\ got'[c] = got[c] /\ arg'[c] = arg[c]
      BY <1>0, <2>8 DEF Wake, Goto, VtpmTypeOK, tpmVars
    <3>2. op[c] = "data" /\ got[c] = <<>> /\ ~stale /\ report.data = arg[c]
      <4>1. due \in Nat /\ (stale => due + Delay <= Latency)
        BY <1>0, <3>1, Numbers DEF CallInv, SleepInv, VtpmTypeOK
      <4>2. ~stale
        BY <4>1, Numbers, PromptParavisor
      <4>3. QED
        BY <1>0, <3>1, <4>2 DEF CallInv, OpInv, SleepInv
    <3>3. ReadInv(c)'
      BY <3>1, <3>2, Numbers DEF ReadInv
    <3>4. RenewInv'
      BY <3>1, <3>2 DEF RenewInv
    <3>5. QED
      BY <3>1, <3>2, <3>3, <3>4 DEF CallInv, OpInv, FreshInv, SizeInv, SleepInv, ReturnInv
  <2>9. CASE ReadChunk(c)
    <3>1. /\ pc[c] = "read" /\ pc'[c] = "read" /\ Calm /\ Len(got[c]) < Chunks
          /\ op'[c] = op[c] /\ arg'[c] = arg[c] /\ got'[c] = Append(got[c], report)
          /\ got[c] \in Seq(Report) /\ report \in Report
      BY <1>0, <2>9 DEF ReadChunk, VtpmTypeOK, tpmVars
    <3>2. /\ Len(got'[c]) = Len(got[c]) + 1
          /\ \A k \in 1..Len(got'[c]) :
                got'[c][k] = IF k <= Len(got[c]) THEN got[c][k] ELSE report
      BY <3>1
    <3>3. ReadInv(c)'
      BY <1>0, <2>1, <3>1, <3>2, Numbers DEF CallInv, ReadInv
    <3>4. QED
      BY <1>0, <2>2, <3>1, <3>3 DEF CallInv, OpInv, FreshInv, SizeInv, SleepInv, ReturnInv
  <2>10. CASE ReadFull(c)
    <3>1. /\ pc[c] = "read" /\ pc'[c] = "return" /\ Calm /\ Len(got[c]) = Chunks
          /\ op'[c] = op[c] /\ arg'[c] = arg[c] /\ got'[c] = got[c]
      BY <1>0, <2>10 DEF ReadFull, Goto, VtpmTypeOK, tpmVars
    <3>2. ReturnInv(c)'
      BY <1>0, <2>1, <3>1 DEF CallInv, ReadInv, ReturnInv, Whole
    <3>3. QED
      BY <1>0, <2>2, <3>1, <3>2 DEF CallInv, OpInv, FreshInv, SizeInv, SleepInv, ReadInv
  <2>11. CASE Quote(c) \/ ReadPcrs(c) \/ ReadAll(c) \/ ExtendPcr(c)
    <3>1. /\ pc[c] \in {"quote", "pcrs", "extend"} /\ pc'[c] \in {"pcrs", "return"} /\ Calm
          /\ pc'[c] = "pcrs" => pc[c] # "extend"
          /\ op'[c] = op[c]
      BY <1>0, <2>11 DEF Quote, ReadPcrs, ReadAll, ExtendPcr, Goto, VtpmTypeOK, tpmVars
    <3>2. QED
      BY <1>0, <2>2, <3>1 DEF CallInv, OpInv, FreshInv, SizeInv, SleepInv, ReadInv, ReturnInv
  <2>12. QED
    BY <1>2, <2>3, <2>4, <2>5, <2>6, <2>7, <2>8, <2>9, <2>10, <2>11
    DEF Step, Busy, DataTooLong, Return, Die
<1>3. QED
    BY <1>1, <1>2

LEMMA RenewStep ==
    ASSUME ReportInv, VtpmTypeOK', Renew
    PROVE  RenewInv' /\ \A d \in Callers : CallInv(d)'
<1>0. VtpmTypeOK /\ RenewInv
    BY DEF ReportInv
<1>1. /\ stale /\ ~stale' /\ report'.data = index.cells
      /\ UNCHANGED <<pc, op, arg, slept, got, index, died>>
    BY DEF Renew, callVars
<1>2. RenewInv'
    BY <1>1 DEF RenewInv
<1>3. ASSUME NEW d \in Callers
      PROVE  CallInv(d)'
  <2>0. CallInv(d)
    BY DEF ReportInv
  <2>1. SleepInv(d)'
    BY <1>1, <2>0 DEF CallInv, SleepInv
  <2>2. ReadInv(d)'
    <3>1. SUFFICES ASSUME pc[d] = "read"
                   PROVE  op[d] # "data" /\ died /\ Len(got[d]) <= Chunks
      BY <1>1 DEF ReadInv
    <3>2. QED
      BY <1>1, <2>0, <3>1 DEF CallInv, ReadInv
  <2>3. QED
    BY <1>1, <2>0, <2>1, <2>2 DEF CallInv, OpInv, FreshInv, SizeInv, ReturnInv, Whole
<1>4. QED
    BY <1>2, <1>3

LEMMA TickStep ==
    ASSUME ReportInv, VtpmTypeOK', Tick
    PROVE  RenewInv' /\ \A d \in Callers : CallInv(d)'
<1>0. VtpmTypeOK /\ RenewInv
    BY DEF ReportInv
<1>1. /\ UNCHANGED <<pc, op, arg, got, index, report, stale, died>>
      /\ stale => due > 0
      /\ due' = IF stale THEN due - 1 ELSE due
      /\ \A d \in Callers : slept'[d] = IF pc[d] = "sleep" /\ slept[d] < Delay
                                        THEN slept[d] + 1 ELSE slept[d]
    BY DEF Tick
<1>2. RenewInv'
    BY <1>0, <1>1 DEF RenewInv
<1>3. ASSUME NEW d \in Callers
      PROVE  CallInv(d)'
  <2>0. CallInv(d)
    BY DEF ReportInv
  <2>1. SleepInv(d)'
    <3>1. due \in Nat /\ slept[d] \in Nat
      BY <1>0, Numbers DEF VtpmTypeOK
    <3>2. QED
      BY <1>1, <2>0, <3>1, Numbers DEF CallInv, SleepInv
  <2>2. ReadInv(d)' /\ ReturnInv(d)'
    BY <1>1, <2>0 DEF CallInv, ReadInv, ReturnInv, Whole
  <2>3. QED
    BY <1>1, <2>0, <2>1, <2>2 DEF CallInv, OpInv, FreshInv, SizeInv
<1>4. QED
    BY <1>2, <1>3

LEMMA StepReportInv == ReportInv /\ [Next]_vars => ReportInv'
<1> SUFFICES ASSUME ReportInv, [Next]_vars
             PROVE  ReportInv'
    OBVIOUS
<1>0. VtpmTypeOK' /\ VtpmTypeOK /\ RenewInv
    BY StepTypeOK DEF ReportInv
<1>1. CASE KernelExtend \/ UNCHANGED vars
  <2>1. UNCHANGED <<pc, op, arg, slept, got, index, report, stale, due, died>>
    BY <1>1 DEF KernelExtend, vars, callVars, tpmVars
  <2>2. RenewInv'
    BY <1>0, <2>1 DEF RenewInv
  <2>3. \A d \in Callers : CallInv(d)'
    <3>1. died' \in BOOLEAN
      BY <1>0 DEF VtpmTypeOK
    <3>2. QED
      BY <2>1, <3>1, OthersKeep
  <2>4. QED
    BY <1>0, <2>2, <2>3 DEF ReportInv
<1>2. QED
    BY <1>0, <1>1, CallerStep, RenewStep, TickStep DEF Next, ReportInv

\* What every report rests on: who holds the device, what the index holds at each
\* step of write_nv_index, and that the report is renewed before the sleep is over.
THEOREM ReportInvariant == Spec => []ReportInv
BY InitReportInv, StepReportInv, PTL DEF Spec

\* get_report_with_report_data returns one report, about the caller's data, for
\* any number of callers and pieces, whoever died before, as long as the
\* paravisor renews the report within the sleep.
THEOREM ReportsAreMine == Spec => []ReportIsMine
<1>1. ReportInv => ReportIsMine
    BY DEF ReportInv, CallInv, ReturnInv, ReportIsMine
<1>2. QED
    BY ReportInvariant, <1>1, PTL

\* get_report returns one report, not pieces of two, while no call has died.
THEOREM PlainReportsAreWhole == Spec => []PlainReportWhole
<1>1. ReportInv => PlainReportWhole
    BY DEF ReportInv, CallInv, ReturnInv, PlainReportWhole
<1>2. QED
    BY ReportInvariant, <1>1, PTL

-----------------------------------------------------------------------------
PartialPcrs == UNION {[S -> Nat] : S \in SUBSET (1..Slots)}

LEMMA PartialPcr ==
    ASSUME NEW p
    PROVE  p \in PartialPcrs <=> p \in [DOMAIN p -> Nat] /\ DOMAIN p \subseteq 1..Slots
<1>1. ASSUME p \in PartialPcrs
      PROVE  p \in [DOMAIN p -> Nat] /\ DOMAIN p \subseteq 1..Slots
  <2>1. PICK S \in SUBSET (1..Slots) : p \in [S -> Nat]
    BY <1>1 DEF PartialPcrs
  <2>2. DOMAIN p = S
    BY <2>1
  <2>3. QED
    BY <2>1, <2>2
<1>2. ASSUME p \in [DOMAIN p -> Nat], DOMAIN p \subseteq 1..Slots
      PROVE  p \in PartialPcrs
    BY <1>2 DEF PartialPcrs
<1>3. QED
    BY <1>1, <1>2

LEMMA EmptyPcrs == NoPcrs \in PartialPcrs /\ DOMAIN NoPcrs = {}
<1>1. DOMAIN NoPcrs = {} /\ NoPcrs \in [DOMAIN NoPcrs -> Nat]
    BY DEF NoPcrs
<1>2. QED
    BY <1>1, PartialPcr

\* A PCR that was read, or is still to be read, has not gone below what the quote
\* is signed over, and it is above when the kernel came between.
PcrsInv(c) ==
    /\ ~bank => DOMAIN read[c] = {}
    /\ bank =>
          /\ quoted[c] \in [1..Slots -> Nat]
          /\ \A s \in Left(c) : pcr[s] >= quoted[c][s]
          /\ \A s \in DOMAIN read[c] : read[c][s] >= quoted[c][s]
          /\ raced[c] <=> \/ \E s \in Left(c) : pcr[s] > quoted[c][s]
                          \/ \E s \in DOMAIN read[c] : read[c][s] > quoted[c][s]

QuoteCallInv(c) ==
    /\ pc[c] \in {"idle", "open", "quote"} => DOMAIN read[c] = {} /\ ~raced[c]
    /\ pc[c] = "pcrs" => PcrsInv(c)
    /\ pc[c] = "return" /\ op[c] = "quote" => (Verifies(c) <=> ~raced[c])

PcrTypes == read \in [Callers -> PartialPcrs] /\ quoted \in [Callers -> PartialPcrs]

QuoteInv == ReportInv /\ PcrTypes /\ \A c \in Callers : QuoteCallInv(c)

LEMMA InitQuoteInv == Init => QuoteInv
<1> SUFFICES ASSUME Init PROVE QuoteInv
    OBVIOUS
<1>1. PcrTypes
    BY EmptyPcrs DEF Init, PcrTypes
<1>2. ASSUME NEW c \in Callers
      PROVE  QuoteCallInv(c)
  <2>1. pc[c] = "idle" /\ read[c] = NoPcrs
    BY DEF Init
  <2>2. ~raced[c]
    BY DEF Init
  <2>3. QED
    BY <2>1, <2>2, EmptyPcrs DEF QuoteCallInv
<1>3. QED
    BY <1>1, <1>2, InitReportInv DEF QuoteInv

\* A call whose quote, PCRs and place stay keeps its invariant.
LEMMA QuoteKeeps ==
    ASSUME QuoteInv, NEW d \in Callers,
           pc'[d] = pc[d], op'[d] = op[d], read'[d] = read[d], quoted'[d] = quoted[d],
           raced'[d] = raced[d],
           pc[d] = "pcrs" => UNCHANGED <<pcr, bank>>
    PROVE  QuoteCallInv(d)'
<1>1. QuoteCallInv(d)
    BY DEF QuoteInv
<1>2. CASE pc[d] = "pcrs"
    BY <1>1, <1>2 DEF QuoteCallInv, PcrsInv, Left
<1>3. CASE pc[d] # "pcrs"
    BY <1>1, <1>3 DEF QuoteCallInv, Verifies
<1>4. QED
    BY <1>2, <1>3

LEMMA QuoteEnds ==
    ASSUME QuoteInv, NEW c \in Callers, Ends(c)
    PROVE  PcrTypes' /\ \A d \in Callers : QuoteCallInv(d)'
<1>0. VtpmTypeOK /\ PcrTypes
    BY DEF QuoteInv, ReportInv
<1>1. pc'[c] = "idle" /\ read'[c] = NoPcrs
    BY <1>0 DEF Ends, Goto, VtpmTypeOK, PcrTypes
<1>2. ~raced'[c]
    BY <1>0 DEF Ends, VtpmTypeOK
<1>3. QuoteCallInv(c)'
    BY <1>1, <1>2, EmptyPcrs DEF QuoteCallInv
<1>4. ASSUME NEW d \in Callers \ {c}
      PROVE  QuoteCallInv(d)'
    BY <1>0, QuoteKeeps DEF Ends, Goto, VtpmTypeOK, PcrTypes, tpmVars
<1>5. PcrTypes'
    BY <1>0, EmptyPcrs DEF Ends, PcrTypes
<1>6. QED
    BY <1>3, <1>4, <1>5

LEMMA QuoteStep ==
    ASSUME QuoteInv, NEW c \in Callers, Quote(c)
    PROVE  PcrTypes' /\ \A d \in Callers : QuoteCallInv(d)'
<1>0. VtpmTypeOK /\ PcrTypes /\ QuoteCallInv(c)
    BY DEF QuoteInv, ReportInv
<1>1. /\ pc[c] = "quote" /\ pc'[c] = "pcrs"
      /\ UNCHANGED <<read, raced, pcr, bank, op>>
      /\ quoted'[c] = IF bank THEN pcr ELSE NoPcrs
    BY <1>0 DEF Quote, Goto, VtpmTypeOK, PcrTypes, tpmVars
<1>2. DOMAIN read[c] = {} /\ ~raced[c]
    BY <1>0, <1>1 DEF QuoteCallInv
<1>3. pcr \in [1..Slots -> Nat] /\ pcr \in PartialPcrs
  <2>1. pcr \in [1..Slots -> Nat]
    BY <1>0 DEF VtpmTypeOK
  <2>2. QED
    BY <2>1, PartialPcr
<1>4. PcrsInv(c)'
  <2>1. ~raced'[c] /\ DOMAIN read'[c] = {}
    BY <1>1, <1>2
  <2>2. CASE bank
    <3>1. quoted'[c] = pcr /\ pcr' = pcr /\ bank'
      BY <1>1, <2>2
    <3>2. \A s \in 1..Slots : pcr[s] >= pcr[s] /\ ~(pcr[s] > pcr[s])
      BY <1>3
    <3>3. QED
      BY <1>3, <2>1, <3>1, <3>2 DEF PcrsInv, Left
  <2>3. CASE ~bank
    BY <1>1, <2>1, <2>3 DEF PcrsInv
  <2>4. QED
    BY <2>2, <2>3
<1>5. QuoteCallInv(c)'
    BY <1>1, <1>4 DEF QuoteCallInv
<1>6. ASSUME NEW d \in Callers \ {c}
      PROVE  QuoteCallInv(d)'
    BY <1>0, QuoteKeeps DEF Quote, Goto, VtpmTypeOK, PcrTypes, tpmVars
<1>7. PcrTypes'
    BY <1>0, <1>3, EmptyPcrs DEF Quote, PcrTypes
<1>8. QED
    BY <1>5, <1>6, <1>7

LEMMA ReadPcrsStep ==
    ASSUME QuoteInv, NEW c \in Callers, ReadPcrs(c)
    PROVE  PcrTypes' /\ \A d \in Callers : QuoteCallInv(d)'
<1>0. VtpmTypeOK /\ PcrTypes /\ QuoteCallInv(c)
    BY DEF QuoteInv, ReportInv
<1>1. /\ pc[c] = "pcrs"
      /\ UNCHANGED <<pc, op, quoted, raced, pcr, bank>>
    BY DEF ReadPcrs, tpmVars
<1>2. PcrsInv(c)
    BY <1>0, <1>1 DEF QuoteCallInv
<1> DEFINE Merged(T) == [s \in DOMAIN read[c] \union T |->
                             IF s \in T THEN pcr[s] ELSE read[c][s]]
<1>3. PICK T : /\ T \subseteq Left(c)
               /\ ~bank => T = {}
               /\ read' = [read EXCEPT ![c] = Merged(T)]
  <2>1. PICK T \in (IF bank THEN Upto(Batch, Left(c)) ELSE {{}}) :
            read' = [read EXCEPT ![c] = Merged(T)]
    BY DEF ReadPcrs
  <2>2. T \subseteq Left(c) /\ (~bank => T = {})
    BY <2>1 DEF Upto
  <2>3. QED
    BY <2>1, <2>2
<1>4. pcr \in [1..Slots -> Nat]
    BY <1>0 DEF VtpmTypeOK
<1>5. read[c] \in [DOMAIN read[c] -> Nat] /\ DOMAIN read[c] \subseteq 1..Slots
    BY <1>0, PartialPcr DEF PcrTypes
<1>6. T \subseteq 1..Slots /\ T \intersect DOMAIN read[c] = {}
    BY <1>3 DEF Left
<1>7. /\ DOMAIN Merged(T) = DOMAIN read[c] \union T
      /\ \A s \in T : Merged(T)[s] = pcr[s]
      /\ \A s \in DOMAIN read[c] : Merged(T)[s] = read[c][s]
    BY <1>6
<1>8. Merged(T) \in PartialPcrs
  <2>1. Merged(T) \in [DOMAIN read[c] \union T -> Nat]
    BY <1>4, <1>5, <1>6
  <2>2. QED
    BY <1>5, <1>6, <1>7, <2>1, PartialPcr
<1>9. read'[c] = Merged(T)
    BY <1>0, <1>3 DEF PcrTypes
<1> HIDE DEF Merged
<1>10. PcrsInv(c)'
  <2>1. CASE ~bank
    BY <1>1, <1>2, <1>3, <1>7, <1>9, <2>1 DEF PcrsInv
  <2>2. CASE bank
    <3>1. Left(c)' = Left(c) \ T
      BY <1>7, <1>9 DEF Left
    <3>2. /\ quoted[c] \in [1..Slots -> Nat]
          /\ \A s \in Left(c) : pcr[s] >= quoted[c][s]
          /\ \A s \in DOMAIN read[c] : read[c][s] >= quoted[c][s]
          /\ raced[c] <=> \/ \E s \in Left(c) : pcr[s] > quoted[c][s]
                          \/ \E s \in DOMAIN read[c] : read[c][s] > quoted[c][s]
      BY <1>2, <2>2 DEF PcrsInv
    <3>3. \A s \in DOMAIN read'[c] : read'[c][s] >= quoted[c][s]
      BY <1>3, <1>7, <1>9, <3>2
    <3>4. \A s \in Left(c)' : pcr[s] >= quoted[c][s]
      BY <3>1, <3>2
    <3>5. raced[c] <=> \/ \E s \in Left(c)' : pcr[s] > quoted[c][s]
                       \/ \E s \in DOMAIN read'[c] : read'[c][s] > quoted[c][s]
      BY <1>3, <1>7, <1>9, <3>1, <3>2
    <3>6. QED
      BY <1>1, <2>2, <3>2, <3>3, <3>4, <3>5 DEF PcrsInv
  <2>3. QED
    BY <2>1, <2>2
<1>11. QuoteCallInv(c)'
    BY <1>1, <1>10 DEF QuoteCallInv
<1>12. ASSUME NEW d \in Callers \ {c}
       PROVE  QuoteCallInv(d)'
    BY <1>0, <1>1, <1>3, QuoteKeeps DEF PcrTypes
<1>13. PcrTypes'
    BY <1>0, <1>1, <1>3, <1>8 DEF PcrTypes
<1>14. QED
    BY <1>11, <1>12, <1>13

LEMMA ReadAllStep ==
    ASSUME QuoteInv, NEW c \in Callers, ReadAll(c)
    PROVE  PcrTypes' /\ \A d \in Callers : QuoteCallInv(d)'
<1>0. VtpmTypeOK /\ PcrTypes /\ QuoteCallInv(c)
    BY DEF QuoteInv, ReportInv
<1>1. /\ pc[c] = "pcrs" /\ pc'[c] = "return" /\ Left(c) = {}
      /\ UNCHANGED <<op, read, quoted, raced, pcr, bank>>
    BY <1>0 DEF ReadAll, Goto, VtpmTypeOK, tpmVars
<1>2. read[c] \in [1..Slots -> Nat]
  <2>1. read[c] \in [DOMAIN read[c] -> Nat] /\ DOMAIN read[c] \subseteq 1..Slots
    BY <1>0, PartialPcr DEF PcrTypes
  <2>2. DOMAIN read[c] = 1..Slots
    BY <1>1, <2>1 DEF Left
  <2>3. QED
    BY <2>1, <2>2
<1>3. bank
  <2>1. DOMAIN read[c] # {}
    <3>1. 1 \in 1..Slots
      BY Numbers
    <3>2. QED
      BY <1>2, <3>1
  <2>2. QED
    BY <1>0, <1>1, <2>1 DEF QuoteCallInv, PcrsInv
<1>4. Verifies(c) <=> ~raced[c]
  <2>1. /\ quoted[c] \in [1..Slots -> Nat]
        /\ \A s \in 1..Slots : read[c][s] >= quoted[c][s]
        /\ raced[c] <=> \E s \in 1..Slots : read[c][s] > quoted[c][s]
    BY <1>0, <1>1, <1>2, <1>3 DEF QuoteCallInv, PcrsInv
  <2>2. (\A s \in 1..Slots : read[c][s] = quoted[c][s]) <=> read[c] = quoted[c]
    <3>1. /\ read[c] = [s \in 1..Slots |-> read[c][s]]
          /\ quoted[c] = [s \in 1..Slots |-> quoted[c][s]]
      BY <1>2, <2>1
    <3>2. QED
      BY <3>1, Zenon
  <2>3. (\A s \in 1..Slots : read[c][s] = quoted[c][s])
           <=> ~\E s \in 1..Slots : read[c][s] > quoted[c][s]
    <3>1. \A s \in 1..Slots : read[c][s] \in Nat /\ quoted[c][s] \in Nat
      BY <1>2, <2>1
    <3>2. QED
      BY <2>1, <3>1
  <2>4. QED
    BY <2>1, <2>2, <2>3 DEF Verifies
<1>5. QuoteCallInv(c)'
    BY <1>1, <1>4 DEF QuoteCallInv, Verifies
<1>6. ASSUME NEW d \in Callers \ {c}
      PROVE  QuoteCallInv(d)'
    BY <1>0, QuoteKeeps DEF ReadAll, Goto, VtpmTypeOK, tpmVars
<1>7. PcrTypes'
    BY <1>0, <1>1 DEF PcrTypes
<1>8. QED
    BY <1>5, <1>6, <1>7

LEMMA KernelExtendStep ==
    ASSUME QuoteInv, KernelExtend
    PROVE  PcrTypes' /\ \A d \in Callers : QuoteCallInv(d)'
<1>0. VtpmTypeOK /\ PcrTypes
    BY DEF QuoteInv, ReportInv
<1>1. UNCHANGED <<pc, op, read, quoted, bank>>
    BY DEF KernelExtend
<1>2. PICK s \in 1..Slots :
         /\ pcr' = [pcr EXCEPT ![s] = @ + 1]
         /\ raced' = [c \in Callers |-> raced[c] \/ (pc[c] = "pcrs" /\ s \in Left(c))]
    BY DEF KernelExtend
<1>3. pcr \in [1..Slots -> Nat]
    BY <1>0 DEF VtpmTypeOK
<1>4. /\ pcr'[s] = pcr[s] + 1
      /\ \A t \in 1..Slots \ {s} : pcr'[t] = pcr[t]
    BY <1>2, <1>3
<1>5. ASSUME NEW d \in Callers
      PROVE  QuoteCallInv(d)'
  <2>0. QuoteCallInv(d)
    BY DEF QuoteInv
  <2>1. raced'[d] <=> raced[d] \/ (pc[d] = "pcrs" /\ s \in Left(d))
    BY <1>2, Zenon
  <2>2. CASE pc[d] # "pcrs"
    BY <1>1, <2>0, <2>1, <2>2 DEF QuoteCallInv, Verifies
  <2>3. CASE pc[d] = "pcrs"
    <3>1. PcrsInv(d)
      BY <2>0, <2>3 DEF QuoteCallInv
    <3>2. CASE ~bank
      BY <1>1, <2>3, <3>1, <3>2 DEF QuoteCallInv, PcrsInv
    <3>3. CASE bank
      <4>1. /\ quoted[d] \in [1..Slots -> Nat]
            /\ \A t \in Left(d) : pcr[t] >= quoted[d][t]
            /\ \A t \in DOMAIN read[d] : read[d][t] >= quoted[d][t]
            /\ raced[d] <=> \/ \E t \in Left(d) : pcr[t] > quoted[d][t]
                            \/ \E t \in DOMAIN read[d] : read[d][t] > quoted[d][t]
        BY <3>1, <3>3 DEF PcrsInv
      <4>2. Left(d)' = Left(d) /\ Left(d) \subseteq 1..Slots
        BY <1>1 DEF Left
      <4>3. \A t \in Left(d) : pcr[t] \in Nat /\ quoted[d][t] \in Nat
        BY <1>3, <4>1, <4>2
      <4>4. \A t \in Left(d) : pcr'[t] >= quoted[d][t]
        BY <1>3, <1>4, <4>1, <4>2, <4>3
      <4>5. (\E t \in Left(d) : pcr'[t] > quoted[d][t])
               <=> (\E t \in Left(d) : pcr[t] > quoted[d][t]) \/ s \in Left(d)
        BY <1>3, <1>4, <4>1, <4>2, <4>3
      <4>6. raced'[d] <=> \/ \E t \in Left(d) : pcr'[t] > quoted[d][t]
                          \/ \E t \in DOMAIN read[d] : read[d][t] > quoted[d][t]
        BY <2>1, <2>3, <4>1, <4>5
      <4>7. PcrsInv(d)'
        BY <1>1, <3>3, <4>1, <4>2, <4>4, <4>6 DEF PcrsInv
      <4>8. QED
        BY <1>1, <2>3, <4>7 DEF QuoteCallInv
    <3>4. QED
      BY <3>2, <3>3
  <2>4. QED
    BY <2>2, <2>3
<1>6. PcrTypes'
    BY <1>0, <1>1 DEF PcrTypes
<1>7. QED
    BY <1>5, <1>6

LEMMA StepQuoteInv == QuoteInv /\ [Next]_vars => QuoteInv'
<1> SUFFICES ASSUME QuoteInv, [Next]_vars
             PROVE  QuoteInv'
    OBVIOUS
<1>0. ReportInv' /\ VtpmTypeOK /\ PcrTypes
    BY StepReportInv DEF QuoteInv, ReportInv
<1> SUFFICES PcrTypes' /\ \A d \in Callers : QuoteCallInv(d)'
    BY <1>0 DEF QuoteInv
<1>1. ASSUME UNCHANGED <<pc, op, read, quoted, raced, pcr, bank>>
      PROVE  PcrTypes' /\ \A d \in Callers : QuoteCallInv(d)'
    BY <1>0, <1>1, QuoteKeeps DEF PcrTypes
<1>2. CASE UNCHANGED vars \/ Renew \/ Tick
    BY <1>1, <1>2 DEF vars, callVars, tpmVars, Renew, Tick
<1>3. ASSUME NEW c \in Callers, Call(c) \/ Open(c)
      PROVE  PcrTypes' /\ \A d \in Callers : QuoteCallInv(d)'
  <2>1. /\ UNCHANGED <<read, quoted, raced, pcr, bank>>
        /\ pc[c] \in {"idle", "open"}
        /\ pc'[c] \in {"open", "read", "find", "quote", "extend"}
        /\ \A d \in Callers \ {c} : pc'[d] = pc[d] /\ op'[d] = op[d]
    BY <1>0, <1>3 DEF Call, Open, FirstStep, Goto, Ops, VtpmTypeOK, tpmVars
  <2>2. QuoteCallInv(c)'
    BY <2>1 DEF QuoteInv, QuoteCallInv
  <2>3. QED
    BY <1>0, <2>1, <2>2, QuoteKeeps DEF PcrTypes
<1>4. ASSUME NEW c \in Callers,
             FindIndex(c) \/ DeleteIndex(c) \/ CreateIndex(c) \/ NvWrite(c) \/ Wake(c)
             \/ ReadChunk(c) \/ ReadFull(c) \/ ExtendPcr(c)
      PROVE  PcrTypes' /\ \A d \in Callers : QuoteCallInv(d)'
  <2>1. /\ UNCHANGED <<read, quoted, raced, op>>
        /\ pc[c] \in {"find", "undefine", "define", "write", "sleep", "read", "extend"}
        /\ pc'[c] \in {"undefine", "define", "write", "sleep", "read", "return"}
        /\ \A d \in Callers \ {c} : pc'[d] = pc[d]
    BY <1>0, <1>4 DEF FindIndex, DeleteIndex, CreateIndex, NvWrite, Wake, ReadChunk, ReadFull,
                      ExtendPcr, Goto, VtpmTypeOK
  <2>2. OpInv(c)
    BY DEF QuoteInv, ReportInv, CallInv
  <2>3. QuoteCallInv(c)'
    BY <2>1, <2>2 DEF OpInv, QuoteCallInv
  <2>4. ASSUME NEW d \in Callers \ {c}
        PROVE  QuoteCallInv(d)'
    <3>1. pc[d] # "pcrs"
      BY <1>0, <2>1, Exclusive
    <3>2. QED
      BY <2>1, <3>1, QuoteKeeps
  <2>5. QED
    BY <1>0, <2>1, <2>3, <2>4 DEF PcrTypes
<1>5. QED
    BY <1>2, <1>3, <1>4, QuoteEnds, QuoteStep, ReadPcrsStep, ReadAllStep, KernelExtendStep
    DEF Next, Step, Busy, DataTooLong, Return, Die

\* A quote verifies exactly when the kernel did not extend a PCR between the quote
\* and the read of that PCR, for any number of PCRs, batches and callers
\* (get_quote, pcr::read_all, Quote::verify_pcrs).
THEOREM QuotesVerify == Spec => []QuoteVerifies
<1>1. QuoteInv => QuoteVerifies
    BY DEF QuoteInv, QuoteCallInv, QuoteVerifies
<1>2. Spec => []QuoteInv
    BY InitQuoteInv, StepQuoteInv, PTL DEF Spec
<1>3. QED
    BY <1>1, <1>2, PTL
=============================================================================
