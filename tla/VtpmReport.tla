----------------------------- MODULE VtpmReport -----------------------------
(***************************************************************************)
(* Reports and quotes of an Azure confidential VM                          *)
(* (crates/az-cvm-vtpm/src/vtpm/mod.rs, with the parts of tss-esapi it     *)
(* calls).  A caller writes its report data to one NV index of the vTPM,   *)
(* waits three seconds, and reads the report from another index, in        *)
(* pieces; the paravisor renews that report some time after a write.  A    *)
(* quote is signed by one command and the PCR values it covers are read by *)
(* others.  Every call opens /dev/tpm0, which one process has at a time.   *)
(* The kernel extends PCRs whenever it likes, and a call may end anywhere  *)
(* with an error or with the death of its process.                         *)
(***************************************************************************)
EXTENDS Naturals, Sequences, FiniteSets

CONSTANTS
    Callers,
    NoCaller,
    Cells,          \* what report data is made of
    BlankCell,      \* what an index holds before it is written
    Data,           \* report data that callers ask for
    MaxNvBuffer,    \* longest data one command can write
    Chunks,         \* commands it takes to read the report
    Delay,          \* ticks that a caller sleeps
    Latency,        \* ticks the paravisor takes at most to renew the report
    Slots,          \* PCRs are numbered 1..Slots
    Batch,          \* PCRs that one command reads at most
    MaxCalls,       \* bound on the calls
    MaxExtends      \* bound on what the kernel extends

ASSUME VtpmAssumption ==
    /\ NoCaller \notin Callers
    /\ BlankCell \in Cells
    /\ Data \subseteq Seq(Cells)
    /\ {MaxNvBuffer, Latency, MaxCalls, MaxExtends} \subseteq Nat
    /\ {Chunks, Delay, Slots, Batch} \subseteq Nat \ {0}

\* What the fixed sleep relies on: the paravisor is faster.
ASSUME PromptParavisor == Latency < Delay

VARIABLES
    dev,        \* who has /dev/tpm0 open
    pc,         \* what a caller does next
    op,         \* the function it called
    arg,        \* its report data
    slept,      \* ticks it has slept
    got,        \* pieces of the report it has read
    quoted,     \* PCR values its quote is signed over
    read,       \* PcrBank: the PCR values it has read
    raced,      \* history: the kernel extended a PCR between quote and read
    index,      \* INDEX_REPORT_DATA: [def, cells]
    report,     \* VTPM_HCL_REPORT: [data, epoch]
    stale, due, \* the report is to be renewed, within so many ticks
    pcr,        \* PCR values of the sha256 bank
    bank,       \* that bank is allocated
    calls, extends,
    died        \* a call ended early

callVars == <<pc, op, arg, slept, got, quoted, read, raced>>
tpmVars == <<index, report, stale, due, pcr, bank>>
vars == <<dev, callVars, tpmVars, calls, extends, died>>

Ops == {"report", "data", "quote", "extend"}

NoIndex == [def |-> FALSE, cells |-> <<>>]

NoPcrs == [s \in {} |-> 0]

Init ==
    /\ dev = NoCaller
    /\ pc = [c \in Callers |-> "idle"]
    /\ op = [c \in Callers |-> "report"]
    /\ arg = [c \in Callers |-> <<>>]
    /\ slept = [c \in Callers |-> 0]
    /\ got = [c \in Callers |-> <<>>]
    /\ quoted = [c \in Callers |-> NoPcrs]
    /\ read = [c \in Callers |-> NoPcrs]
    /\ raced = [c \in Callers |-> FALSE]
    /\ index \in {NoIndex} \union {[def |-> TRUE, cells |-> d] : d \in Data}
    /\ report = [data |-> index.cells, epoch |-> 0]
    /\ stale = FALSE /\ due = 0
    /\ pcr = [s \in 1..Slots |-> 0]
    /\ bank \in BOOLEAN
    /\ calls = 0 /\ extends = 0 /\ died = FALSE

Goto(c, l) == pc' = [pc EXCEPT ![c] = l]

\* A step of c that only talks to the TPM.
Local == UNCHANGED <<dev, calls, extends, died>>

Call(c) ==
    /\ pc[c] = "idle" /\ calls < MaxCalls
    /\ \E o \in Ops, d \in Data \union {<<>>} :
          /\ o = "data" <=> d \in Data
          /\ op' = [op EXCEPT ![c] = o]
          /\ arg' = [arg EXCEPT ![c] = d]
    /\ Goto(c, "open")
    /\ calls' = calls + 1
    /\ UNCHANGED <<dev, slept, got, quoted, read, raced, tpmVars, extends, died>>

\* A call of c ends and its locals are gone; a context it has is dropped, which
\* closes the device.
Ends(c) ==
    /\ Goto(c, "idle")
    /\ dev' = IF dev = c THEN NoCaller ELSE dev
    /\ op' = [op EXCEPT ![c] = "report"]
    /\ arg' = [arg EXCEPT ![c] = <<>>]
    /\ slept' = [slept EXCEPT ![c] = 0]
    /\ got' = [got EXCEPT ![c] = <<>>]
    /\ quoted' = [quoted EXCEPT ![c] = NoPcrs]
    /\ read' = [read EXCEPT ![c] = NoPcrs]
    /\ raced' = [raced EXCEPT ![c] = FALSE]
    /\ UNCHANGED <<tpmVars, calls, extends>>

\* Where a call goes once it has the device.
FirstStep(o) ==
    CASE o = "report" -> "read"
      [] o = "data" -> "find"
      [] o = "quote" -> "quote"
      [] o = "extend" -> "extend"

\* get_session_context and its copies.
Open(c) ==
    /\ pc[c] = "open" /\ dev = NoCaller
    /\ dev' = c
    /\ Goto(c, FirstStep(op[c]))
    /\ UNCHANGED <<op, arg, slept, got, quoted, read, raced, tpmVars, calls, extends, died>>

\* The device is busy for a second process.
Busy(c) ==
    /\ pc[c] = "open" /\ dev # NoCaller
    /\ Ends(c)
    /\ UNCHANGED died

\* Fault: an index of another size is written as it is.
FindIndexOfAnySize(c) ==
    /\ pc[c] = "find" /\ Len(arg[c]) <= MaxNvBuffer
    /\ Goto(c, IF index.def THEN "write" ELSE "define")
    /\ UNCHANGED <<op, arg, slept, got, quoted, read, raced, tpmVars>> /\ Local

\* write_nv_index: the index must exist and have the size of the data.
FindIndex(c) ==
    /\ pc[c] = "find" /\ Len(arg[c]) <= MaxNvBuffer
    /\ Goto(c, IF ~index.def THEN "define"
               ELSE IF Len(index.cells) # Len(arg[c]) THEN "undefine" ELSE "write")
    /\ UNCHANGED <<op, arg, slept, got, quoted, read, raced, tpmVars>> /\ Local

DataTooLong(c) ==
    /\ pc[c] = "find" /\ Len(arg[c]) > MaxNvBuffer
    /\ Ends(c)
    /\ UNCHANGED died

DeleteIndex(c) ==
    /\ pc[c] = "undefine"
    /\ index' = NoIndex
    /\ Goto(c, "define")
    /\ UNCHANGED <<op, arg, slept, got, quoted, read, raced, report, stale, due, pcr, bank>>
    /\ Local

CreateIndex(c) ==
    /\ pc[c] = "define"
    /\ index' = [def |-> TRUE, cells |-> [i \in 1..Len(arg[c]) |-> BlankCell]]
    /\ Goto(c, "write")
    /\ UNCHANGED <<op, arg, slept, got, quoted, read, raced, report, stale, due, pcr, bank>>
    /\ Local

\* nv_write at offset 0 leaves what lies behind the data alone.
Overwritten(cells, data) ==
    [i \in 1..Len(cells) |-> IF i <= Len(data) THEN data[i] ELSE cells[i]]

\* The paravisor notices the write.
NvWrite(c) ==
    /\ pc[c] = "write"
    /\ index' = [index EXCEPT !.cells = Overwritten(@, arg[c])]
    /\ stale' = TRUE /\ due' = Latency
    /\ Goto(c, "sleep")
    /\ UNCHANGED <<op, arg, slept, got, quoted, read, raced, report, pcr, bank>> /\ Local

\* Fault: the report is read without a delay.
WakeAtOnce(c) ==
    /\ pc[c] = "sleep"
    /\ Goto(c, "read")
    /\ UNCHANGED <<op, arg, slept, got, quoted, read, raced, tpmVars>> /\ Local

Wake(c) ==
    /\ pc[c] = "sleep" /\ slept[c] = Delay
    /\ Goto(c, "read")
    /\ UNCHANGED <<op, arg, slept, got, quoted, read, raced, tpmVars>> /\ Local

\* nv::read_full: one piece after the other.
ReadChunk(c) ==
    /\ pc[c] = "read" /\ Len(got[c]) < Chunks
    /\ got' = [got EXCEPT ![c] = Append(@, report)]
    /\ UNCHANGED <<pc, op, arg, slept, quoted, read, raced, tpmVars>> /\ Local

ReadFull(c) ==
    /\ pc[c] = "read" /\ Len(got[c]) = Chunks
    /\ Goto(c, "return")
    /\ UNCHANGED <<op, arg, slept, got, quoted, read, raced, tpmVars>> /\ Local

\* Fault: the context is dropped before the PCRs are read in another one.
QuoteAndRelease(c) ==
    /\ pc[c] = "quote"
    /\ quoted' = [quoted EXCEPT ![c] = IF bank THEN pcr ELSE NoPcrs]
    /\ Goto(c, "pcrs")
    /\ dev' = NoCaller
    /\ UNCHANGED <<op, arg, slept, got, read, raced, tpmVars, calls, extends, died>>

\* The TPM signs a digest of the selected PCRs; a bank it has not is left out.
Quote(c) ==
    /\ pc[c] = "quote"
    /\ quoted' = [quoted EXCEPT ![c] = IF bank THEN pcr ELSE NoPcrs]
    /\ Goto(c, "pcrs")
    /\ UNCHANGED <<op, arg, slept, got, read, raced, tpmVars>> /\ Local

\* PCRs of the selection that are still to be read.
Left(c) == 1..Slots \ DOMAIN read[c]

Upto(n, S) == {T \in SUBSET S : T # {} /\ Cardinality(T) <= n}

\* Fault: what was read is not taken off the selection, and the TPM returns the
\* first PCRs of it again.
ReadPcrsAgain(c) ==
    /\ pc[c] = "pcrs" /\ Left(c) # {} /\ bank
    /\ read' = [read EXCEPT ![c] = [s \in 1..Batch |-> pcr[s]]]
    /\ UNCHANGED <<pc, op, arg, slept, got, quoted, raced, tpmVars>> /\ Local

\* pcr::read_all: a command returns some of the PCRs asked for, or none when the
\* bank is not allocated, and the rest is asked for again.
ReadPcrs(c) ==
    /\ pc[c] = "pcrs" /\ Left(c) # {}
    /\ \E T \in (IF bank THEN Upto(Batch, Left(c)) ELSE {{}}) :
          read' = [read EXCEPT ![c] = [s \in DOMAIN @ \union T |->
                                          IF s \in T THEN pcr[s] ELSE @[s]]]
    /\ UNCHANGED <<pc, op, arg, slept, got, quoted, raced, tpmVars>> /\ Local

ReadAll(c) ==
    /\ pc[c] = "pcrs" /\ Left(c) = {}
    /\ Goto(c, "return")
    /\ UNCHANGED <<op, arg, slept, got, quoted, read, raced, tpmVars>> /\ Local

ExtendPcr(c) ==
    /\ pc[c] = "extend"
    /\ \E s \in 1..Slots : pcr' = [pcr EXCEPT ![s] = @ + 1]
    /\ Goto(c, "return")
    /\ UNCHANGED <<op, arg, slept, got, quoted, read, raced, index, report, stale, due, bank>>
    /\ Local

Return(c) ==
    /\ pc[c] = "return"
    /\ Ends(c)
    /\ UNCHANGED died

\* A command fails, or the process dies.
Die(c) ==
    /\ pc[c] # "idle"
    /\ Ends(c)
    /\ died' = TRUE

\* The paravisor makes a new report of what the index holds.
Renew ==
    /\ stale
    /\ report' = [data |-> index.cells, epoch |-> report.epoch + 1]
    /\ stale' = FALSE /\ due' = 0
    /\ UNCHANGED <<dev, callVars, index, pcr, bank, calls, extends, died>>

\* Time passes, but not beyond the moment the report is renewed.
Tick ==
    /\ stale => due > 0
    /\ \E c \in Callers : pc[c] = "sleep" /\ slept[c] < Delay
    /\ due' = IF stale THEN due - 1 ELSE due
    /\ slept' = [c \in Callers |-> IF pc[c] = "sleep" /\ slept[c] < Delay
                                   THEN slept[c] + 1 ELSE slept[c]]
    /\ UNCHANGED <<dev, pc, op, arg, got, quoted, read, raced, index, report, stale, pcr, bank,
                   calls, extends, died>>

\* The kernel extends a PCR without opening the device.
KernelExtend ==
    /\ extends < MaxExtends
    /\ \E s \in 1..Slots :
          /\ pcr' = [pcr EXCEPT ![s] = @ + 1]
          /\ raced' = [c \in Callers |-> raced[c] \/ (pc[c] = "pcrs" /\ s \in Left(c))]
    /\ extends' = extends + 1
    /\ UNCHANGED <<dev, pc, op, arg, slept, got, quoted, read, index, report, stale, due, bank,
                   calls, died>>

Step(c) ==
    \/ Open(c) \/ Busy(c)
    \/ FindIndex(c) \/ DataTooLong(c) \/ DeleteIndex(c) \/ CreateIndex(c) \/ NvWrite(c)
    \/ Wake(c) \/ ReadChunk(c) \/ ReadFull(c)
    \/ Quote(c) \/ ReadPcrs(c) \/ ReadAll(c)
    \/ ExtendPcr(c)
    \/ Return(c)

Next ==
    \/ \E c \in Callers : Call(c) \/ Step(c) \/ Die(c)
    \/ Renew \/ Tick \/ KernelExtend

Fairness == WF_vars(Tick) /\ WF_vars(Renew) /\ \A c \in Callers : WF_vars(Step(c))

Spec == Init /\ [][Next]_vars /\ Fairness

-----------------------------------------------------------------------------
(* Properties *)

Report == [data : Seq(Cells), epoch : Nat]

\* The state has its type, and a call past Open has the device to itself.
VtpmTypeOK ==
    /\ dev \in Callers \union {NoCaller}
    /\ pc \in [Callers -> {"idle", "open", "find", "undefine", "define", "write", "sleep",
                           "read", "quote", "pcrs", "extend", "return"}]
    /\ op \in [Callers -> Ops]
    /\ arg \in [Callers -> Data \union {<<>>}]
    /\ slept \in [Callers -> 0..Delay]
    /\ got \in [Callers -> Seq(Report)]
    /\ raced \in [Callers -> BOOLEAN]
    /\ index \in [def : BOOLEAN, cells : Seq(Cells)]
    /\ report \in Report
    /\ stale \in BOOLEAN /\ due \in 0..Latency
    /\ pcr \in [1..Slots -> Nat] /\ bank \in BOOLEAN
    /\ died \in BOOLEAN
    /\ \A c \in Callers : pc[c] \notin {"idle", "open"} <=> dev = c

Whole(pieces) == Len(pieces) = Chunks /\ \A j, k \in 1..Chunks : pieces[j] = pieces[k]

\* A report that get_report_with_report_data returns is one report, not pieces
\* of two, and it is about the caller's data: whatever size the index had, and
\* whatever callers before it wrote, deleted or left behind when they died.
ReportIsMine ==
    \A c \in Callers : pc[c] = "return" /\ op[c] = "data" =>
        Whole(got[c]) /\ \A k \in 1..Chunks : got[c][k].data = arg[c]

\* A report that get_report returns is one report too, unless some call died: a
\* caller that died after its write leaves a renewal behind that can fall between
\* two pieces.
PlainReportWhole ==
    \A c \in Callers : pc[c] = "return" /\ op[c] = "report" /\ ~died => Whole(got[c])

\* Quote::verify, for the nonce of the call: the PCR values that come with a quote
\* are those it is signed over.
Verifies(c) == read[c] = quoted[c]

\* A quote verifies exactly when the kernel did not extend a PCR after the quote
\* and before that PCR was read: neither reading in batches nor extend_pcr in
\* another process spoils it.
QuoteVerifies ==
    \A c \in Callers : pc[c] = "return" /\ op[c] = "quote" => (Verifies(c) <=> ~raced[c])

\* Every call returns, except a quote from a TPM without a sha256 bank: read_all
\* then asks for the same PCRs for ever.
CallsReturn ==
    \A c \in Callers :
        pc[c] # "idle" /\ (bank \/ op[c] # "quote") ~> pc[c] = "idle"
=============================================================================
