---------------------------- MODULE StorageRate ----------------------------
(***************************************************************************)
(* The rates that storage agents report.  A local storage agent measures   *)
(* its device with iozone in a thread of its own and asks iostat for each  *)
(* ls_get_rate command.  A shared storage agent adds up the statistics     *)
(* files that the scanners of the file system (scannerd, one process per   *)
(* host) keep rewriting in the directory .ssa.                             *)
(***************************************************************************)
EXTENDS Integers, SequencesExt

CONSTANTS
    Scanners,       \* scanner processes, each with its own id
    Readers,        \* threads of the shared storage agent that read the files
    Osts,           \* number of object storage targets that a scanner measures
    Rounds,         \* m_iozone_max_threads: runs of iozone per target
    Rates,          \* rates that the tools print
    IostatOutputs,  \* what iostat prints
    ScanOutputs,    \* what iozone prints for a target, a subset of Outputs
    MaxScans,       \* bound: scans after the first one of each scanner, all together
    MaxMeasures,    \* bound: measurements of the local agent
    MaxReads        \* bound: sums of each reader

VARIABLES
    iozone,     \* the thread of the local agent: no, unused, new, measuring, storing,
                \* asleep or over
    flag,       \* iozone_thread_active of the local agent
    found,      \* the measurement that the thread is about to store, with what iozone printed
    local,      \* m_jbase of the local agent, potential and realtime rates
    measured,   \* the results of all measurements that ran to their end
    rateReply,  \* the last reply of the local agent
    dir,        \* whether the directory .ssa exists
    file,       \* the statistics file of each scanner
    scan,       \* the state of each scanner
    largest,    \* the largest rates that each scanner has put into its file
    reader,     \* the sums that the readers are computing
    shared,     \* m_jbase of the shared agent
    ssaUp       \* whether the process of the shared agent is up

localVars == <<iozone, flag, found, local, measured, rateReply>>
sharedVars == <<dir, file, scan, largest, reader, shared, ssaUp>>
rateVars == <<localVars, sharedVars>>

\* A tool prints a rate, something that is no number, or too few words.
Garbled == -1
TooShort == -2
Printed == Rates \cup {Garbled, TooShort}
Outputs == [1..Rounds -> [write : Printed, read : Printed]]
Parsed(x) == x \in Rates
Zero == [write |-> 0, read |-> 0]
\* A rate that was never stored, and a local variable that has no value.
NullRate == -3
AnyRate == -4
NoRate == [write |-> NullRate, read |-> NullRate]

NoneFound == [rates |-> NoRate, printed |-> <<>>]

-----------------------------------------------------------------------------
(* get_potential_bandwidth of the local agent and of the scanner *)

\* One run of the write test and one of the read test.  A read rate counts only if
\* it is above the write rate; the last such one stays.
Round(a, o) ==
    LET w == IF Parsed(o.write) /\ o.write > a.write THEN o.write ELSE a.write
    IN  CASE a.failed \/ o.write = TooShort -> [a EXCEPT !.failed = TRUE]
          [] o.read = TooShort -> [a EXCEPT !.failed = TRUE, !.write = w]
          [] OTHER -> [a EXCEPT !.write = w, !.read = IF Parsed(o.read) /\ o.read > w THEN o.read ELSE @]

Measure(from, out) ==
    FoldLeft(Round, [write |-> from.write, read |-> from.read, failed |-> FALSE], out)

Pair(a) == [write |-> a.write, read |-> a.read]

-----------------------------------------------------------------------------
(* The local agent *)

\* get_realtime_bandwidth: no output is -1.  What cannot be parsed leaves the local
\* variables without a value, and those are stored.
Realtime(o) ==
    IF o.read = TooShort THEN local.realtime
    ELSE [read |-> IF Parsed(o.read) THEN o.read ELSE AnyRate,
          write |-> IF Parsed(o.read) /\ Parsed(o.write) THEN o.write ELSE AnyRate]

\* do_init asks iostat once and, if that fails, measures nothing.  It starts the thread
\* first and sets the flag second.
LocalStart(o) ==
    /\ iozone = "no" /\ ~flag
    /\ iozone' = IF o.read = TooShort THEN "unused" ELSE "new"
    /\ local' = [local EXCEPT !.realtime = Realtime(o)]
    /\ UNCHANGED <<flag, found, measured, rateReply, sharedVars>>

LocalFlag ==
    /\ iozone \in {"new", "over"} /\ ~flag
    /\ flag' = TRUE
    /\ UNCHANGED <<iozone, found, local, measured, rateReply, sharedVars>>

\* The thread looks at the flag: one that is ahead of do_init ends at once.
IozoneLoop ==
    /\ iozone = "new" \/ (iozone = "asleep" /\ Cardinality(measured) < MaxMeasures)
    /\ iozone' = IF flag THEN "measuring" ELSE "over"
    /\ UNCHANGED <<flag, found, local, measured, rateReply, sharedVars>>

\* A measurement that fails leaves the rates as they are.
IozoneMeasure(out) ==
    /\ iozone = "measuring"
    /\ LET a == Measure(Zero, out) IN
       IF a.failed THEN iozone' = "asleep" /\ UNCHANGED <<found, measured>>
       ELSE iozone' = "storing" /\ found' = [rates |-> Pair(a), printed |-> out] /\ measured' = measured \cup {Pair(a)}
    /\ UNCHANGED <<flag, local, rateReply, sharedVars>>

\* The write rate is stored first.
IozoneStore ==
    /\ iozone = "storing"
    /\ IF local.potential.write # found.rates.write
       THEN local' = [local EXCEPT !.potential.write = found.rates.write] /\ UNCHANGED iozone
         /\ UNCHANGED found
       ELSE local' = [local EXCEPT !.potential = found.rates] /\ iozone' = "asleep"
         /\ found' = NoneFound
    /\ UNCHANGED <<flag, measured, rateReply, sharedVars>>

\* ls_get_rate and ls_estimate_total_rate
GetRate(o) ==
    /\ local' = [local EXCEPT !.realtime = Realtime(o)]
    /\ rateReply' = [cmd |-> "ls_get_rate", code |-> IF o.read = TooShort THEN -1 ELSE 0, rates |-> local'.realtime]
    /\ UNCHANGED <<iozone, flag, found, measured, sharedVars>>

EstimateTotal ==
    /\ rateReply' = [cmd |-> "ls_estimate_total_rate", code |-> 0, rates |-> local.potential]
    /\ UNCHANGED <<iozone, flag, found, local, measured, sharedVars>>

-----------------------------------------------------------------------------
(* The scanners *)

NewScan == [pc |-> "off", ost |-> 0, run |-> Zero, total |-> Zero, floor |-> 0, failed |-> FALSE, scans |-> 0]

SetScan(s, r) == scan' = [scan EXCEPT ![s] = r]

\* Scanner::Scanner makes the directory.
ScannerStart(s) ==
    /\ scan[s].pc = "off"
    /\ SetScan(s, [scan[s] EXCEPT !.pc = "probe"]) /\ dir' = TRUE
    /\ UNCHANGED <<localVars, file, largest, reader, shared, ssaUp>>

\* One target: the rates go on from those of the target before and are added to the
\* total.  A test that fails ends the scan, with the total as it is.
ProbeOst(s, out) ==
    /\ scan[s].pc = "probe"
    /\ LET a == Measure(scan[s].run, out) IN
       IF a.failed THEN SetScan(s, [scan[s] EXCEPT !.pc = "open", !.failed = TRUE])
       ELSE SetScan(s, [scan[s] EXCEPT !.ost = @ + 1, !.pc = IF scan[s].ost + 1 = Osts THEN "open" ELSE "probe",
                        !.run = Pair(a), !.floor = @ + Measure(Zero, out).write,
                        !.total = [write |-> @.write + a.write, read |-> @.read + a.read]])
    /\ UNCHANGED <<localVars, dir, file, largest, reader, shared, ssaUp>>

\* update_stats: open() empties the file, endl writes the first line, close() the
\* second.
StatsOpen(s) ==
    /\ scan[s].pc = "open" /\ SetScan(s, [NewScan EXCEPT !.pc = "line", !.total = scan[s].total, !.scans = scan[s].scans])
    /\ file' = [file EXCEPT ![s] = Zero]
    /\ UNCHANGED <<localVars, dir, largest, reader, shared, ssaUp>>

Larger(x, y) == IF x > y THEN x ELSE y

StatsLine(s) ==
    /\ scan[s].pc = "line" /\ SetScan(s, [scan[s] EXCEPT !.pc = "close"])
    /\ file' = [file EXCEPT ![s].write = scan[s].total.write]
    /\ largest' = [largest EXCEPT ![s].write = Larger(@, scan[s].total.write)]
    /\ UNCHANGED <<localVars, dir, reader, shared, ssaUp>>

StatsClose(s) ==
    /\ scan[s].pc = "close" /\ SetScan(s, [scan[s] EXCEPT !.pc = "sleep"])
    /\ file' = [file EXCEPT ![s].read = scan[s].total.read]
    /\ largest' = [largest EXCEPT ![s].read = Larger(@, scan[s].total.read)]
    /\ UNCHANGED <<localVars, dir, reader, shared, ssaUp>>

ScanAgain(s) ==
    /\ scan[s].pc = "sleep" /\ MapThenSumSet(LAMBDA n : scan[n].scans, Scanners) < MaxScans
    /\ SetScan(s, [NewScan EXCEPT !.pc = "probe", !.scans = scan[s].scans + 1])
    /\ UNCHANGED <<localVars, dir, file, largest, reader, shared, ssaUp>>

-----------------------------------------------------------------------------
(* scan_stats of the shared agent *)

Idle == [todo |-> {}, sum |-> Zero, kind |-> "none", sums |-> 0]

\* opendir(): without the directory readdir() is handed a null pointer.  The total
\* rates are summed by do_init, then by the iozone thread only; the current rates by
\* any command.
SumBegin(t, k) ==
    /\ ssaUp /\ reader[t].kind = "none" /\ reader[t].sums < MaxReads
    /\ k = "potential" => \A u \in Readers : reader[u].kind # "potential"
    /\ \/ ~dir /\ ssaUp' = FALSE /\ UNCHANGED reader
       \/ /\ dir /\ UNCHANGED ssaUp
          /\ reader' = [reader EXCEPT ![t] = [todo |-> {s \in Scanners : file[s] # NoRate}, sum |-> Zero,
                                              kind |-> k, sums |-> @.sums + 1]]
    /\ UNCHANGED <<localVars, dir, file, scan, largest, shared>>

Plus(a, b) == [write |-> a.write + b.write, read |-> a.read + b.read]

SumFileTwice(t, s) ==
    /\ ssaUp /\ reader[t].kind # "none" /\ s \in reader[t].todo
    /\ reader' = [reader EXCEPT ![t].sum = Plus(@, file[s]),
                                ![t].todo = IF reader[t].sum = Zero THEN @ ELSE @ \ {s}]
    /\ UNCHANGED <<localVars, dir, file, scan, largest, shared, ssaUp>>

SumFile(t, s) ==
    /\ ssaUp /\ reader[t].kind # "none" /\ s \in reader[t].todo
    /\ reader' = [reader EXCEPT ![t].sum = Plus(@, file[s]), ![t].todo = @ \ {s}]
    /\ UNCHANGED <<localVars, dir, file, scan, largest, shared, ssaUp>>

\* get_potential_bandwidth or get_realtime_bandwidth stores the sums.
SumStore(t) ==
    /\ ssaUp /\ reader[t].kind # "none" /\ reader[t].todo = {}
    /\ shared' = [shared EXCEPT ![reader[t].kind] = reader[t].sum]
    /\ reader' = [reader EXCEPT ![t].kind = "none", ![t].sum = Zero]
    /\ UNCHANGED <<localVars, dir, file, scan, largest, ssaUp>>

LocalInit ==
    /\ iozone = "no" /\ flag = FALSE
    /\ local = [potential |-> NoRate, realtime |-> NoRate]
    /\ found = NoneFound /\ measured = {}
    /\ rateReply = [cmd |-> "none", code |-> 0, rates |-> NoRate]

SharedInit ==
    /\ dir = FALSE /\ file = [s \in Scanners |-> NoRate]
    /\ scan = [s \in Scanners |-> NewScan] /\ largest = [s \in Scanners |-> Zero]
    /\ reader = [t \in Readers |-> Idle]
    /\ shared = [potential |-> Zero, realtime |-> Zero] /\ ssaUp = TRUE

RateInit == LocalInit /\ SharedInit

LocalNext ==
    \/ LocalFlag \/ IozoneLoop \/ IozoneStore
    \/ \E out \in Outputs : IozoneMeasure(out)
    \/ \E o \in IostatOutputs : LocalStart(o)
    \/ iozone # "no" /\ EstimateTotal
    \/ \E o \in IostatOutputs : iozone # "no" /\ GetRate(o)

SharedNext ==
    \/ \E s \in Scanners :
          \/ ScannerStart(s) \/ StatsOpen(s) \/ StatsLine(s) \/ StatsClose(s) \/ ScanAgain(s)
          \/ \E out \in ScanOutputs : ProbeOst(s, out)
    \/ \E t \in Readers :
          \/ SumStore(t)
          \/ \E s \in Scanners : SumFile(t, s)
          \/ \E k \in {"potential", "realtime"} : SumBegin(t, k)

-----------------------------------------------------------------------------
(* Properties *)

\* The rates of a measurement follow from what iozone printed.
MeasuredFrom(m) ==
    LET writes == {m.printed[i].write : i \in DOMAIN m.printed} \intersect Rates IN
    /\ \A w \in writes : w <= m.rates.write
    /\ m.rates.write \in writes \/ (writes = {} /\ m.rates.write = 0)
    /\ m.rates.read = 0 \/ \E i \in DOMAIN m.printed :
          /\ m.printed[i].read = m.rates.read
          /\ \A j \in 1..i : Parsed(m.printed[j].write) => m.printed[j].write < m.rates.read
    /\ \A i \in DOMAIN m.printed : TooShort \notin {m.printed[i].write, m.printed[i].read}

\* The rates that storages report were measured.  What ls_estimate_total_rate answers
\* is, for each of the two rates, null or the result of a measurement that ran to its
\* end, also between the two stores of the iozone thread.  A scan that ran to its end
\* has at least the sum of the rates of its targets, and the rates of a shared storage
\* never exceed what its scanners reported at most, although the files are emptied and
\* rewritten while they are added up.
RatesMeasured ==
    /\ iozone = "storing" => MeasuredFrom(found)
    /\ rateReply.cmd = "ls_estimate_total_rate" =>
          \A k \in {"write", "read"} :
              rateReply.rates[k] = NullRate \/ \E m \in measured : m[k] = rateReply.rates[k]
    /\ \A s \in Scanners :
          scan[s].pc = "open" /\ ~scan[s].failed => scan[s].total.write >= scan[s].floor
    /\ \A k \in {"potential", "realtime"}, r \in {"write", "read"} :
          shared[k][r] <= MapThenSumSet(LAMBDA s : largest[s][r], Scanners)
=============================================================================
