------------------------------- MODULE Logger -------------------------------
(***************************************************************************)
(* common/logger.cpp: the threads of several processes write to a console  *)
(* per process and to one file that the processes of a kind share, opened  *)
(* for appending.  A line is formatted before the mutex is taken; under it *)
(* the line goes to the console, then in two insertions to the stream      *)
(* buffer, which flush appends to the file in one write.                   *)
(***************************************************************************)
EXTENDS Naturals, Sequences, SequencesExt

CONSTANTS
    Process,
    Thread,       \* threads of a process
    LogLevel,     \* s_globalLogLevel of each process
    MaxCalls      \* bound: log calls, all together

LogLv == [kNone |-> 0, kDebug |-> 1, kInfo |-> 2, kWarn |-> 3, kError |-> 4]

ASSUME LoggerAssumption == LogLevel \in [Process -> DOMAIN LogLv] /\ MaxCalls \in Nat

VARIABLES
    pc,        \* where each thread is in write
    line,      \* the line it has formatted: process and number of the call
    mutex,     \* s_logMutex of each process: the threads that are inside
    console, buffer,   \* of each process
    file,
    calls      \* number of calls so far

vars == <<pc, line, mutex, console, buffer, file, calls>>

-----------------------------------------------------------------------------
\* detail::log: the level is checked, the line is formatted.
Log(p, t, level) ==
    /\ pc[p][t] = "idle" /\ calls < MaxCalls
    /\ calls' = calls + 1
    /\ IF LogLv[level] < LogLv[LogLevel[p]]
       THEN UNCHANGED <<pc, line>>
       ELSE /\ pc' = [pc EXCEPT ![p][t] = "lock"]
            /\ line' = [line EXCEPT ![p][t] = <<p, calls>>]
    /\ UNCHANGED <<mutex, console, buffer, file>>

\* No mutual exclusion.
FreeAlways(p) == TRUE

Free(p) == mutex[p] = {}

\* lock_guard, then printf.
Lock(p, t) ==
    /\ pc[p][t] = "lock" /\ Free(p)
    /\ mutex' = [mutex EXCEPT ![p] = @ \cup {t}]
    /\ pc' = [pc EXCEPT ![p][t] = "printf"]
    /\ UNCHANGED <<line, console, buffer, file, calls>>

Printf(p, t) ==
    /\ pc[p][t] = "printf"
    /\ console' = [console EXCEPT ![p] = Append(@, line[p][t])]
    /\ pc' = [pc EXCEPT ![p][t] = "text"]
    /\ UNCHANGED <<line, mutex, buffer, file, calls>>

\* s_logFile << line << '\n'
Insert(p, t) ==
    /\ pc[p][t] \in {"text", "newline"}
    /\ buffer' = [buffer EXCEPT ![p] = Append(@, <<line[p][t], pc[p][t]>>)]
    /\ pc' = [pc EXCEPT ![p][t] = IF pc[p][t] = "text" THEN "newline" ELSE "flush"]
    /\ UNCHANGED <<line, mutex, console, file, calls>>

\* s_logFile.flush() and the end of the lock_guard.
Flush(p, t) ==
    /\ pc[p][t] = "flush"
    /\ file' = file \o buffer[p]
    /\ buffer' = [buffer EXCEPT ![p] = <<>>]
    /\ mutex' = [mutex EXCEPT ![p] = @ \ {t}]
    /\ pc' = [pc EXCEPT ![p][t] = "idle"]
    /\ UNCHANGED <<line, console, calls>>

-----------------------------------------------------------------------------
Init ==
    /\ pc = [p \in Process |-> [t \in Thread |-> "idle"]]
    /\ line = [p \in Process |-> [t \in Thread |-> <<>>]]
    /\ mutex = [p \in Process |-> {}]
    /\ console = [p \in Process |-> <<>>]
    /\ buffer = [p \in Process |-> <<>>]
    /\ file = <<>> /\ calls = 0

Next ==
    \E p \in Process, t \in Thread :
        \/ \E level \in {"kDebug", "kInfo", "kWarn", "kError"} : Log(p, t, level)
        \/ Lock(p, t) \/ Printf(p, t) \/ Insert(p, t) \/ Flush(p, t)

Spec == Init /\ [][Next]_vars

-----------------------------------------------------------------------------
\* The line that a part of the file contributes to the log of process p.
TextOf(part, p) == IF part[1][1] = p /\ part[2] = "text" THEN <<part[1]>> ELSE <<>>

LinesIn(parts, p) == FlattenSeq([i \in DOMAIN parts |-> TextOf(parts[i], p)])

LinesInFile(p) == LinesIn(file, p)

(***************************************************************************)
(* The log can be read: every line in the shared file is whole, and the    *)
(* file shows the lines of a process in the order of its console, whatever *)
(* its other threads and the other processes log; at most the line that is *)
(* being written is missing.                                               *)
(***************************************************************************)
LogsAgree ==
    /\ \A i \in DOMAIN file : file[i][2] = "text" =>
         i + 1 \in DOMAIN file /\ file[i + 1] = <<file[i][1], "newline">>
    /\ \A p \in Process : /\ IsPrefix(LinesInFile(p), console[p])
                          /\ Len(console[p]) <= Len(LinesInFile(p)) + 1

=============================================================================
