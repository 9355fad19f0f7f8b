---------------------------- MODULE LoggerProofs ----------------------------
(***************************************************************************)
(* Machine-checked proofs about Logger, for every set of processes and     *)
(* threads, every choice of log levels and every number of calls.          *)
(***************************************************************************)
EXTENDS Logger, SequenceLemmas

Line == Process \X Nat

\* Nothing before the first call of a thread.
MaybeLine == Line \cup {<<>>}

Part == Line \X {"text", "newline"}

\* The places of a thread that holds the mutex.
Inside == {"printf", "text", "newline", "flush"}

Places == Inside \cup {"idle", "lock"}

Typed ==
    /\ pc \in [Process -> [Thread -> Places]]
    /\ line \in [Process -> [Thread -> MaybeLine]]
    /\ mutex \in [Process -> SUBSET Thread]
    /\ console \in [Process -> Seq(Line)]
    /\ buffer \in [Process -> Seq(Part)]
    /\ file \in Seq(Part)
    /\ calls \in Nat

\* Every line in the file is whole.
WholeLines ==
    \A i \in DOMAIN file : file[i][2] = "text" =>
        i + 1 \in DOMAIN file /\ file[i + 1] = <<file[i][1], "newline">>

\* Under the mutex a thread is alone with console and buffer, and its place says
\* which part of its line has already been written.
WriterOK(p, t) ==
    /\ pc[p][t] # "idle" => line[p][t] \in Line /\ line[p][t][1] = p
    /\ pc[p][t] \in Inside => mutex[p] = {t}
    /\ pc[p][t] = "printf" => buffer[p] = <<>> /\ console[p] = LinesInFile(p)
    /\ pc[p][t] \in {"text", "newline", "flush"} =>
         console[p] = Append(LinesInFile(p), line[p][t])
    /\ pc[p][t] = "text" => buffer[p] = <<>>
    /\ pc[p][t] = "newline" => buffer[p] = << <<line[p][t], "text">> >>
    /\ pc[p][t] = "flush" =>
         buffer[p] = << <<line[p][t], "text">>, <<line[p][t], "newline">> >>

\* The mutex belongs to a thread inside, or the logs agree.
MutexOK(p) ==
    \/ mutex[p] = {} /\ buffer[p] = <<>> /\ console[p] = LinesInFile(p)
    \/ \E t \in Thread : pc[p][t] \in Inside

ProcessOK(p) == MutexOK(p) /\ \A t \in Thread : WriterOK(p, t)

IInv == Typed /\ WholeLines /\ \A p \in Process : ProcessOK(p)

-----------------------------------------------------------------------------
(***************************************************************************)
(* A text gives one line to its own process and none to another; a newline *)
(* gives none.                                                             *)
(***************************************************************************)
LEMMA TextOfProps ==
    ASSUME NEW x \in Line, NEW p \in Process
    PROVE  /\ TextOf(<<x, "text">>, p) = IF x[1] = p THEN <<x>> ELSE <<>>
           /\ TextOf(<<x, "newline">>, p) = <<>>
BY DEF TextOf

\* The lines a process can read in one part.
LEMMA TextOfTyped ==
    ASSUME NEW part \in Part, NEW p \in Process
    PROVE  TextOf(part, p) \in Seq(Line)
<1>1. part[1] \in Line
  BY DEF Part
<1>2. <<part[1]>> \in Seq(Line) /\ <<>> \in Seq(Line)
  BY <1>1
<1>3. QED
  BY <1>2 DEF TextOf

(***************************************************************************)
(* Appending a part to the file appends what it contributes to the lines.  *)
(***************************************************************************)
LEMMA LinesAppend ==
    ASSUME NEW parts \in Seq(Part), NEW part \in Part, NEW p \in Process
    PROVE  /\ LinesIn(parts, p) \in Seq(Line)
           /\ LinesIn(Append(parts, part), p) = Cat(LinesIn(parts, p), TextOf(part, p))
<1> DEFINE ss == [i \in DOMAIN parts |-> TextOf(parts[i], p)]
           more == Append(parts, part)
           tt == [i \in DOMAIN more |-> TextOf(more[i], p)]
           x == TextOf(part, p)
<1>1. /\ more \in Seq(Part) /\ Len(more) = Len(parts) + 1 /\ more[Len(parts) + 1] = part
      /\ \A i \in 1..Len(parts) : more[i] = parts[i]
      /\ DOMAIN parts = 1..Len(parts) /\ DOMAIN more = 1..Len(more) /\ Len(parts) \in Nat
  BY AppendProperties, LenProperties
<1>2. x \in Seq(Line)
  BY TextOfTyped
<1>3. ss \in Seq(Seq(Line)) /\ Len(ss) = Len(parts)
  <2>1. \A i \in 1..Len(parts) : TextOf(parts[i], p) \in Seq(Line)
    BY TextOfTyped
  <2>2. ss = [i \in 1..Len(parts) |-> TextOf(parts[i], p)]
    BY <1>1
  <2>3. QED
    BY <1>1, <2>1, <2>2
<1>4. tt = Append(ss, x)
  <2>1. /\ Append(ss, x) \in Seq(Seq(Line)) /\ Len(Append(ss, x)) = Len(parts) + 1
        /\ Append(ss, x)[Len(parts) + 1] = x
        /\ \A i \in 1..Len(parts) : Append(ss, x)[i] = ss[i]
    BY <1>2, <1>3, AppendProperties
  <2>2. Append(ss, x) = [i \in 1..(Len(parts) + 1) |-> Append(ss, x)[i]]
    BY <2>1, LenProperties
  <2>3. ASSUME NEW i \in 1..(Len(parts) + 1)
        PROVE  TextOf(more[i], p) = Append(ss, x)[i]
    <3>1. CASE i = Len(parts) + 1
      BY <1>1, <2>1, <3>1
    <3>2. CASE i # Len(parts) + 1
      <4>1. i \in 1..Len(parts)
        BY <1>1, <3>2
      <4>2. ss[i] = TextOf(parts[i], p)
        BY <1>1, <4>1
      <4>3. QED
        BY <1>1, <2>1, <4>1, <4>2
    <3>3. QED
      BY <3>1, <3>2
  <2>4. QED
    BY <1>1, <2>2, <2>3
<1>5. FlattenSeq(ss) \in Seq(Line)
  BY <1>3, FlattenTyped
<1>6. FlattenSeq(Append(ss, x)) = Cat(FlattenSeq(ss), x)
  BY <1>2, <1>3, FlattenAppend
<1>7. LinesIn(parts, p) = FlattenSeq(ss) /\ LinesIn(more, p) = FlattenSeq(tt)
  BY DEF LinesIn
<1>8. QED
  BY <1>4, <1>5, <1>6, <1>7

\* The lines it can read in a file.
LEMMA LinesTyped ==
    ASSUME NEW parts \in Seq(Part), NEW p \in Process
    PROVE  LinesIn(parts, p) \in Seq(Line)
<1> DEFINE ss == [i \in DOMAIN parts |-> TextOf(parts[i], p)]
<1>1. \A i \in 1..Len(parts) : TextOf(parts[i], p) \in Seq(Line)
  BY TextOfTyped
<1>2. ss = [i \in 1..Len(parts) |-> TextOf(parts[i], p)] /\ Len(parts) \in Nat
  OBVIOUS
<1>3. ss \in Seq(Seq(Line))
  BY <1>1, <1>2
<1>4. QED
  BY <1>3, FlattenTyped DEF LinesIn

WithLine(parts, x) == Append(Append(parts, <<x, "text">>), <<x, "newline">>)

(***************************************************************************)
(* Flush appends a text and its newline: the process of the line gets the  *)
(* line, the others get nothing.                                           *)
(***************************************************************************)
LEMMA LinesAfterFlush ==
    ASSUME NEW parts \in Seq(Part), NEW x \in Line, NEW p \in Process
    PROVE  LinesIn(WithLine(parts, x), p) = IF x[1] = p THEN Append(LinesIn(parts, p), x)
                                            ELSE LinesIn(parts, p)
<1> DEFINE a == <<x, "text">>
           b == <<x, "newline">>
           one == Append(parts, a)
           old == LinesIn(parts, p)
<1>1. a \in Part /\ b \in Part
  BY DEF Part
<1>2. one \in Seq(Part)
  BY <1>1, AppendProperties
<1>3. old \in Seq(Line) /\ LinesIn(one, p) \in Seq(Line)
  BY <1>1, <1>2, LinesAppend
<1>4. LinesIn(one, p) = Cat(old, TextOf(a, p))
  BY <1>1, LinesAppend
<1>5. LinesIn(Append(one, b), p) = Cat(LinesIn(one, p), TextOf(b, p))
  BY <1>1, <1>2, LinesAppend
<1>6. TextOf(b, p) = <<>> /\ TextOf(a, p) = IF x[1] = p THEN <<x>> ELSE <<>>
  BY TextOfProps
<1>7. LinesIn(WithLine(parts, x), p) = LinesIn(one, p)
  <2>1. LinesIn(Append(one, b), p) = LinesIn(one, p)
    BY <1>3, <1>5, <1>6, CatSeq
  <2>2. QED
    BY <2>1 DEF WithLine
<1>8. CASE x[1] = p
  <2>1. Cat(old, <<x>>) = Append(old, x)
    BY <1>3, AppendIsConcat DEF Cat
  <2>2. QED
    BY <1>4, <1>6, <1>7, <1>8, <2>1
<1>9. CASE x[1] # p
  <2>1. Cat(old, <<>>) = old
    BY <1>3, CatSeq
  <2>2. QED
    BY <1>4, <1>6, <1>7, <1>9, <2>1
<1>10. QED
  BY <1>8, <1>9

(***************************************************************************)
(* Appending a text with its newline keeps every line in the file whole.   *)
(***************************************************************************)
LEMMA WholeAfterFlush ==
    ASSUME NEW x \in Line, file \in Seq(Part), WholeLines,
           file' = file \o << <<x, "text">>, <<x, "newline">> >>
    PROVE  /\ WholeLines'
           /\ file' \in Seq(Part)
           /\ file' = WithLine(file, x)
<1> DEFINE a == <<x, "text">>
           b == <<x, "newline">>
           n == Len(file)
<1>1. a \in Part /\ b \in Part /\ n \in Nat /\ DOMAIN file = 1..n
  BY DEF Part
<1>2. /\ Append(file, a) \in Seq(Part) /\ Len(Append(file, a)) = n + 1
      /\ Append(file, a)[n + 1] = a
      /\ \A i \in 1..n : Append(file, a)[i] = file[i]
  BY <1>1, AppendProperties
<1>3. file' = Append(Append(file, a), b)
  <2>1. <<a>> \in Seq(Part) /\ <<b>> \in Seq(Part) /\ <<a>> \o <<b>> = <<a, b>>
    <3> HIDE DEF a, b
    <3>1. <<a>> \in Seq(Part) /\ <<b>> \in Seq(Part)
      BY <1>1
    <3>2. <<a>> \o <<b>> = <<a, b>>
      BY <1>1, ConcatTwo
    <3>3. QED
      BY <3>1, <3>2
  <2>2. Append(file, a) = file \o <<a>>
    BY <1>1, AppendIsConcat
  <2>3. Append(Append(file, a), b) = (file \o <<a>>) \o <<b>>
    BY <1>1, <1>2, <2>2, AppendIsConcat
  <2>4. (file \o <<a>>) \o <<b>> = file \o (<<a>> \o <<b>>)
    BY <2>1, ConcatAssociative
  <2>5. QED
    BY <2>1, <2>3, <2>4
<1>4. /\ file' \in Seq(Part) /\ Len(file') = n + 2 /\ file'[n + 2] = b /\ file'[n + 1] = a
      /\ \A i \in 1..n : file'[i] = file[i]
  BY <1>1, <1>2, <1>3, AppendProperties
<1>5. DOMAIN file' = 1..(n + 2)
  BY <1>4
<1>6. ASSUME NEW i \in 1..(n + 2), file'[i][2] = "text"
      PROVE  i + 1 \in 1..(n + 2) /\ file'[i + 1] = <<file'[i][1], "newline">>
  <2>1. CASE i \in 1..n
    <3>1. file[i][2] = "text"
      BY <1>4, <1>6, <2>1
    <3>2. i + 1 \in 1..n /\ file[i + 1] = <<file[i][1], "newline">>
      BY <1>1, <2>1, <3>1 DEF WholeLines
    <3>3. QED
      BY <1>1, <1>4, <2>1, <3>2
  <2>2. CASE i = n + 1
    BY <1>1, <1>4, <2>2
  <2>3. CASE i = n + 2
    BY <1>4, <1>6, <2>3
  <2>4. QED
    BY <1>1, <2>1, <2>2, <2>3
<1>7. QED
  BY <1>3, <1>4, <1>5, <1>6 DEF WholeLines, WithLine

-----------------------------------------------------------------------------
(***************************************************************************)
(* One thread of one process changes.                                      *)
(***************************************************************************)
LEMMA SetPlace ==
    ASSUME NEW A, NEW B, NEW C, NEW f \in [A -> [B -> C]], NEW a \in A, NEW b \in B, NEW c \in C
    PROVE  /\ [f EXCEPT ![a][b] = c] \in [A -> [B -> C]]
           /\ [f EXCEPT ![a][b] = c][a][b] = c
           /\ \A y \in B \ {b} : [f EXCEPT ![a][b] = c][a][y] = f[a][y]
           /\ \A x \in A \ {a} : [f EXCEPT ![a][b] = c][x] = f[x]
OBVIOUS

(***************************************************************************)
(* Before the first call the invariant holds.                              *)
(***************************************************************************)
LEMMA InitIInv == Init => IInv
<1> SUFFICES ASSUME Init
             PROVE  IInv
  OBVIOUS
<1>1. Typed
  BY DEF Init, Typed, Places, MaybeLine
<1>2. WholeLines
  BY DEF Init, WholeLines
<1>3. ASSUME NEW p \in Process
      PROVE  ProcessOK(p)
  <2>1. mutex[p] = {} /\ buffer[p] = <<>> /\ console[p] = <<>> /\ file = <<>>
    BY DEF Init
  <2>2. LinesInFile(p) = <<>>
    <3>1. [i \in DOMAIN file |-> TextOf(file[i], p)] = <<>>
      BY <2>1
    <3>2. QED
      BY <3>1, FlattenEmpty DEF LinesInFile, LinesIn
  <2>3. ASSUME NEW t \in Thread
        PROVE  WriterOK(p, t)
    BY DEF Init, WriterOK, Inside
  <2>4. QED
    BY <2>1, <2>2, <2>3 DEF ProcessOK, MutexOK
<1>4. QED
  BY <1>1, <1>2, <1>3 DEF IInv

(***************************************************************************)
(* Only process p moves, and nobody else's lines in the file change.       *)
(***************************************************************************)
LEMMA OneProcess ==
    ASSUME IInv, NEW p \in Process, Typed', WholeLines', ProcessOK(p)',
           \A r \in Process \ {p} :
             /\ pc'[r] = pc[r] /\ line'[r] = line[r] /\ mutex'[r] = mutex[r]
             /\ console'[r] = console[r] /\ buffer'[r] = buffer[r]
             /\ LinesInFile(r)' = LinesInFile(r)
    PROVE  IInv'
<1>1. ASSUME NEW r \in Process \ {p}
      PROVE  ProcessOK(r)'
  <2>1. ProcessOK(r)
    BY DEF IInv
  <2>2. MutexOK(r)'
    BY <2>1 DEF ProcessOK, MutexOK
  <2>3. ASSUME NEW t \in Thread
        PROVE  WriterOK(r, t)'
    BY <2>1 DEF ProcessOK, WriterOK
  <2>4. QED
    BY <2>2, <2>3 DEF ProcessOK
<1>2. QED
  BY <1>1 DEF IInv

(***************************************************************************)
(* A thread that is inside is alone there.                                 *)
(***************************************************************************)
LEMMA Alone ==
    ASSUME NEW p \in Process, ProcessOK(p), NEW t \in Thread,
           pc[p][t] \in Inside \/ mutex[p] = {}
    PROVE  \A u \in Thread \ {t} : pc[p][u] \notin Inside
BY DEF ProcessOK, WriterOK

(***************************************************************************)
(* A thread that is outside and does not move cares only for its line.     *)
(***************************************************************************)
LEMMA OutsideOK ==
    ASSUME NEW p \in Process, NEW u \in Thread, WriterOK(p, u), pc[p][u] \notin Inside,
           pc'[p][u] = pc[p][u], line'[p][u] = line[p][u]
    PROVE  WriterOK(p, u)'
BY DEF WriterOK, Inside

(***************************************************************************)
(* A call formats its line outside the mutex, or is below the level.       *)
(***************************************************************************)
LEMMA LogIInv ==
    ASSUME IInv, NEW p \in Process, NEW t \in Thread, NEW level, Log(p, t, level)
    PROVE  IInv'
<1>1. Typed /\ WholeLines /\ ProcessOK(p) /\ WriterOK(p, t) /\ MutexOK(p)
  BY DEF IInv, ProcessOK
<1>2. /\ pc[p][t] = "idle" /\ calls' = calls + 1
      /\ UNCHANGED <<mutex, console, buffer, file>>
      /\ \/ UNCHANGED <<pc, line>>
         \/ /\ pc' = [pc EXCEPT ![p][t] = "lock"]
            /\ line' = [line EXCEPT ![p][t] = <<p, calls>>]
  BY DEF Log
<1>3. <<p, calls>> \in Line
  BY <1>1 DEF Typed, Line
<1>4. Typed'
  <2>1. calls' \in Nat
    BY <1>1, <1>2 DEF Typed
  <2>2. pc' \in [Process -> [Thread -> Places]]
    <3>1. "lock" \in Places /\ pc \in [Process -> [Thread -> Places]]
      BY <1>1 DEF Typed, Places
    <3>2. [pc EXCEPT ![p][t] = "lock"] \in [Process -> [Thread -> Places]]
      BY <3>1, SetPlace
    <3>3. QED
      BY <1>2, <3>1, <3>2
  <2>3. line' \in [Process -> [Thread -> MaybeLine]]
    <3>1. <<p, calls>> \in MaybeLine /\ line \in [Process -> [Thread -> MaybeLine]]
      BY <1>1, <1>3 DEF Typed, MaybeLine
    <3>2. [line EXCEPT ![p][t] = <<p, calls>>] \in [Process -> [Thread -> MaybeLine]]
      BY <3>1, SetPlace
    <3>3. QED
      BY <1>2, <3>1, <3>2
  <2>4. QED
    BY <1>1, <1>2, <2>1, <2>2, <2>3 DEF Typed
<1>5. WholeLines' /\ \A r \in Process : LinesInFile(r)' = LinesInFile(r)
  BY <1>1, <1>2 DEF WholeLines, LinesInFile
<1>6. MutexOK(p)'
  <2>1. \A u \in Thread : pc[p][u] \in Inside => pc'[p][u] = pc[p][u]
    BY <1>1, <1>2 DEF Typed, Inside
  <2>2. QED
    BY <1>1, <1>2, <1>5, <2>1 DEF MutexOK
<1>7. ASSUME NEW u \in Thread
      PROVE  WriterOK(p, u)'
  <2>1. WriterOK(p, u)
    BY <1>1 DEF ProcessOK
  <2>2. CASE pc'[p][u] = pc[p][u] /\ line'[p][u] = line[p][u]
    BY <1>2, <1>5, <2>1, <2>2 DEF WriterOK
  <2>3. CASE pc'[p][u] = "lock" /\ line'[p][u] = <<p, calls>>
    BY <1>3, <2>3 DEF WriterOK, Inside
  <2>4. QED
    BY <1>1, <1>2, <2>2, <2>3 DEF Typed
<1>8. \A r \in Process \ {p} :
        /\ pc'[r] = pc[r] /\ line'[r] = line[r] /\ mutex'[r] = mutex[r]
        /\ console'[r] = console[r] /\ buffer'[r] = buffer[r]
        /\ LinesInFile(r)' = LinesInFile(r)
  BY <1>1, <1>2, <1>5 DEF Typed
<1>9. QED
  BY <1>4, <1>5, <1>6, <1>7, <1>8, OneProcess DEF ProcessOK

(***************************************************************************)
(* A step under the mutex, or one that takes it: what remains to be shown  *)
(* is about the thread that moves.                                         *)
(***************************************************************************)
LEMMA StepInside ==
    ASSUME IInv, NEW p \in Process, NEW t \in Thread, NEW x \in Places,
           pc[p][t] \in Inside \/ mutex[p] = {},
           pc' = [pc EXCEPT ![p][t] = x], line' = line, calls' = calls,
           mutex' \in [Process -> SUBSET Thread], console' \in [Process -> Seq(Line)],
           buffer' \in [Process -> Seq(Part)], file' \in Seq(Part),
           WholeLines', MutexOK(p)', WriterOK(p, t)',
           \A r \in Process \ {p} :
             /\ mutex'[r] = mutex[r] /\ console'[r] = console[r] /\ buffer'[r] = buffer[r]
             /\ LinesInFile(r)' = LinesInFile(r)
    PROVE  IInv'
<1>1. Typed /\ ProcessOK(p)
  BY DEF IInv
<1>2. /\ pc' \in [Process -> [Thread -> Places]]
      /\ \A u \in Thread \ {t} : pc'[p][u] = pc[p][u]
      /\ \A r \in Process \ {p} : pc'[r] = pc[r]
  <2>1. pc \in [Process -> [Thread -> Places]]
    BY <1>1 DEF Typed
  <2>2. QED
    BY <2>1, SetPlace
<1>3. Typed'
  BY <1>1, <1>2 DEF Typed
<1>4. ASSUME NEW u \in Thread \ {t}
      PROVE  WriterOK(p, u)'
  <2>1. WriterOK(p, u)
    BY <1>1 DEF ProcessOK
  <2>2. pc[p][u] \notin Inside
    BY <1>1, Alone
  <2>3. QED
    BY <1>2, <2>1, <2>2, OutsideOK
<1>5. ProcessOK(p)'
  BY <1>4 DEF ProcessOK
<1>6. \A r \in Process \ {p} :
        /\ pc'[r] = pc[r] /\ line'[r] = line[r] /\ mutex'[r] = mutex[r]
        /\ console'[r] = console[r] /\ buffer'[r] = buffer[r]
        /\ LinesInFile(r)' = LinesInFile(r)
  BY <1>2
<1>7. QED
  BY <1>3, <1>5, <1>6, OneProcess

(***************************************************************************)
(* The mutex is free and the logs agree: the thread is alone inside.       *)
(***************************************************************************)
LEMMA LockIInv ==
    ASSUME IInv, NEW p \in Process, NEW t \in Thread, Lock(p, t)
    PROVE  IInv'
<1>1. Typed /\ WholeLines /\ ProcessOK(p) /\ WriterOK(p, t) /\ MutexOK(p)
  BY DEF IInv, ProcessOK
<1>2. /\ pc[p][t] = "lock" /\ mutex[p] = {}
      /\ mutex' = [mutex EXCEPT ![p] = mutex[p] \cup {t}]
      /\ pc' = [pc EXCEPT ![p][t] = "printf"]
      /\ line' = line /\ console' = console /\ buffer' = buffer
      /\ file' = file /\ calls' = calls
  BY DEF Lock, Free
<1>3. "printf" \in Places /\ "printf" \in Inside
  BY DEF Places, Inside
<1>4. pc'[p][t] = "printf" /\ mutex'[p] = {t}
  BY <1>1, <1>2, <1>3, SetPlace DEF Typed
<1>5. WholeLines' /\ \A r \in Process : LinesInFile(r)' = LinesInFile(r)
  BY <1>1, <1>2 DEF WholeLines, LinesInFile
<1>6. buffer[p] = <<>> /\ console[p] = LinesInFile(p)
  BY <1>1, <1>2 DEF MutexOK, ProcessOK, WriterOK
<1>7. WriterOK(p, t)'
  BY <1>1, <1>2, <1>4, <1>5, <1>6 DEF WriterOK
<1>8. MutexOK(p)'
  BY <1>3, <1>4 DEF MutexOK
<1>9. /\ mutex' \in [Process -> SUBSET Thread]
      /\ \A r \in Process \ {p} : mutex'[r] = mutex[r]
  BY <1>1, <1>2 DEF Typed
<1>10. QED
  BY <1>1, <1>2, <1>3, <1>5, <1>7, <1>8, <1>9, StepInside DEF Typed

(***************************************************************************)
(* The console shows the line first.                                       *)
(***************************************************************************)
LEMMA PrintfIInv ==
    ASSUME IInv, NEW p \in Process, NEW t \in Thread, Printf(p, t)
    PROVE  IInv'
<1>1. Typed /\ WholeLines /\ WriterOK(p, t)
  BY DEF IInv, ProcessOK
<1>2. /\ pc[p][t] = "printf"
      /\ console' = [console EXCEPT ![p] = Append(console[p], line[p][t])]
      /\ pc' = [pc EXCEPT ![p][t] = "text"]
      /\ line' = line /\ mutex' = mutex /\ buffer' = buffer
      /\ file' = file /\ calls' = calls
  BY DEF Printf
<1>3. "text" \in Places /\ "text" \in Inside /\ "printf" \in Inside
  BY DEF Places, Inside
<1>4. /\ line[p][t] \in Line /\ line[p][t][1] = p
      /\ mutex[p] = {t} /\ buffer[p] = <<>> /\ console[p] = LinesInFile(p)
  BY <1>1, <1>2, <1>3 DEF WriterOK
<1>5. WholeLines' /\ \A r \in Process : LinesInFile(r)' = LinesInFile(r)
  BY <1>1, <1>2 DEF WholeLines, LinesInFile
<1>6. /\ console' \in [Process -> Seq(Line)]
      /\ console'[p] = Append(LinesInFile(p), line[p][t])
      /\ \A r \in Process \ {p} : console'[r] = console[r]
  <2>1. console \in [Process -> Seq(Line)]
    BY <1>1 DEF Typed
  <2>2. Append(console[p], line[p][t]) \in Seq(Line)
    BY <1>4, <2>1, AppendProperties
  <2>3. QED
    BY <1>2, <1>4, <2>1, <2>2
<1>7. pc'[p][t] = "text"
  BY <1>1, <1>2, <1>3, SetPlace DEF Typed
<1>8. WriterOK(p, t)'
  BY <1>2, <1>4, <1>5, <1>6, <1>7 DEF WriterOK
<1>9. MutexOK(p)'
  BY <1>3, <1>7 DEF MutexOK
<1>10. QED
  BY <1>1, <1>2, <1>3, <1>5, <1>6, <1>8, <1>9, StepInside DEF Typed

(***************************************************************************)
(* The stream buffer gets the text, then the newline, of the same line.    *)
(***************************************************************************)
LEMMA InsertIInv ==
    ASSUME IInv, NEW p \in Process, NEW t \in Thread, Insert(p, t)
    PROVE  IInv'
<1> DEFINE x == line[p][t]
           next == IF pc[p][t] = "text" THEN "newline" ELSE "flush"
<1>1. Typed /\ WholeLines /\ WriterOK(p, t)
  BY DEF IInv, ProcessOK
<1>2. /\ pc[p][t] \in {"text", "newline"}
      /\ buffer' = [buffer EXCEPT ![p] = Append(buffer[p], <<x, pc[p][t]>>)]
      /\ pc' = [pc EXCEPT ![p][t] = next]
      /\ line' = line /\ mutex' = mutex /\ console' = console
      /\ file' = file /\ calls' = calls
  BY DEF Insert
<1>3. pc[p][t] \in Inside /\ next \in Places /\ next \in Inside
  BY <1>2 DEF Places, Inside
<1>4. /\ x \in Line /\ x[1] = p /\ mutex[p] = {t}
      /\ console[p] = Append(LinesInFile(p), x)
  BY <1>1, <1>2, <1>3 DEF WriterOK
<1>5. WholeLines' /\ \A r \in Process : LinesInFile(r)' = LinesInFile(r)
  BY <1>1, <1>2 DEF WholeLines, LinesInFile
<1>6. <<x, pc[p][t]>> \in Part
  BY <1>2, <1>4 DEF Part
<1>7. /\ buffer' \in [Process -> Seq(Part)]
      /\ buffer'[p] = Append(buffer[p], <<x, pc[p][t]>>)
      /\ \A r \in Process \ {p} : buffer'[r] = buffer[r]
  <2>1. buffer \in [Process -> Seq(Part)]
    BY <1>1 DEF Typed
  <2>2. Append(buffer[p], <<x, pc[p][t]>>) \in Seq(Part)
    BY <1>6, <2>1, AppendProperties
  <2>3. QED
    BY <1>2, <2>1, <2>2
<1>8. pc'[p][t] = next
  BY <1>1, <1>2, <1>3, SetPlace DEF Typed
<1>9. WriterOK(p, t)'
  <2>1. CASE pc[p][t] = "text"
    <3>1. buffer[p] = <<>>
      BY <1>1, <2>1 DEF WriterOK
    <3>2. buffer'[p] = << <<x, "text">> >>
      BY <1>7, <2>1, <3>1
    <3>3. pc'[p][t] = "newline"
      BY <1>8, <2>1
    <3>4. QED
      BY <1>2, <1>4, <1>5, <3>2, <3>3 DEF WriterOK
  <2>2. CASE pc[p][t] = "newline"
    <3>1. buffer[p] = << <<x, "text">> >>
      BY <1>1, <2>2 DEF WriterOK
    <3>2. buffer'[p] = << <<x, "text">>, <<x, "newline">> >>
      <4>1. <<x, "text">> \in Part /\ <<x, "newline">> \in Part
        BY <1>4 DEF Part
      <4>2. QED
        BY <1>7, <2>2, <3>1, <4>1, AppendToOne
    <3>3. pc'[p][t] = "flush"
      BY <1>8, <2>2
    <3>4. QED
      BY <1>2, <1>4, <1>5, <3>2, <3>3 DEF WriterOK
  <2>3. QED
    BY <1>2, <2>1, <2>2
<1>10. MutexOK(p)'
  BY <1>3, <1>8 DEF MutexOK
<1>11. QED
  BY <1>1, <1>2, <1>3, <1>5, <1>7, <1>9, <1>10, StepInside DEF Typed

(***************************************************************************)
(* The file gets the whole line, and the logs agree again when the mutex   *)
(* is released.                                                            *)
(***************************************************************************)
LEMMA FlushIInv ==
    ASSUME IInv, NEW p \in Process, NEW t \in Thread, Flush(p, t)
    PROVE  IInv'
<1> DEFINE x == line[p][t]
<1>1. Typed /\ WholeLines /\ WriterOK(p, t)
  BY DEF IInv, ProcessOK
<1>2. /\ pc[p][t] = "flush" /\ file' = file \o buffer[p]
      /\ buffer' = [buffer EXCEPT ![p] = <<>>]
      /\ mutex' = [mutex EXCEPT ![p] = mutex[p] \ {t}]
      /\ pc' = [pc EXCEPT ![p][t] = "idle"]
      /\ line' = line /\ console' = console /\ calls' = calls
  BY DEF Flush
<1>3. "idle" \in Places /\ "idle" \notin Inside /\ "flush" \in Inside
  BY DEF Places, Inside
<1>4. /\ x \in Line /\ x[1] = p /\ mutex[p] = {t}
      /\ console[p] = Append(LinesInFile(p), x)
      /\ buffer[p] = << <<x, "text">>, <<x, "newline">> >>
  BY <1>1, <1>2, <1>3 DEF WriterOK
<1>5. file' = file \o << <<x, "text">>, <<x, "newline">> >> /\ file \in Seq(Part)
  BY <1>1, <1>2, <1>4 DEF Typed
<1>6. /\ WholeLines' /\ file' \in Seq(Part)
      /\ file' = WithLine(file, x)
  BY <1>1, <1>4, <1>5, WholeAfterFlush
<1>7. ASSUME NEW r \in Process
      PROVE  LinesInFile(r)' = IF r = p THEN Append(LinesInFile(r), x) ELSE LinesInFile(r)
  <2>1. LinesInFile(r)' = LinesIn(file', r) /\ LinesInFile(r) = LinesIn(file, r)
    BY DEF LinesInFile
  <2>2. LinesIn(file', r) = IF x[1] = r THEN Append(LinesIn(file, r), x) ELSE LinesIn(file, r)
    <3> HIDE DEF x
    <3>1. x \in Line /\ file \in Seq(Part)
      BY <1>4, <1>5
    <3>2. file' = WithLine(file, x)
      BY <1>6
    <3>3. LinesIn(WithLine(file, x), r) = IF x[1] = r THEN Append(LinesIn(file, r), x)
                                          ELSE LinesIn(file, r)
      BY <3>1, LinesAfterFlush, Zenon
    <3>4. QED
      BY <3>2, <3>3, Zenon
  <2>3. QED
    BY <1>4, <2>1, <2>2
<1>8. /\ mutex' \in [Process -> SUBSET Thread] /\ mutex'[p] = {}
      /\ \A r \in Process \ {p} : mutex'[r] = mutex[r]
  BY <1>1, <1>2, <1>4 DEF Typed
<1>9. /\ buffer' \in [Process -> Seq(Part)] /\ buffer'[p] = <<>>
      /\ \A r \in Process \ {p} : buffer'[r] = buffer[r]
  BY <1>1, <1>2 DEF Typed
<1>10. pc'[p][t] = "idle"
  BY <1>1, <1>2, <1>3, SetPlace DEF Typed
<1>11. WriterOK(p, t)'
  BY <1>3, <1>10 DEF WriterOK
<1>12. MutexOK(p)'
  BY <1>2, <1>4, <1>7, <1>8, <1>9 DEF MutexOK
<1>13. QED
  BY <1>1, <1>2, <1>3, <1>6, <1>7, <1>8, <1>9, <1>11, <1>12, StepInside DEF Typed

(***************************************************************************)
(* Every step of every thread preserves the invariant.                     *)
(***************************************************************************)
LEMMA NextIInv == IInv /\ [Next]_vars => IInv'
<1> SUFFICES ASSUME IInv, [Next]_vars
             PROVE  IInv'
  OBVIOUS
<1>1. CASE Next
  BY <1>1, LogIInv, LockIInv, PrintfIInv, InsertIInv, FlushIInv DEF Next
<1>2. CASE UNCHANGED vars
  <2>1. Typed' /\ WholeLines'
    BY <1>2 DEF IInv, Typed, WholeLines, vars
  <2>2. ASSUME NEW p \in Process
        PROVE  ProcessOK(p)'
    BY <1>2 DEF IInv, ProcessOK, MutexOK, WriterOK, LinesInFile, vars
  <2>3. QED
    BY <2>1, <2>2 DEF IInv
<1>3. QED
  BY <1>1, <1>2

(***************************************************************************)
(* The invariant holds of every reachable state.                           *)
(***************************************************************************)
THEOREM Inductive == Spec => []IInv
BY InitIInv, NextIInv, PTL DEF Spec

(***************************************************************************)
(* s_logMutex admits one thread of a process at a time to the console and  *)
(* the stream of its log.                                                  *)
(***************************************************************************)
THEOREM MutualExclusion ==
    Spec => [](\A p \in Process : \A t, u \in Thread :
                 pc[p][t] \in Inside /\ pc[p][u] \in Inside => t = u)
<1>1. IInv => \A p \in Process : \A t, u \in Thread :
                pc[p][t] \in Inside /\ pc[p][u] \in Inside => t = u
  BY DEF IInv, ProcessOK, WriterOK
<1>2. QED
  BY <1>1, Inductive, PTL

(***************************************************************************)
(* Every line in the shared file is whole, and the file shows the lines of *)
(* a process in the order of its console, but for the one being written.   *)
(***************************************************************************)
THEOREM LogsReadable == Spec => []LogsAgree
<1>1. IInv => LogsAgree
  <2> SUFFICES ASSUME IInv
               PROVE  LogsAgree
    OBVIOUS
  <2>1. WholeLines
    BY DEF IInv
  <2>2. ASSUME NEW p \in Process
        PROVE  /\ IsPrefix(LinesInFile(p), console[p])
               /\ Len(console[p]) <= Len(LinesInFile(p)) + 1
    <3>1. ProcessOK(p) /\ console[p] \in Seq(Line) /\ file \in Seq(Part)
      BY DEF IInv, Typed
    <3>2. LinesInFile(p) \in Seq(Line)
      BY <3>1, LinesTyped DEF LinesInFile
    <3>3. CASE console[p] = LinesInFile(p)
      BY <3>2, <3>3, PrefixOfAppend
    <3>4. ASSUME NEW t \in Thread, pc[p][t] \in {"text", "newline", "flush"}
          PROVE  /\ IsPrefix(LinesInFile(p), console[p])
                 /\ Len(console[p]) <= Len(LinesInFile(p)) + 1
      <4>1. console[p] = Append(LinesInFile(p), line[p][t]) /\ line[p][t] \in Line
        BY <3>1, <3>4 DEF ProcessOK, WriterOK
      <4>2. QED
        BY <3>2, <4>1, PrefixOfAppend
    <3>5. QED
      BY <3>1, <3>3, <3>4 DEF ProcessOK, MutexOK, WriterOK, Inside
  <2>3. QED
    BY <2>1, <2>2 DEF LogsAgree, WholeLines
<1>2. QED
  BY <1>1, Inductive, PTL

=============================================================================
