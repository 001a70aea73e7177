------------------------ MODULE PersistentShellProofs ------------------------
(***************************************************************************)
(* What PersistentShell promises about commands that time out, for every   *)
(* number of calls, attempts, processes and lines of output.               *)
(***************************************************************************)
EXTENDS PersistentShell, FiniteSetTheorems, TLAPS

Texts == {InitText} \cup Calls
Lines == {"init", "out", "end"} \X Nat
Positions == {"start", "init", "write", "wait", "free", "raised"}

TypeInv ==
    /\ mode \in Modes
    /\ pc \in Positions
    /\ goal \in {"new", "exec", "restart"}
    /\ tries \in 1..MaxStarts
    /\ proc \in 0..nproc
    /\ nproc \in 0..MaxProcs
    /\ up \subseteq 1..nproc
    /\ input \in [Procs -> Seq(Texts)]
    /\ fg \in [Procs -> {0} \cup Calls]
    /\ pipe \in [Procs -> Seq(Lines)]
    /\ queue \in Seq(Lines)
    /\ execs \in 0..MaxExecs
    /\ result.kind \in Kinds
    /\ emitted \in [Calls -> 0..MaxLines]
    /\ ended \subseteq Calls
    /\ closed \in BOOLEAN
    /\ gone \in BOOLEAN

\* The call whose command is about to be written or has been.
Pending == pc = "write" \/ (pc \in {"start", "init"} /\ goal = "exec")

\* A process that is yet to be started has nothing; the running call has a
\* number.
NumbersInv ==
    /\ \A p \in Procs : p > nproc => fg[p] = 0 /\ input[p] = <<>>
    /\ Pending \/ pc = "wait" => execs \in Calls
    /\ Pending => execs \notin ended
    /\ ended \subseteq 1..execs

\* A sentinel in flight is one of a command that has ended.
AllEnded(s, E) == \A k \in 1..Len(s) : s[k][1] = "end" => s[k][2] \in E
SentinelInv ==
    /\ \A p \in Procs : AllEnded(pipe[p], ended)
    /\ AllEnded(queue, ended)
    /\ result.kind = "ok" => result.call \in ended

\* The bash p has no command and none to read.
AllInit(s) == \A k \in 1..Len(s) : s[k] = InitText
Idle(p) == fg[p] = 0 /\ AllInit(input[p])

\* The bash p has the command of the running call, or has still to read it.
LastIs(s, c) == /\ s # <<>> /\ s[Len(s)] = c
                /\ \A k \in 1..(Len(s) - 1) : s[k] = InitText
Working(p) == \/ fg[p] = execs /\ input[p] = <<>>
              \/ fg[p] = 0 /\ LastIs(input[p], execs)

\* Only the current bash, and only while a call waits for it, works; its command
\* has not ended.
WorkInv ==
    \A p \in up : \/ Idle(p)
                  \/ p = proc /\ pc = "wait" /\ execs \notin ended /\ Working(p)

Inv == TypeInv /\ NumbersInv /\ SentinelInv /\ WorkInv

LEMMA Bounds ==
    /\ MaxStarts \in Nat \ {0}
    /\ MaxExecs \in Nat /\ MaxLines \in Nat /\ MaxProcs \in Nat
    /\ Procs = 1..MaxProcs /\ Calls = 1..MaxExecs
    /\ InitText = 0 /\ 0 \in Texts /\ Calls \subseteq Texts
    /\ Texts \subseteq {0} \cup Calls
  BY PersistentShellAssumption DEF Procs, Calls, Texts, InitText

LEMMA TypesImply == TypeInv => TypeOK
  BY DEF TypeInv, TypeOK, Positions, Texts

-----------------------------------------------------------------------------
(* Sequences.                                                              *)

LEMMA EmptySeq ==
    ASSUME NEW S, NEW E
    PROVE  <<>> \in Seq(S) /\ AllInit(<<>>) /\ AllEnded(<<>>, E)
  BY DEF AllInit, AllEnded

LEMMA TailSeq ==
    ASSUME NEW S, NEW s \in Seq(S), s # <<>>
    PROVE  /\ Tail(s) \in Seq(S) /\ Head(s) \in S /\ Head(s) = s[1]
           /\ Len(s) \in Nat \ {0} /\ Len(Tail(s)) = Len(s) - 1
           /\ \A k \in 1..(Len(s) - 1) : Tail(s)[k] = s[k + 1]
  OBVIOUS

LEMMA AppendSeq ==
    ASSUME NEW S, NEW s \in Seq(S), NEW x \in S
    PROVE  /\ Append(s, x) \in Seq(S) /\ Len(Append(s, x)) = Len(s) + 1
           /\ Len(s) \in Nat
           /\ Append(s, x)[Len(s) + 1] = x
           /\ \A k \in 1..Len(s) : Append(s, x)[k] = s[k]
           /\ Append(s, x) # <<>>
  OBVIOUS

LEMMA InitSeqs ==
    ASSUME NEW s \in Seq(Texts)
    PROVE  /\ AllInit(<<InitText>>)
           /\ AllInit(s) /\ s # <<>> => AllInit(Tail(s)) /\ Head(s) = InitText
           /\ \A c : AllInit(s) /\ c \in Texts => LastIs(Append(s, c), c)
           /\ \A c \in Calls : LastIs(s, c) =>
                 IF Head(s) = InitText THEN LastIs(Tail(s), c)
                                       ELSE Head(s) = c /\ Tail(s) = <<>>
  <1>1. AllInit(<<InitText>>)
    BY DEF AllInit
  <1>2. ASSUME AllInit(s), s # <<>> PROVE AllInit(Tail(s)) /\ Head(s) = InitText
    BY <1>2, TailSeq DEF AllInit
  <1>3. ASSUME NEW c \in Texts, AllInit(s) PROVE LastIs(Append(s, c), c)
    BY <1>3, AppendSeq DEF AllInit, LastIs
  <1>4. ASSUME NEW c \in Calls, LastIs(s, c), Head(s) = InitText
        PROVE  LastIs(Tail(s), c)
    <2>1. /\ s # <<>> /\ Len(s) \in Nat \ {0} /\ Head(s) = s[1]
          /\ Len(Tail(s)) = Len(s) - 1 /\ Tail(s) \in Seq(Texts)
          /\ \A k \in 1..(Len(s) - 1) : Tail(s)[k] = s[k + 1]
      BY <1>4, TailSeq DEF LastIs
    <2>2. Len(s) # 1
      BY <1>4, <2>1, Bounds DEF LastIs
    <2>3. /\ Len(Tail(s)) \in 1..(Len(s) - 1)
          /\ Tail(s)[Len(Tail(s))] = s[Len(s)]
      BY <2>1, <2>2
    <2>4. Tail(s) # <<>>
      <3>1. Len(<<>>) = 0
        OBVIOUS
      <3>2. \A n \in Nat \ {0}, m \in Nat : m = n - 1 /\ n # 1 => m # 0
        OBVIOUS
      <3>3. Len(Tail(s)) \in Nat
        BY <2>1
      <3>4. Len(Tail(s)) # 0
        BY <2>1, <2>2, <3>2, <3>3, Zenon
      <3> QED  BY <3>1, <3>4, Zenon
    <2>5. \A k \in 1..(Len(Tail(s)) - 1) : Tail(s)[k] = InitText
      <3>1. \A k \in 1..(Len(Tail(s)) - 1) :
               /\ k \in 1..(Len(s) - 1) /\ k + 1 \in 1..(Len(s) - 1)
        BY <2>1
      <3> QED
        BY <1>4, <2>1, <3>1 DEF LastIs
    <2> QED
      BY <1>4, <2>3, <2>4, <2>5 DEF LastIs
  <1>5. ASSUME NEW c \in Calls, LastIs(s, c), Head(s) # InitText
        PROVE  Head(s) = c /\ Tail(s) = <<>>
    <2>1. /\ s # <<>> /\ Len(s) \in Nat \ {0} /\ Head(s) = s[1]
          /\ Len(Tail(s)) = Len(s) - 1 /\ Tail(s) \in Seq(Texts)
      BY <1>5, TailSeq DEF LastIs
    <2>2. Len(s) = 1
      BY <1>5, <2>1 DEF LastIs
    <2>3. Tail(s) = <<>>
      <3>1. Len(Tail(s)) = 0
        BY <2>1, <2>2
      <3>2. \A r \in Seq(Texts) : Len(r) = 0 => r = <<>>
        OBVIOUS
      <3> QED  BY <2>1, <3>1, <3>2
    <2> QED
      BY <1>5, <2>1, <2>2, <2>3 DEF LastIs
  <1> QED
    BY <1>1, <1>2, <1>3, <1>4, <1>5

LEMMA EndedSeqs ==
    ASSUME NEW s \in Seq(Lines), NEW E, NEW F, E \subseteq F, AllEnded(s, E)
    PROVE  /\ AllEnded(s, F)
           /\ s # <<>> => AllEnded(Tail(s), F)
           /\ s # <<>> /\ Head(s)[1] = "end" => Head(s)[2] \in F
           /\ \A x \in Lines : (x[1] = "end" => x[2] \in F) => AllEnded(Append(s, x), F)
  <1>1. AllEnded(s, F)
    BY DEF AllEnded
  <1>2. ASSUME s # <<>>
        PROVE AllEnded(Tail(s), F) /\ (Head(s)[1] = "end" => Head(s)[2] \in F)
    BY <1>1, <1>2, TailSeq DEF AllEnded
  <1>3. ASSUME NEW x \in Lines, x[1] = "end" => x[2] \in F
        PROVE  AllEnded(Append(s, x), F)
    BY <1>1, <1>3, AppendSeq DEF AllEnded
  <1> QED
    BY <1>1, <1>2, <1>3

\* What a call returns.
LEMMA Answer ==
    \A k, c, o : result' = [kind |-> k, call |-> c, out |-> o] =>
                    result'.kind = k /\ result'.call = c
  OBVIOUS

\* An attempt to start a bash fails: another one follows, or _start gives up.
LEMMA Fails ==
    ASSUME InitFail \/ PopenFails
    PROVE  /\ pc \in {"start", "init"}
           /\ \/ tries < MaxStarts /\ tries' = tries + 1 /\ pc' = "start"
              \/ tries' = tries /\ pc' = IF goal = "new" THEN "raised" ELSE "free"
           /\ pc = "start" => pc' # "start"
           /\ result' = result \/ result'.kind = "restart failed"
           /\ UNCHANGED <<goal, proc, nproc, up, input, fg, pipe, queue, execs, buf,
                          mode, emitted, ended, closed, gone>>
  <1>1. InitFail => NextTry /\ pc = "init"
    BY DEF InitFail
  <1>2. PopenFails => GiveUp /\ pc = "start"
    BY DEF PopenFails
  <1>3. GiveUp => /\ tries' = tries /\ pc' = IF goal = "new" THEN "raised" ELSE "free"
                  /\ result' = result \/ result'.kind = "restart failed"
    BY Answer, Zenon DEF GiveUp
  <1>4. NextTry => \/ tries < MaxStarts /\ tries' = tries + 1 /\ pc' = "start"
                      /\ result' = result
                   \/ GiveUp
    BY Zenon DEF NextTry
  <1>5. UNCHANGED <<goal, proc, nproc, up, input, fg, pipe, queue, execs, buf,
                    mode, emitted, ended, closed, gone>>
    BY DEF InitFail, PopenFails, shellVars, histVars
  <1> QED
    BY <1>1, <1>2, <1>3, <1>4, <1>5

\* What a process has not read is kept or, its own only, lost.
LEMMA Kills ==
    ASSUME WriteFails \/ ShellDied \/ Timeout \/ Close
    PROVE  /\ proc' = 0 /\ up' = up \ {proc}
           /\ input' = [p \in Procs |-> IF p = proc /\ mode = "host" THEN <<>>
                                         ELSE input[p]]
           /\ UNCHANGED <<mode, nproc, fg, pipe, queue, execs, emitted, ended, gone>>
  BY DEF WriteFails, ShellDied, Timeout, Close, KillAndRestart, Kill, histVars

-----------------------------------------------------------------------------
(* Initial states and types.                                               *)

LEMMA InitInv == Init => Inv
  <1> SUFFICES ASSUME Init PROVE Inv
    OBVIOUS
  <1>1. TypeInv
    <2>1. /\ input \in [Procs -> Seq(Texts)]
          /\ pipe \in [Procs -> Seq(Lines)] /\ queue \in Seq(Lines)
      BY EmptySeq DEF Init
    <2>2. result.kind = "none"
      BY DEF Init, NoResult
    <2>3. /\ 1 \in 1..MaxStarts /\ 0 \in 0..MaxProcs /\ 0 \in 0..MaxExecs
          /\ 0 \in 0..MaxLines /\ 0 \in 0..0
      BY Bounds
    <2> QED
      BY <2>1, <2>2, <2>3 DEF Init, TypeInv, Kinds, Positions
  <1>2. NumbersInv /\ WorkInv
    BY Bounds DEF Init, NumbersInv, WorkInv, Pending
  <1>3. SentinelInv
    BY EmptySeq DEF Init, SentinelInv, NoResult
  <1> QED
    BY <1>1, <1>2, <1>3 DEF Inv

LEMMA TypeStep == Inv /\ [Next]_vars => TypeInv'
  <1> SUFFICES ASSUME Inv, [Next]_vars PROVE TypeInv'
    OBVIOUS
  <1> USE DEF TypeInv, Positions
  <1>0. TypeInv
    BY DEF Inv
  <1>1. CASE StartOnce
    <2>1. input' \in [Procs -> Seq(Texts)]
      <3>1. <<InitText>> \in Seq(Texts)
        BY Bounds
      <3> QED
        BY <1>0, <1>1, <3>1 DEF StartOnce
    <2>2. /\ nproc' \in 0..MaxProcs /\ proc' \in 0..nproc'
          /\ pc' = "init" /\ queue' = <<>>
      BY <1>0, <1>1, Bounds DEF StartOnce
    <2>3. up' \subseteq 1..nproc'
      <3>1. up' \subseteq up \cup {nproc + 1} /\ nproc' = nproc + 1
        BY <1>1 DEF StartOnce
      <3>2. nproc \in Nat /\ up \subseteq 1..nproc
        BY <1>0, Bounds
      <3> QED
        BY <3>1, <3>2
    <2> QED
      BY <1>0, <1>1, <2>1, <2>2, <2>3, EmptySeq DEF StartOnce, histVars
  <1>2. CASE InitLine
    BY <1>0, <1>2, TailSeq DEF InitLine, startVars, shellVars, histVars
  <1>3. CASE InitFail \/ PopenFails
    <2>1. tries' \in 1..MaxStarts /\ pc' \in Positions
      <3>1. \/ tries < MaxStarts /\ tries' = tries + 1 /\ pc' = "start"
            \/ tries' = tries /\ pc' = IF goal = "new" THEN "raised" ELSE "free"
        BY <1>3, Fails, Zenon
      <3> QED
        BY <1>0, <3>1, Bounds
    <2>2. result'.kind \in Kinds
      BY <1>0, <1>3, Fails DEF Kinds
    <2> QED
      BY <1>0, <1>3, <2>1, <2>2, Fails
  <1>4. CASE Exec
    <2>1. /\ execs' \in 0..MaxExecs /\ pc' \in Positions
          /\ tries' \in 1..MaxStarts /\ goal' \in {"new", "exec", "restart"}
      BY <1>0, <1>4, Bounds DEF Exec
    <2> QED
      BY <1>0, <1>4, <2>1 DEF Exec, shellVars, histVars
  <1>5. CASE Write
    <2>1. input' \in [Procs -> Seq(Texts)]
      <3>1. execs \in Texts
        BY <1>5, Bounds DEF Inv, NumbersInv, Pending, Write
      <3>2. proc \in Procs => Append(input[proc], execs) \in Seq(Texts)
        BY <1>0, <3>1, AppendSeq
      <3> QED
        BY <1>0, <1>5, <3>2 DEF Write
    <2> QED
      BY <1>0, <1>5, <2>1 DEF Write, startVars, histVars
  <1>6. CASE WriteFails \/ ShellDied \/ Timeout \/ Close
    <2>1. /\ proc' = 0 /\ up' = up \ {proc}
          /\ input' = [p \in Procs |-> IF p = proc /\ mode = "host" THEN <<>>
                                        ELSE input[p]]
          /\ UNCHANGED <<mode, nproc, fg, pipe, queue, execs, emitted, ended, gone>>
      BY <1>6, Kills
    <2>2. /\ pc' \in {"start", pc} /\ goal' \in {"restart", goal}
          /\ tries' \in {1, tries} /\ closed' \in {TRUE, closed}
      BY <1>6 DEF WriteFails, ShellDied, Timeout, Close, KillAndRestart, histVars
    <2>3. result' = result \/ result'.kind \in {"write failed", "died", "timeout"}
      <3>1. WriteFails => result'.kind = "write failed"
        BY Answer, Zenon DEF WriteFails, Return
      <3>2. ShellDied => result'.kind = "died"
        BY DEF ShellDied, Return
      <3>3. Timeout => result'.kind = "timeout"
        BY DEF Timeout, Return
      <3>4. Close => result' = result
        BY DEF Close
      <3> QED
        BY <1>6, <3>1, <3>2, <3>3, <3>4
    <2>5. result'.kind \in Kinds
      BY <1>0, <2>3 DEF Kinds
    <2>6. /\ tries' \in 1..MaxStarts /\ proc' \in 0..nproc'
          /\ up' \subseteq 1..nproc'
      BY <1>0, <2>1, <2>2, Bounds
    <2>4. input' \in [Procs -> Seq(Texts)]
      BY <1>0, <2>1, EmptySeq
    <2> QED
      BY <1>0, <2>1, <2>2, <2>4, <2>5, <2>6
  <1>7. CASE TakeLine
    <2>1. /\ queue' \in Seq(Lines)
      BY <1>0, <1>7, TailSeq DEF TakeLine
    <2>2. pc' \in Positions
      BY <1>0, <1>7 DEF TakeLine
    <2>3. result' = result \/ result'.kind = "ok"
      BY <1>7 DEF TakeLine, Return
    <2>4. result'.kind \in Kinds
      BY <1>0, <2>3 DEF Kinds
    <2> QED
      BY <1>0, <1>7, <2>1, <2>2, <2>4 DEF TakeLine, startVars, shellVars, histVars
  <1>8. CASE StopContainer
    BY <1>0, <1>8, EmptySeq DEF StopContainer, startVars
  <1>9. ASSUME NEW p \in Procs, Bash(p) \/ Read(p) PROVE TypeInv'
    <2>0. /\ {"init", "out", "end"} \X ({0} \cup Calls \cup Procs) \subseteq Lines
          /\ fg[p] \in {0} \cup Calls
      BY <1>0, Bounds DEF Lines
    <2>1. CASE RunInit(p)
      <3>1. Line("init", p) \in Lines
        BY <2>0 DEF Line
      <3>2. Append(pipe[p], Line("init", p)) \in Seq(Lines) /\ Tail(input[p]) \in Seq(Texts)
        BY <1>0, <2>1, <3>1, AppendSeq, TailSeq DEF RunInit
      <3>3. pipe' \in [Procs -> Seq(Lines)]
        BY <1>0, <2>1, <3>2 DEF RunInit, Prints
      <3> QED
        BY <1>0, <2>1, <3>2, <3>3 DEF RunInit, startVars, histVars
    <2>2. CASE RunCommand(p)
      <3>1. Tail(input[p]) \in Seq(Texts) /\ Head(input[p]) \in {0} \cup Calls
        BY <1>0, <2>2, TailSeq, Bounds DEF RunCommand
      <3> QED
        BY <1>0, <2>2, <3>1 DEF RunCommand, startVars, histVars
    <2>3. CASE WriteLine(p)
      <3>1. Line("out", fg[p]) \in Lines
        BY <2>0 DEF Line
      <3>2. Append(pipe[p], Line("out", fg[p])) \in Seq(Lines)
        BY <1>0, <3>1, AppendSeq
      <3>3. emitted' \in [Calls -> 0..MaxLines]
        <4>1. /\ emitted[fg[p]] < MaxLines
              /\ emitted' = [emitted EXCEPT ![fg[p]] = @ + 1]
          BY <2>3 DEF WriteLine
        <4>2. fg[p] \in Calls /\ emitted[fg[p]] \in 0..MaxLines
          BY <1>0, <2>0, <2>3 DEF WriteLine
        <4>3. emitted[fg[p]] + 1 \in 0..MaxLines
          BY <4>1, <4>2, Bounds
        <4> QED
          BY <1>0, <4>1, <4>3
      <3> QED
        BY <1>0, <2>3, <3>2, <3>3 DEF WriteLine, startVars
    <2>4. CASE EndCommand(p)
      <3>1. Line("end", fg[p]) \in Lines
        BY <2>0 DEF Line
      <3>2. Append(pipe[p], Line("end", fg[p])) \in Seq(Lines)
        BY <1>0, <3>1, AppendSeq
      <3>3. fg[p] \in Calls /\ fg' \in [Procs -> {0} \cup Calls]
        BY <1>0, <2>0, <2>4 DEF EndCommand
      <3>4. \/ /\ pipe' = [pipe EXCEPT ![p] = Append(@, Line("end", fg[p]))]
               /\ ended' = ended \cup {fg[p]} /\ up' = up /\ input' = input
            \/ /\ up' = up \ {p} /\ input' = [input EXCEPT ![p] = <<>>]
               /\ pipe' = pipe /\ ended' = ended
            \/ UNCHANGED <<up, input, pipe, ended>>
        BY <2>4, Zenon DEF EndCommand
      <3>5. input' \in [Procs -> Seq(Texts)]
        <4>1. <<>> \in Seq(Texts)
          OBVIOUS
        <4>2. input' = input \/ input' = [input EXCEPT ![p] = <<>>]
          BY <3>4
        <4> QED
          BY <1>0, <4>1, <4>2
      <3>6. pipe' \in [Procs -> Seq(Lines)]
        <4>1. pipe' = pipe \/ pipe' = [pipe EXCEPT ![p] = Append(@, Line("end", fg[p]))]
          BY <3>4
        <4> QED
          BY <1>0, <3>2, <4>1
      <3>7. ended' \subseteq Calls /\ up' \subseteq 1..nproc
        BY <1>0, <3>3, <3>4
      <3> QED
        BY <1>0, <2>4, <3>3, <3>5, <3>6, <3>7 DEF EndCommand, startVars
    <2>5. CASE Read(p)
      <3>1. Tail(pipe[p]) \in Seq(Lines) /\ Append(queue, Head(pipe[p])) \in Seq(Lines)
        BY <1>0, <2>5, TailSeq, AppendSeq DEF Read
      <3> QED
        BY <1>0, <2>5, <3>1 DEF Read, startVars, histVars
    <2> QED
      BY <1>9, <2>1, <2>2, <2>3, <2>4, <2>5 DEF Bash
  <1>10. CASE UNCHANGED vars
    BY <1>0, <1>10 DEF vars
  <1> QED
    BY <1>1, <1>2, <1>3, <1>4, <1>5, <1>6, <1>7, <1>8, <1>9, <1>10 DEF Next, Holder

-----------------------------------------------------------------------------
(* The invariant.                                                          *)

\* A bash that runs a command is the current one, and runs that of the call.
LEMMA Runs ==
    ASSUME Inv, NEW p \in up, fg[p] # 0
    PROVE  /\ p = proc /\ pc = "wait" /\ fg[p] = execs /\ input[p] = <<>>
           /\ execs \notin ended
  BY DEF Inv, WorkInv, Idle, Working

LEMMA NumbersStep == Inv /\ [Next]_vars => NumbersInv'
  <1> SUFFICES ASSUME Inv, [Next]_vars PROVE NumbersInv'
    OBVIOUS
  <1>0. /\ NumbersInv
        /\ nproc \in Nat /\ up \subseteq 1..nproc /\ proc \in 0..nproc
        /\ input \in [Procs -> Seq(Texts)] /\ fg \in [Procs -> {0} \cup Calls]
        /\ execs \in Nat
    BY Bounds DEF Inv, TypeInv
  <1> USE DEF NumbersInv, Pending
  <1>1. CASE StartOnce
    <2>1. /\ pc = "start" /\ pc' = "init" /\ nproc' = nproc + 1
          /\ UNCHANGED <<goal, fg, execs, ended>>
          /\ input' = input \/ input' = [input EXCEPT ![nproc + 1] = <<InitText>>]
      BY <1>1 DEF StartOnce, histVars
    <2>2. \A p \in Procs : p > nproc' => p > nproc /\ input'[p] = input[p]
      BY <1>0, <2>1, Bounds
    <2> QED
      BY <1>0, <2>1, <2>2
  <1>2. CASE InitLine
    BY <1>0, <1>2 DEF InitLine, startVars, shellVars, histVars
  <1>3. CASE InitFail \/ PopenFails
    BY <1>0, <1>3, Fails
  <1>4. CASE Exec
    BY <1>0, <1>4, Bounds DEF Exec, shellVars, histVars
  <1>5. CASE Write
    BY <1>0, <1>5 DEF Write, startVars, histVars
  <1>6. CASE WriteFails \/ ShellDied \/ Timeout \/ Close
    <2>1. /\ UNCHANGED <<nproc, fg, execs, ended>>
          /\ \A p \in Procs : input[p] = <<>> => input'[p] = <<>>
      BY <1>6, Kills
    <2>2. (pc' = "start" /\ goal' = "restart") \/ (pc = "free" /\ pc' = "free")
      BY <1>6, Zenon
      DEF WriteFails, ShellDied, Timeout, Close, KillAndRestart
    <2> QED
      BY <1>0, <2>1, <2>2
  <1>7. CASE TakeLine
    BY <1>0, <1>7 DEF TakeLine, startVars, shellVars, histVars
  <1>8. CASE StopContainer
    BY <1>0, <1>8 DEF StopContainer, startVars
  <1>9. ASSUME NEW p \in Procs, Bash(p) \/ Read(p) PROVE NumbersInv'
    <2>1. UNCHANGED <<pc, goal, nproc, execs>>
      BY <1>9 DEF Bash, RunInit, RunCommand, WriteLine, EndCommand, Read, startVars
    <2>2. /\ \A q \in Procs : q # p => fg'[q] = fg[q] /\ input'[q] = input[q]
          /\ fg[p] = 0 /\ input[p] = <<>> => fg'[p] = 0 /\ input'[p] = <<>>
      BY <1>0, <1>9 DEF Bash, RunInit, RunCommand, WriteLine, EndCommand, Read
    <2>3. ended' = ended \/ (pc = "wait" /\ ended' = ended \cup {execs})
      BY <1>9, Runs
      DEF Bash, RunInit, RunCommand, WriteLine, EndCommand, Read, histVars
    <2>4. \A q \in Procs : q > nproc => fg'[q] = 0 /\ input'[q] = <<>>
      BY <1>0, <2>2
    <2>5. ended' \subseteq 1..execs
      <3>1. pc = "wait" => execs \in 1..execs
        BY <1>0, Bounds
      <3>2. ended \subseteq 1..execs
        BY <1>0
      <3> HIDE DEF NumbersInv
      <3> QED
        BY <2>3, <3>1, <3>2
    <2> QED
      BY <1>0, <2>1, <2>3, <2>4, <2>5
  <1>10. CASE UNCHANGED vars
    BY <1>0, <1>10 DEF vars
  <1> QED
    BY <1>1, <1>2, <1>3, <1>4, <1>5, <1>6, <1>7, <1>8, <1>9, <1>10 DEF Next, Holder

LEMMA SentinelStep == Inv /\ [Next]_vars => SentinelInv'
  <1> SUFFICES ASSUME Inv, [Next]_vars PROVE SentinelInv'
    OBVIOUS
  <1>0. /\ SentinelInv
        /\ pipe \in [Procs -> Seq(Lines)] /\ queue \in Seq(Lines)
        /\ fg \in [Procs -> {0} \cup Calls]
    BY DEF Inv, TypeInv
  <1> USE DEF SentinelInv
  <1>1. CASE StartOnce
    BY <1>0, <1>1, EmptySeq DEF StartOnce, histVars
  <1>2. CASE InitLine
    BY <1>0, <1>2, EndedSeqs DEF InitLine, shellVars, histVars
  <1>3. CASE InitFail \/ PopenFails
    BY <1>0, <1>3, Fails
  <1>4. CASE Exec \/ Write \/ StopContainer
    BY <1>0, <1>4 DEF Exec, Write, StopContainer, shellVars, histVars
  <1>5. CASE WriteFails \/ ShellDied \/ Timeout \/ Close
    <2>1. UNCHANGED <<pipe, queue, ended>>
      BY <1>5
      DEF WriteFails, ShellDied, Timeout, Close, KillAndRestart, Kill, histVars
    <2>2. result' = result \/ result'.kind # "ok"
      BY <1>5, Answer, Zenon DEF WriteFails, ShellDied, Timeout, Close, Return
    <2> QED
      BY <1>0, <2>1, <2>2
  <1>6. CASE TakeLine
    <2>1. AllEnded(queue', ended)
      BY <1>0, <1>6, EndedSeqs DEF TakeLine
    <2>2. CASE IsSentinel(Head(queue))
      <3>1. execs \in ended
        BY <1>0, <1>6, <2>2, EndedSeqs DEF TakeLine, IsSentinel, Line
      <3>2. result'.call = execs
        BY <1>6, <2>2, Answer DEF TakeLine, Return
      <3> QED
        BY <1>0, <1>6, <2>1, <3>1, <3>2 DEF TakeLine, shellVars, histVars
    <2>3. CASE ~IsSentinel(Head(queue))
      BY <1>0, <1>6, <2>1, <2>3 DEF TakeLine, shellVars, histVars
    <2> QED  BY <2>2, <2>3
  <1>7. ASSUME NEW p \in Procs, Bash(p) PROVE SentinelInv'
    <2>0. UNCHANGED <<queue, result>>
      BY <1>7 DEF Bash, RunInit, RunCommand, WriteLine, EndCommand
    <2>1. ended \subseteq ended' /\ AllEnded(queue, ended')
      BY <1>0, <1>7, EndedSeqs
      DEF Bash, RunInit, RunCommand, WriteLine, EndCommand, histVars
    <2>2. /\ Line("init", p) \in Lines /\ Line("out", fg[p]) \in Lines
          /\ Line("end", fg[p]) \in Lines
      <3>1. p \in Nat /\ fg[p] \in Nat
        BY <1>0, Bounds
      <3> QED  BY <3>1 DEF Line, Lines
    <2>3. \/ pipe' = pipe
          \/ \E x \in Lines : /\ pipe' = [pipe EXCEPT ![p] = Append(@, x)]
                              /\ x[1] = "end" => x[2] \in ended'
      <3>1. CASE RunInit(p)
        BY <2>2, <3>1 DEF RunInit, Prints, Line
      <3>2. CASE RunCommand(p)
        BY <3>2 DEF RunCommand
      <3>3. CASE WriteLine(p)
        BY <2>2, <3>3 DEF WriteLine, Line
      <3>4. CASE EndCommand(p)
        BY <2>2, <3>4 DEF EndCommand, Line
      <3> QED
        BY <1>7, <3>1, <3>2, <3>3, <3>4 DEF Bash
    <2>4. \A q \in Procs : AllEnded(pipe'[q], ended')
      <3>1. \A q \in Procs : AllEnded(pipe[q], ended')
        BY <1>0, <2>1, EndedSeqs
      <3>2. ASSUME NEW x \in Lines, x[1] = "end" => x[2] \in ended',
                   pipe' = [pipe EXCEPT ![p] = Append(@, x)]
            PROVE  \A q \in Procs : AllEnded(pipe'[q], ended')
        <4>1. AllEnded(Append(pipe[p], x), ended')
          BY <1>0, <2>1, <3>2, EndedSeqs
        <4> QED
          BY <1>0, <3>1, <3>2, <4>1
      <3> QED
        BY <2>3, <3>1, <3>2
    <2> QED
      BY <1>0, <2>0, <2>1, <2>4
  <1>8. ASSUME NEW p \in Procs, Read(p) PROVE SentinelInv'
    <2>1. /\ Head(pipe[p]) \in Lines
          /\ Head(pipe[p])[1] = "end" => Head(pipe[p])[2] \in ended
          /\ AllEnded(Tail(pipe[p]), ended)
      BY <1>0, <1>8, EndedSeqs, TailSeq DEF Read
    <2>2. AllEnded(queue', ended)
      BY <1>0, <1>8, <2>1, EndedSeqs DEF Read
    <2> QED
      BY <1>0, <1>8, <2>1, <2>2 DEF Read, histVars
  <1>9. CASE UNCHANGED vars
    BY <1>0, <1>9 DEF vars
  <1> QED
    BY <1>1, <1>2, <1>3, <1>4, <1>5, <1>6, <1>7, <1>8, <1>9 DEF Next, Holder

LEMMA WorkStep == Inv /\ [Next]_vars => WorkInv'
  <1> SUFFICES ASSUME Inv, [Next]_vars PROVE WorkInv'
    OBVIOUS
  <1>0. /\ NumbersInv /\ SentinelInv /\ WorkInv
        /\ nproc \in Nat /\ up \subseteq 1..nproc /\ up \subseteq Procs
        /\ input \in [Procs -> Seq(Texts)] /\ fg \in [Procs -> {0} \cup Calls]
        /\ queue \in Seq(Lines) /\ execs \in Nat
    BY Bounds DEF Inv, TypeInv
  \* While no call waits every bash is idle.
  <1>1. ASSUME pc # "wait", up' \subseteq up,
               \A p \in up' : input'[p] = input[p] /\ fg'[p] = fg[p]
        PROVE  WorkInv'
    BY <1>0, <1>1 DEF WorkInv, Idle
  <1>2. CASE StartOnce
    <2>1. \A p \in up : Idle(p) /\ input'[p] = input[p] /\ fg'[p] = fg[p]
      BY <1>0, <1>2 DEF StartOnce, WorkInv
    <2>2. nproc + 1 \in Procs /\ fg[nproc + 1] = 0
      BY <1>0, <1>2, Bounds DEF StartOnce, NumbersInv
    <2>3. nproc + 1 \in up' => input'[nproc + 1] = <<InitText>> /\ fg'[nproc + 1] = 0
      BY <1>0, <1>2, <2>2 DEF StartOnce
    <2>4. AllInit(<<InitText>>)
      BY EmptySeq, InitSeqs
    <2>5. up' \subseteq up \cup {nproc + 1}
      BY <1>2 DEF StartOnce
    <2> QED
      BY <2>1, <2>3, <2>4, <2>5 DEF WorkInv, Idle
  <1>3. CASE InitLine \/ Exec
    BY <1>1, <1>3 DEF InitLine, Exec, shellVars
  <1>4. CASE InitFail \/ PopenFails
    BY <1>1, <1>4, Fails
  <1>5. CASE Write
    <2>1. /\ pc = "write" /\ pc' = "wait" /\ proc' = proc /\ proc \in up
          /\ UNCHANGED <<up, fg, execs, ended>>
          /\ input' = [input EXCEPT ![proc] = Append(@, execs)]
      BY <1>5 DEF Write, startVars, histVars
    <2>2. execs \in Calls /\ execs \in Texts /\ execs \notin ended
      BY <1>0, <2>1, Bounds DEF NumbersInv, Pending
    <2>3. \A p \in up : Idle(p)
      BY <1>0, <2>1 DEF WorkInv
    <2>4. LastIs(Append(input[proc], execs), execs)
      BY <1>0, <2>1, <2>2, <2>3, InitSeqs DEF Idle
    <2>5. input'[proc] = Append(input[proc], execs)
      BY <1>0, <2>1
    <2>6. Working(proc)'
      BY <2>1, <2>3, <2>4, <2>5 DEF Working, Idle
    <2>7. \A p \in up : p # proc => Idle(p)'
      BY <1>0, <2>1, <2>3 DEF Idle
    <2> QED
      BY <2>1, <2>2, <2>6, <2>7 DEF WorkInv
  <1>6. CASE WriteFails \/ ShellDied \/ Timeout \/ Close
    <2>1. /\ up' = up \ {proc} /\ fg' = fg
          /\ \A p \in Procs : p # proc => input'[p] = input[p]
      BY <1>6, Kills
    <2>2. \A p \in up' : Idle(p) /\ input'[p] = input[p]
      BY <1>0, <2>1 DEF WorkInv
    <2> QED
      BY <2>1, <2>2 DEF WorkInv, Idle
  <1>7. CASE TakeLine
    <2>1. UNCHANGED <<up, fg, input, proc, execs, ended>>
      BY <1>7 DEF TakeLine, startVars, shellVars, histVars
    <2>2. IsSentinel(Head(queue)) => execs \in ended
      BY <1>0, <1>7, EndedSeqs DEF TakeLine, IsSentinel, Line, SentinelInv
    <2>3. ~IsSentinel(Head(queue)) => pc' = pc
      BY <1>7 DEF TakeLine
    <2> QED
      BY <1>0, <2>1, <2>2, <2>3 DEF WorkInv, Idle, Working
  <1>8. CASE StopContainer
    BY <1>8 DEF StopContainer, WorkInv
  <1>9. ASSUME NEW p \in Procs, Bash(p) \/ Read(p) PROVE WorkInv'
    <2>1. /\ UNCHANGED <<pc, proc, execs>>
          /\ up' \subseteq up
          /\ \A q \in Procs : q # p => fg'[q] = fg[q] /\ input'[q] = input[q]
      BY <1>0, <1>9
      DEF Bash, RunInit, RunCommand, WriteLine, EndCommand, Read, startVars
    <2>2. ASSUME ended' = ended \/ p \notin up \/ fg[p] # 0,
                 p \in up' =>
                     \/ Idle(p)'
                     \/ /\ p = proc /\ pc = "wait" /\ execs \notin ended
                        /\ ended' = ended /\ Working(p)'
          PROVE  WorkInv'
      <3>1. ASSUME NEW q \in up', q # p PROVE Idle(q)' \/ (Working(q)' /\ q = proc
                /\ pc = "wait" /\ execs \notin ended)
        BY <1>0, <2>1, <3>1 DEF WorkInv, Idle, Working
      <3>2. CASE ended' = ended
        BY <2>1, <2>2, <3>1, <3>2 DEF WorkInv
      <3>3. CASE p \in up /\ fg[p] # 0
        <4>1. \A q \in up' : q # p => Idle(q)'
          BY <2>1, <3>1, <3>3, Runs
        <4> QED
          BY <2>1, <2>2, <4>1 DEF WorkInv
      <3> QED
        BY <1>9, <2>2, <3>2, <3>3
        DEF Bash, RunInit, RunCommand, WriteLine, EndCommand, Read, histVars
    <2>3. ASSUME NEW c \in up, c = p, fg[p] = 0, input[p] # <<>>
          PROVE  /\ p \in up
                 /\ \/ Idle(p)
                    \/ /\ p = proc /\ pc = "wait" /\ execs \notin ended
                       /\ execs \in Calls /\ LastIs(input[p], execs)
      BY <1>0, <2>3, Bounds DEF WorkInv, Working, NumbersInv
    <2>10. CASE (RunInit(p) \/ RunCommand(p)) /\ p \notin up
      <3>1. p \notin up' /\ ended' = ended
        BY <2>1, <2>10 DEF RunInit, RunCommand, histVars
      <3> QED
        BY <2>2, <3>1
    <2>4. CASE RunInit(p) /\ p \in up
      <3>1. /\ p \in up /\ fg[p] = 0 /\ input[p] # <<>> /\ Head(input[p]) = InitText
            /\ input'[p] = Tail(input[p]) /\ fg' = fg /\ ended' = ended
        BY <1>0, <2>4 DEF RunInit, histVars
      <3>2. \/ AllInit(input'[p])
            \/ /\ p = proc /\ pc = "wait" /\ execs \notin ended
               /\ LastIs(input'[p], execs)
        BY <1>0, <2>3, <3>1, InitSeqs DEF Idle
      <3> QED
        BY <2>1, <2>2, <3>1, <3>2 DEF Idle, Working
    <2>5. CASE RunCommand(p) /\ p \in up
      <3>1. /\ p \in up /\ fg[p] = 0 /\ input[p] # <<>> /\ Head(input[p]) # InitText
            /\ input'[p] = Tail(input[p]) /\ fg'[p] = Head(input[p]) /\ ended' = ended
        BY <1>0, <2>5 DEF RunCommand, histVars
      <3>2. /\ p = proc /\ pc = "wait" /\ execs \notin ended
            /\ input'[p] = <<>> /\ fg'[p] = execs
        BY <1>0, <2>3, <3>1, InitSeqs DEF Idle
      <3> QED
        BY <2>1, <2>2, <3>1, <3>2 DEF Working
    <2>6. CASE WriteLine(p) \/ Read(p)
      <3>1. UNCHANGED <<up, fg, input, ended>>
        BY <2>6 DEF WriteLine, Read, histVars
      <3> QED
        BY <1>0, <2>1, <3>1 DEF WorkInv, Idle, Working
    <2>7. CASE EndCommand(p)
      <3>1. /\ fg[p] # 0 /\ fg'[p] = 0
            /\ p \in up' => p \in up /\ input'[p] = input[p]
        BY <1>0, <2>7 DEF EndCommand
      <3>2. p \in up' => input[p] = <<>>
        BY <3>1, Runs
      <3>3. p \in up' => Idle(p)'
        BY <3>1, <3>2, EmptySeq DEF Idle
      <3> QED
        BY <2>2, <3>1, <3>3
    <2> QED
      BY <1>9, <2>4, <2>5, <2>6, <2>7, <2>10 DEF Bash
  <1>10. CASE UNCHANGED vars
    BY <1>0, <1>10 DEF vars, WorkInv, Idle, Working
  <1> QED
    BY <1>2, <1>3, <1>4, <1>5, <1>6, <1>7, <1>8, <1>9, <1>10 DEF Next, Holder

LEMMA InvHolds == Spec => []Inv
  <1>1. Inv /\ [Next]_vars => Inv'
    BY TypeStep, NumbersStep, SentinelStep, WorkStep DEF Inv
  <1> QED
    BY <1>1, InitInv, PTL DEF Spec

-----------------------------------------------------------------------------
\* Every variable keeps its type.
THEOREM TypeCorrect == Spec => []TypeOK
  <1>1. Inv => TypeOK
    BY TypesImply DEF Inv
  <1> QED
    BY <1>1, InvHolds, PTL

\* The next call finds an idle bash.
THEOREM NextShellIdleHolds == Spec => []NextShellIdle
  <1>1. Inv => NextShellIdle
    <2> SUFFICES ASSUME Inv, pc \in {"free", "write"}, proc \in up
                 PROVE  fg[proc] = 0 /\ \A k \in DOMAIN input[proc] :
                                           input[proc][k] = InitText
      BY DEF NextShellIdle
    <2>1. Idle(proc)
      BY DEF Inv, WorkInv
    <2>2. input[proc] \in Seq(Texts)
      BY Bounds DEF Inv, TypeInv
    <2>3. DOMAIN input[proc] = 1..Len(input[proc])
      BY <2>2
    <2> QED
      BY <2>1, <2>3 DEF Idle, AllInit
  <1> QED
    BY <1>1, InvHolds, PTL

-----------------------------------------------------------------------------
(* Commands that outlive their calls.                                      *)

\* The command of call c has not been written to a bash.
Fresh(c) == c > execs \/ (c = execs /\ Pending)

\* The bash p, which may be one of a docker exec that was killed, has the command
\* of call c, or has still to read it.
Holds(s, c) == \E k \in 1..Len(s) : s[k] = c
Has(p, c) == fg[p] = c \/ Holds(input[p], c)

\* No bash has the command of a call that has its exit code or is yet to be written,
\* and only the current one has that of the call that waits.
TextInv ==
    /\ \A p \in Procs, c \in Calls : Has(p, c) => c \notin ended /\ ~Fresh(c)
    /\ pc = "wait" => \A p \in Procs \ {proc} : ~Has(p, execs)

LEMMA InitTexts == Init => TextInv
  <1> SUFFICES ASSUME Init PROVE TextInv
    OBVIOUS
  <1>1. /\ pc = "start" /\ fg = [p \in Procs |-> 0]
        /\ input = [p \in Procs |-> <<>>]
    BY DEF Init
  <1>2. \A c : ~Holds(<<>>, c)
    BY DEF Holds
  <1>3. \A c \in Calls : c # 0
    BY Bounds
  <1> QED
    BY <1>1, <1>2, <1>3 DEF TextInv, Has

LEMMA HoldsSeqs ==
    ASSUME NEW s \in Seq(Texts), NEW c
    PROVE  /\ ~Holds(<<>>, c)
           /\ s # <<>> => /\ Holds(s, Head(s))
                          /\ Holds(Tail(s), c) => Holds(s, c)
           /\ \A x \in Texts : Holds(Append(s, x), c) => Holds(s, c) \/ c = x
  <1>1. ~Holds(<<>>, c)
    BY DEF Holds
  <1>2. ASSUME s # <<>> PROVE Holds(s, Head(s)) /\ (Holds(Tail(s), c) => Holds(s, c))
    <2>1. /\ Len(s) \in Nat \ {0} /\ Head(s) = s[1] /\ Len(Tail(s)) = Len(s) - 1
          /\ \A k \in 1..(Len(s) - 1) : Tail(s)[k] = s[k + 1]
      BY <1>2, TailSeq
    <2>2. 1 \in 1..Len(s)
      BY <2>1
    <2>3. \A k \in 1..Len(Tail(s)) : k + 1 \in 1..Len(s) /\ Tail(s)[k] = s[k + 1]
      BY <2>1
    <2> QED
      BY <2>1, <2>2, <2>3 DEF Holds
  <1>3. ASSUME NEW x \in Texts, Holds(Append(s, x), c) PROVE Holds(s, c) \/ c = x
    <2>1. /\ Len(Append(s, x)) = Len(s) + 1 /\ Len(s) \in Nat
          /\ Append(s, x)[Len(s) + 1] = x
          /\ \A k \in 1..Len(s) : Append(s, x)[k] = s[k]
      BY AppendSeq
    <2>2. \A k \in 1..(Len(s) + 1) : k \in 1..Len(s) \/ k = Len(s) + 1
      BY <2>1
    <2> QED
      BY <1>3, <2>1, <2>2 DEF Holds
  <1> QED
    BY <1>1, <1>2, <1>3

\* A call that is fresh was before; none begins to wait but by Write.
LEMMA FreshStep ==
    ASSUME Inv, [Next]_vars
    PROVE  /\ \A c \in Calls : Fresh(c)' => Fresh(c)
           /\ Write \/ (pc' = "wait" => pc = "wait" /\ UNCHANGED <<proc, execs>>)
  <1>0. execs \in Nat
    BY Bounds DEF Inv, TypeInv
  <1> USE DEF Fresh, Pending
  <1>1. CASE StartOnce \/ InitLine
    BY <1>1 DEF StartOnce, InitLine, startVars
  <1>2. CASE InitFail \/ PopenFails
    BY <1>2, Fails
  <1>3. CASE Exec
    BY <1>0, <1>3, Bounds DEF Exec
  <1>4. CASE Write
    BY <1>4 DEF Write, startVars
  <1>5. CASE WriteFails \/ ShellDied \/ Timeout
    BY <1>5 DEF WriteFails, ShellDied, Timeout, KillAndRestart
  <1>6. CASE Close \/ StopContainer
    BY <1>6 DEF Close, StopContainer, startVars
  <1>7. CASE TakeLine
    BY <1>7 DEF TakeLine, startVars
  <1>8. CASE \E p \in Procs : Bash(p) \/ Read(p)
    BY <1>8 DEF Bash, RunInit, RunCommand, WriteLine, EndCommand, Read, startVars
  <1>9. CASE UNCHANGED vars
    BY <1>9 DEF vars
  <1> QED
    BY <1>1, <1>2, <1>3, <1>4, <1>5, <1>6, <1>7, <1>8, <1>9 DEF Next, Holder

\* A bash gets a command only where Write puts it.
LEMMA HasStep ==
    ASSUME Inv, [Next]_vars, NEW p \in Procs, NEW c \in Calls, Has(p, c)'
    PROVE  Has(p, c) \/ (Write /\ p = proc /\ c = execs)
  <1>0. /\ input \in [Procs -> Seq(Texts)] /\ fg \in [Procs -> {0} \cup Calls]
        /\ c \in Texts /\ c # 0
    BY Bounds DEF Inv, TypeInv
  <1> USE DEF Has
  <1>1. ASSUME input'[p] = input[p] \/ input'[p] = <<>>, fg'[p] \in {fg[p], 0}
        PROVE  Has(p, c)
    BY <1>0, <1>1, HoldsSeqs
  <1>2. CASE StartOnce
    <2>1. fg' = fg /\ (input' = input \/ input' = [input EXCEPT ![nproc + 1] = <<InitText>>])
      BY <1>2 DEF StartOnce
    <2>2. ~Holds(<<InitText>>, c)
      BY <1>0, Bounds DEF Holds
    <2> QED
      BY <1>0, <2>1, <2>2
  <1>3. CASE InitLine \/ Exec \/ TakeLine
    BY <1>1, <1>3 DEF InitLine, Exec, TakeLine, shellVars
  <1>4. CASE InitFail \/ PopenFails
    BY <1>1, <1>4, Fails
  <1>5. CASE Write
    <2>1. fg' = fg /\ input' = [input EXCEPT ![proc] = Append(@, execs)]
      BY <1>5 DEF Write
    <2>2. execs \in Texts
      BY <1>5, Bounds DEF Inv, NumbersInv, Pending, Write
    <2>3. p # proc => Has(p, c)
      BY <1>0, <2>1
    <2>4. p = proc => Has(p, c) \/ c = execs
      BY <1>0, <2>1, <2>2, HoldsSeqs
    <2> QED
      BY <1>5, <2>3, <2>4
  <1>6. CASE WriteFails \/ ShellDied \/ Timeout \/ Close
    BY <1>1, <1>6, Kills
  <1>7. CASE StopContainer
    BY <1>1, <1>7 DEF StopContainer
  <1>8. ASSUME NEW q \in Procs, Bash(q) \/ Read(q) PROVE Has(p, c)
    <2>1. CASE RunInit(q)
      BY <1>0, <2>1, HoldsSeqs DEF RunInit
    <2>2. CASE RunCommand(q)
      BY <1>0, <2>2, HoldsSeqs DEF RunCommand
    <2>3. CASE WriteLine(q) \/ Read(q)
      BY <1>1, <2>3 DEF WriteLine, Read
    <2>4. CASE EndCommand(q)
      <3>1. /\ fg' = [fg EXCEPT ![q] = 0]
            /\ input' = input \/ input' = [input EXCEPT ![q] = <<>>]
        BY <2>4, Zenon DEF EndCommand
      <3> QED
        BY <1>0, <1>1, <3>1
    <2> QED
      BY <1>8, <2>1, <2>2, <2>3, <2>4 DEF Bash
  <1>9. CASE UNCHANGED vars
    BY <1>1, <1>9 DEF vars
  <1> QED
    BY <1>2, <1>3, <1>4, <1>5, <1>6, <1>7, <1>8, <1>9 DEF Next, Holder

\* The only command to get its exit code is the one that is waited for, and its
\* bash has nothing else.
LEMMA EndedStep ==
    ASSUME Inv, [Next]_vars
    PROVE  \/ ended' = ended
           \/ /\ pc = "wait" /\ ended' = ended \cup {execs} /\ proc \in Procs
              /\ UNCHANGED <<proc, execs>> /\ ~Has(proc, execs)'
  <1>0. /\ input \in [Procs -> Seq(Texts)] /\ fg \in [Procs -> {0} \cup Calls]
    BY DEF Inv, TypeInv
  <1>1. CASE StartOnce \/ InitLine \/ Exec \/ Write \/ TakeLine
    BY <1>1 DEF StartOnce, InitLine, Exec, Write, TakeLine, histVars
  <1>2. CASE InitFail \/ PopenFails
    BY <1>2, Fails
  <1>3. CASE WriteFails \/ ShellDied \/ Timeout \/ Close
    BY <1>3, Kills
  <1>4. CASE StopContainer
    BY <1>4 DEF StopContainer
  <1>5. ASSUME NEW p \in Procs, Bash(p) \/ Read(p)
        PROVE  \/ ended' = ended
               \/ /\ pc = "wait" /\ ended' = ended \cup {execs} /\ proc \in Procs
                  /\ UNCHANGED <<proc, execs>> /\ ~Has(proc, execs)'
    <2>1. CASE ended' = ended
      BY <2>1
    <2>2. CASE ended' # ended
      <3>1. /\ p \in up /\ fg[p] # 0 /\ ended' = ended \cup {fg[p]}
            /\ fg' = [fg EXCEPT ![p] = 0] /\ UNCHANGED <<execs, proc, input>>
        BY <1>5, <2>2
        DEF Bash, RunInit, RunCommand, WriteLine, EndCommand, Read, startVars, histVars
      <3>2. p = proc /\ pc = "wait" /\ fg[p] = execs /\ input[p] = <<>>
        BY <3>1, Runs
      <3>3. execs \in Calls /\ execs # 0
        BY <3>2, Bounds DEF Inv, NumbersInv
      <3>4. ~Has(proc, execs)'
        BY <1>0, <3>1, <3>2, <3>3, EmptySeq, HoldsSeqs DEF Has
      <3> QED
        BY <3>1, <3>2, <3>3, <3>4
    <2> QED
      BY <2>1, <2>2
  <1>6. CASE UNCHANGED vars
    BY <1>6 DEF vars
  <1> QED
    BY <1>1, <1>2, <1>3, <1>4, <1>5, <1>6 DEF Next, Holder

LEMMA TextStep == Inv /\ TextInv /\ [Next]_vars => TextInv'
  <1> SUFFICES ASSUME Inv, TextInv, [Next]_vars PROVE TextInv'
    OBVIOUS
  <1>1. CASE Write
    <2>1. /\ pc = "write" /\ pc' = "wait" /\ UNCHANGED <<proc, execs, ended>>
      BY <1>1 DEF Write, startVars, histVars
    <2>2. execs \in Calls /\ execs \notin ended /\ Fresh(execs) /\ execs \in Nat
      BY <2>1, Bounds DEF Inv, NumbersInv, Pending, Fresh
    <2>3. ~Fresh(execs)' /\ \A c \in Calls : Fresh(c)' => Fresh(c)
      BY <2>1, <2>2, FreshStep DEF Fresh, Pending
    <2>4. \A p \in Procs, c \in Calls :
             Has(p, c)' => Has(p, c) \/ (p = proc /\ c = execs)
      BY HasStep
    <2>5. \A p \in Procs : ~Has(p, execs)
      BY <2>2 DEF TextInv
    <2>6. \A p \in Procs, c \in Calls : Has(p, c)' => c \notin ended' /\ ~Fresh(c)'
      BY <2>1, <2>2, <2>3, <2>4 DEF TextInv
    <2>7. \A p \in Procs \ {proc'} : ~Has(p, execs)'
      BY <2>1, <2>2, <2>4, <2>5
    <2> QED
      BY <2>1, <2>6, <2>7 DEF TextInv
  <1>2. CASE ~Write
    <2>1. \A p \in Procs, c \in Calls : Has(p, c)' => Has(p, c)
      BY <1>2, HasStep
    <2>2. \A c \in Calls : Fresh(c)' => Fresh(c)
      BY FreshStep
    <2>3. pc' = "wait" => pc = "wait" /\ UNCHANGED <<proc, execs>>
      BY <1>2, FreshStep
    <2>4. ASSUME NEW p \in Procs, NEW c \in Calls, Has(p, c)'
          PROVE  c \notin ended'
      <3>1. c \notin ended
        BY <2>1, <2>4 DEF TextInv
      <3>2. ASSUME c = execs, pc = "wait" PROVE p = proc
        BY <2>1, <2>4, <3>2 DEF TextInv
      <3> QED
        BY <2>4, <3>1, <3>2, EndedStep
    <2>5. pc = "wait" => execs \in Calls
      BY DEF Inv, NumbersInv
    <2>6. pc' = "wait" => \A p \in Procs \ {proc'} : ~Has(p, execs)'
      BY <2>1, <2>3, <2>5 DEF TextInv
    <2> QED
      BY <2>1, <2>2, <2>4, <2>6 DEF TextInv
  <1> QED
    BY <1>1, <1>2

LEMMA TextHolds == Spec => []TextInv
  <1> QED
    BY InitTexts, TextStep, InvHolds, PTL DEF Spec

\* A command that runs while no call waits for it never gave its call an exit
\* code, and no live process of the shell is in front of it.
THEOREM OrphanIsCutOffHolds == Spec => []OrphanIsCutOff
  <1>1. Inv /\ TextInv => OrphanIsCutOff
    <2> SUFFICES ASSUME Inv, TextInv, NEW p \in Procs, fg[p] # 0
                 PROVE  /\ fg[p] \notin ended
                        /\ p \notin up \/ (p = proc /\ pc = "wait" /\ fg[p] = execs)
      BY DEF OrphanIsCutOff
    <2>1. fg[p] \in Calls
      BY DEF Inv, TypeInv
    <2> QED
      BY <2>1, Runs DEF TextInv, Has
  <1> QED
    BY <1>1, InvHolds, TextHolds, PTL

-----------------------------------------------------------------------------
(* Counting lines.                                                         *)

\* How many lines of a call a sequence holds, as it grows and shrinks.
LEMMA LinesIn ==
    ASSUME NEW S, NEW s \in Seq(S), NEW c
    PROVE  /\ IsFiniteSet({k \in DOMAIN s : s[k] = Line("out", c)})
           /\ OwnLines(s, c) \in Nat
  <1>1. Len(s) \in Nat /\ DOMAIN s = 1..Len(s)
    OBVIOUS
  <1>2. IsFiniteSet(1..Len(s))
    BY <1>1, FS_Interval
  <1>3. {k \in DOMAIN s : s[k] = Line("out", c)} \in SUBSET (1..Len(s))
    BY <1>1
  <1>4. IsFiniteSet({k \in DOMAIN s : s[k] = Line("out", c)})
    BY <1>2, <1>3, FS_Subset
  <1> QED
    BY <1>4, FS_CardinalityType DEF OwnLines

LEMMA LinesNone ==
    ASSUME NEW s, NEW c, \A k \in DOMAIN s : s[k] # Line("out", c)
    PROVE  OwnLines(s, c) = 0
  <1>1. {k \in DOMAIN s : s[k] = Line("out", c)} = {}
    OBVIOUS
  <1> QED
    BY <1>1, FS_EmptySet DEF OwnLines

LEMMA LinesAppend ==
    ASSUME NEW S, NEW s \in Seq(S), NEW x \in S, NEW c
    PROVE  OwnLines(Append(s, x), c) = OwnLines(s, c) + IF x = Line("out", c) THEN 1 ELSE 0
  <1> DEFINE A == {k \in DOMAIN s : s[k] = Line("out", c)}
             B == {k \in DOMAIN Append(s, x) : Append(s, x)[k] = Line("out", c)}
  <1>1. /\ Len(s) \in Nat /\ DOMAIN s = 1..Len(s) /\ Append(s, x) \in Seq(S)
        /\ DOMAIN Append(s, x) = 1..(Len(s) + 1)
        /\ Append(s, x)[Len(s) + 1] = x
        /\ \A k \in 1..Len(s) : Append(s, x)[k] = s[k]
    OBVIOUS
  <1>2. /\ \A k : k \in 1..(Len(s) + 1) <=> k \in 1..Len(s) \/ k = Len(s) + 1
        /\ Len(s) + 1 \notin 1..Len(s)
    BY <1>1
  <1>3. IsFiniteSet(A) /\ Cardinality(A) \in Nat
    BY LinesIn, FS_CardinalityType
  <1>4. CASE x = Line("out", c)
    <2>1. B = A \cup {Len(s) + 1} /\ Len(s) + 1 \notin A
      BY <1>1, <1>2, <1>4
    <2>2. Cardinality(B) = Cardinality(A) + 1
      BY <1>3, <2>1, FS_AddElement
    <2> QED
      BY <1>4, <2>2 DEF OwnLines
  <1>5. CASE x # Line("out", c)
    <2>1. B = A
      BY <1>1, <1>2, <1>5
    <2>2. Cardinality(B) = Cardinality(A) + 0
      <3> HIDE DEF A, B
      <3> QED  BY <1>3, <2>1
    <2> QED
      BY <1>5, <2>2 DEF OwnLines
  <1> QED
    BY <1>4, <1>5

\* The head of a sequence is counted once: the rest is its tail, one place further.
LEMMA LinesTail ==
    ASSUME NEW S, NEW s \in Seq(S), s # <<>>, NEW c
    PROVE  OwnLines(s, c) = OwnLines(Tail(s), c) + IF Head(s) = Line("out", c) THEN 1 ELSE 0
  <1> DEFINE A == {k \in DOMAIN Tail(s) : Tail(s)[k] = Line("out", c)}
             B == {k \in DOMAIN s : s[k] = Line("out", c)}
             C == B \ {1}
             f == [k \in A |-> k + 1]
  <1>1. /\ Tail(s) \in Seq(S) /\ Head(s) = s[1]
        /\ Len(s) \in Nat \ {0} /\ Len(Tail(s)) = Len(s) - 1
        /\ \A k \in 1..(Len(s) - 1) : Tail(s)[k] = s[k + 1]
    BY TailSeq
  <1>2. DOMAIN Tail(s) = 1..(Len(s) - 1) /\ DOMAIN s = 1..Len(s)
    BY <1>1
  <1>3. IsFiniteSet(A) /\ IsFiniteSet(B) /\ Cardinality(A) \in Nat /\ Cardinality(B) \in Nat
    <2>1. IsFiniteSet(A) /\ IsFiniteSet(B)
      BY <1>1, LinesIn
    <2> HIDE DEF A, B
    <2> QED
      BY <2>1, FS_CardinalityType
  <1>4. Cardinality(C) = Cardinality(A)
    <2>1. \A k \in A : k \in Nat /\ k + 1 \in C
      BY <1>1, <1>2
    <2>2. \A j \in C : j \in Nat /\ j - 1 \in A /\ (j - 1) + 1 = j
      BY <1>1, <1>2
    <2>3. f \in Bijection(A, C)
      <3>1. f \in [A -> C]
        BY <2>1
      <3>2. \A j, k \in A : f[j] = f[k] => j = k
        BY <2>1
      <3>3. \A j \in C : \E k \in A : f[k] = j
        BY <2>2
      <3> HIDE DEF A, C, f
      <3>4. f \in Injection(A, C)
        BY <3>1, <3>2 DEF Injection, IsInjective
      <3>5. f \in Surjection(A, C)
        BY <3>1, <3>3 DEF Surjection
      <3> QED
        BY <3>4, <3>5 DEF Bijection
    <2> HIDE DEF A, C, f
    <2> QED
      BY <1>3, <2>3, FS_Bijection DEF ExistsBijection
  <1>5. 1 \in DOMAIN s
    BY <1>1, <1>2
  <1>6. CASE Head(s) = Line("out", c)
    <2>1. 1 \in B
      BY <1>1, <1>5, <1>6
    <2>2. Cardinality(C) = Cardinality(B) - 1
      BY <1>3, <2>1, FS_RemoveElement
    <2>3. Cardinality(B) = Cardinality(A) + 1
      <3> HIDE DEF A, B, C
      <3> QED  BY <1>3, <1>4, <2>2
    <2> QED
      BY <1>6, <2>3 DEF OwnLines
  <1>7. CASE Head(s) # Line("out", c)
    <2>1. C = B
      BY <1>1, <1>7
    <2>2. Cardinality(B) = Cardinality(A) + 0
      <3> HIDE DEF A, B, C
      <3> QED  BY <1>3, <1>4, <2>1
    <2> QED
      BY <1>7, <2>2 DEF OwnLines
  <1> QED
    BY <1>6, <1>7

-----------------------------------------------------------------------------
(* The way of the lines of call c: from the pipe s of its bash to the      *)
(* queue q and into the buffer b, n lines in all.                          *)

Lacks(s, x) == \A k \in 1..Len(s) : s[k] # x
NoLine(s, c) == Lacks(s, Line("out", c)) /\ Lacks(s, Line("end", c))

\* No line is lost, and none comes after the sentinel.
Ordered(s, c) ==
    \A j, k \in 1..Len(s) : s[j] = Line("end", c) /\ s[k] = Line("out", c) => k < j
Flow(b, q, s, n, c) ==
    /\ OwnLines(b, c) + OwnLines(q, c) + OwnLines(s, c) = n
    /\ Ordered(q, c) /\ Ordered(s, c)
    /\ Lacks(q, Line("end", c)) \/ Lacks(s, Line("out", c))

LEMMA TwoLines ==
    \A c \in Nat : /\ Line("out", c) \in Lines /\ Line("end", c) \in Lines
                   /\ Line("out", c) # Line("end", c)
  BY DEF Line, Lines

\* A sequence that lacks a line keeps lacking it.
LEMMA LacksSeqs ==
    ASSUME NEW S, NEW s \in Seq(S), NEW x, Lacks(s, x)
    PROVE  /\ s # <<>> => Lacks(Tail(s), x) /\ Head(s) # x
           /\ \A y \in S : y # x => Lacks(Append(s, y), x)
  <1>1. ASSUME s # <<>> PROVE Lacks(Tail(s), x) /\ Head(s) # x
    BY <1>1, TailSeq DEF Lacks
  <1>2. ASSUME NEW y \in S, y # x PROVE Lacks(Append(s, y), x)
    BY <1>2, AppendSeq DEF Lacks
  <1> QED
    BY <1>1, <1>2

\* No line of the call comes after its sentinel, however the sequence moves on.
LEMMA OrderedSeqs ==
    ASSUME NEW S, NEW s \in Seq(S), NEW c \in Nat, Ordered(s, c)
    PROVE  /\ s # <<>> => Ordered(Tail(s), c)
           /\ s # <<>> /\ Head(s) = Line("end", c) => Lacks(s, Line("out", c))
           /\ \A x \in S : x # Line("out", c) \/ Lacks(s, Line("end", c))
                 => Ordered(Append(s, x), c)
  <1>1. ASSUME s # <<>>
        PROVE  /\ Ordered(Tail(s), c)
               /\ Head(s) = Line("end", c) => Lacks(s, Line("out", c))
    <2>1. /\ Len(s) \in Nat \ {0} /\ Head(s) = s[1] /\ Len(Tail(s)) = Len(s) - 1
          /\ \A k \in 1..(Len(s) - 1) : Tail(s)[k] = s[k + 1]
      BY <1>1, TailSeq
    <2>2. \A j, k \in 1..Len(Tail(s)) :
             /\ j + 1 \in 1..Len(s) /\ k + 1 \in 1..Len(s)
             /\ Tail(s)[j] = s[j + 1] /\ Tail(s)[k] = s[k + 1]
             /\ k + 1 < j + 1 => k < j
      BY <2>1
    <2>3. Ordered(Tail(s), c)
      BY <2>2 DEF Ordered
    <2>4. 1 \in 1..Len(s) /\ \A k \in 1..Len(s) : ~(k < 1)
      BY <2>1
    <2>5. Head(s) = Line("end", c) => Lacks(s, Line("out", c))
      BY <2>1, <2>4 DEF Ordered, Lacks
    <2> QED
      BY <2>3, <2>5
  <1>2. ASSUME NEW x \in S, x # Line("out", c) \/ Lacks(s, Line("end", c))
        PROVE  Ordered(Append(s, x), c)
    <2> DEFINE t == Append(s, x)
    <2>1. /\ Len(s) \in Nat /\ Len(t) = Len(s) + 1 /\ t[Len(s) + 1] = x
          /\ \A k \in 1..Len(s) : t[k] = s[k]
      BY AppendSeq
    <2>2. /\ \A k \in 1..Len(t) : k \in 1..Len(s) \/ k = Len(s) + 1
          /\ \A k \in 1..Len(s) : k < Len(s) + 1
      BY <2>1
    <2> HIDE DEF t
    <2>3. SUFFICES ASSUME NEW j \in 1..Len(t), NEW k \in 1..Len(t),
                          t[j] = Line("end", c), t[k] = Line("out", c)
                   PROVE  k < j
      BY DEF Ordered, t
    <2>4. j # k
      BY <2>3, TwoLines
    <2>5. CASE j \in 1..Len(s) /\ k \in 1..Len(s)
      BY <2>1, <2>3, <2>5 DEF Ordered
    <2>6. CASE j = Len(s) + 1 /\ k \in 1..Len(s)
      BY <2>2, <2>6
    <2>7. CASE k = Len(s) + 1 /\ j \in 1..Len(s)
      BY <1>2, <2>1, <2>3, <2>7 DEF Lacks
    <2> QED
      BY <2>2, <2>4, <2>5, <2>6, <2>7
  <1> QED
    BY <1>1, <1>2

\* The call is written: its command has still to run.
LEMMA FlowStart ==
    ASSUME NEW q, NEW s, NEW c \in Nat, q \in Seq(Lines), s \in Seq(Lines),
           NoLine(q, c), NoLine(s, c)
    PROVE  Flow(<<>>, q, s, 0, c)
  <1>1. OwnLines(<<>>, c) = 0
    <2>1. DOMAIN <<>> = {}
      OBVIOUS
    <2> QED
      BY <2>1, LinesNone
  <1>2. DOMAIN q = 1..Len(q) /\ DOMAIN s = 1..Len(s)
    OBVIOUS
  <1>3. OwnLines(q, c) = 0 /\ OwnLines(s, c) = 0
    BY <1>2, LinesNone DEF NoLine, Lacks
  <1> QED
    BY <1>1, <1>3 DEF Flow, Ordered, NoLine, Lacks

\* The command, of which no sentinel is in flight, writes a line.
LEMMA FlowOut ==
    ASSUME NEW b, NEW q, NEW s, NEW n, NEW c \in Nat, b \in Seq(Lines),
           q \in Seq(Lines), s \in Seq(Lines), Flow(b, q, s, n, c),
           Lacks(q, Line("end", c)), Lacks(s, Line("end", c))
    PROVE  Flow(b, q, Append(s, Line("out", c)), n + 1, c)
  <1>1. OwnLines(Append(s, Line("out", c)), c) = OwnLines(s, c) + 1
    BY LinesAppend, TwoLines
  <1>2. Ordered(Append(s, Line("out", c)), c)
    BY OrderedSeqs, TwoLines DEF Flow
  <1>3. OwnLines(b, c) \in Nat /\ OwnLines(q, c) \in Nat /\ OwnLines(s, c) \in Nat
    BY LinesIn
  <1>4. OwnLines(b, c) + OwnLines(q, c) + (OwnLines(s, c) + 1) = n + 1
    BY <1>3 DEF Flow
  <1> QED
    BY <1>1, <1>2, <1>4 DEF Flow

\* The sentinel, or a line of another call, is written.
LEMMA FlowAppend ==
    ASSUME NEW b, NEW q, NEW s, NEW n, NEW c \in Nat, NEW x \in Lines, b \in Seq(Lines),
           q \in Seq(Lines), s \in Seq(Lines), Flow(b, q, s, n, c),
           x # Line("out", c)
    PROVE  Flow(b, q, Append(s, x), n, c)
  <1>1. OwnLines(Append(s, x), c) = OwnLines(s, c) + 0
    BY LinesAppend
  <1>2. OwnLines(s, c) + 0 = OwnLines(s, c)
    <2>1. OwnLines(s, c) \in Nat
      BY LinesIn
    <2> QED
      BY <2>1
  <1>3. Ordered(Append(s, x), c)
    BY OrderedSeqs DEF Flow
  <1>4. Lacks(s, Line("out", c)) => Lacks(Append(s, x), Line("out", c))
    BY LacksSeqs
  <1> QED
    BY <1>1, <1>2, <1>3, <1>4 DEF Flow

\* A reader of another bash passes a line of another call on.
LEMMA FlowOther ==
    ASSUME NEW b, NEW q, NEW s, NEW n, NEW c \in Nat, NEW x \in Lines, b \in Seq(Lines),
           q \in Seq(Lines), s \in Seq(Lines), Flow(b, q, s, n, c),
           x # Line("out", c), x # Line("end", c)
    PROVE  Flow(b, Append(q, x), s, n, c)
  <1>1. OwnLines(Append(q, x), c) = OwnLines(q, c) + 0
    BY LinesAppend
  <1>2. OwnLines(q, c) + 0 = OwnLines(q, c)
    <2>1. OwnLines(q, c) \in Nat
      BY LinesIn
    <2> QED
      BY <2>1
  <1>3. Ordered(Append(q, x), c)
    BY OrderedSeqs DEF Flow
  <1>4. Lacks(q, Line("end", c)) => Lacks(Append(q, x), Line("end", c))
    BY LacksSeqs
  <1> QED
    BY <1>1, <1>2, <1>3, <1>4 DEF Flow

\* The reader of the bash passes a line on.
LEMMA FlowRead ==
    ASSUME NEW b, NEW q, NEW s, NEW n, NEW c \in Nat, b \in Seq(Lines),
           q \in Seq(Lines), s \in Seq(Lines), s # <<>>, Flow(b, q, s, n, c)
    PROVE  Flow(b, Append(q, Head(s)), Tail(s), n, c)
  <1>1. Head(s) \in Lines /\ Tail(s) \in Seq(Lines)
    BY TailSeq
  <1>2. PICK i \in {0, 1} : i = IF Head(s) = Line("out", c) THEN 1 ELSE 0
    OBVIOUS
  <1>3. /\ OwnLines(Append(q, Head(s)), c) = OwnLines(q, c) + i
        /\ OwnLines(s, c) = OwnLines(Tail(s), c) + i
    BY <1>1, <1>2, LinesAppend, LinesTail
  <1>4. /\ OwnLines(b, c) \in Nat /\ OwnLines(q, c) \in Nat /\ OwnLines(s, c) \in Nat
        /\ OwnLines(Tail(s), c) \in Nat
    BY <1>1, LinesIn
  <1>5. OwnLines(b, c) + OwnLines(Append(q, Head(s)), c) + OwnLines(Tail(s), c) = n
    BY <1>3, <1>4 DEF Flow
  <1>6. Head(s) # Line("out", c) \/ Lacks(q, Line("end", c))
    BY LacksSeqs DEF Flow
  <1>7. Ordered(Append(q, Head(s)), c) /\ Ordered(Tail(s), c)
    BY <1>1, <1>6, OrderedSeqs DEF Flow
  <1>8. \/ Lacks(Append(q, Head(s)), Line("end", c))
        \/ Lacks(Tail(s), Line("out", c))
    <2>1. CASE Lacks(s, Line("out", c))
      BY <2>1, LacksSeqs
    <2>2. CASE Head(s) = Line("end", c)
      BY <2>2, LacksSeqs, OrderedSeqs DEF Flow
    <2>3. CASE Lacks(q, Line("end", c)) /\ Head(s) # Line("end", c)
      BY <1>1, <2>3, LacksSeqs
    <2> QED
      BY <2>1, <2>2, <2>3 DEF Flow
  <1> QED
    BY <1>5, <1>7, <1>8 DEF Flow

\* The call takes a line that is not its sentinel.
LEMMA FlowTake ==
    ASSUME NEW b, NEW q, NEW s, NEW n, NEW c \in Nat, b \in Seq(Lines),
           q \in Seq(Lines), s \in Seq(Lines), q # <<>>, Flow(b, q, s, n, c)
    PROVE  Flow(Append(b, Head(q)), Tail(q), s, n, c)
  <1>1. Head(q) \in Lines /\ Tail(q) \in Seq(Lines)
    BY TailSeq
  <1>2. PICK i \in {0, 1} : i = IF Head(q) = Line("out", c) THEN 1 ELSE 0
    OBVIOUS
  <1>3. /\ OwnLines(Append(b, Head(q)), c) = OwnLines(b, c) + i
        /\ OwnLines(q, c) = OwnLines(Tail(q), c) + i
    BY <1>1, <1>2, LinesAppend, LinesTail
  <1>4. /\ OwnLines(b, c) \in Nat /\ OwnLines(q, c) \in Nat /\ OwnLines(s, c) \in Nat
        /\ OwnLines(Tail(q), c) \in Nat
    BY <1>1, LinesIn
  <1>5. OwnLines(Append(b, Head(q)), c) + OwnLines(Tail(q), c) + OwnLines(s, c) = n
    BY <1>3, <1>4 DEF Flow
  <1>6. Ordered(Tail(q), c) /\ Ordered(s, c)
    BY OrderedSeqs DEF Flow
  <1>7. Lacks(q, Line("end", c)) => Lacks(Tail(q), Line("end", c))
    BY LacksSeqs
  <1> QED
    BY <1>5, <1>6, <1>7 DEF Flow

\* The sentinel comes last: the call has all its lines.
LEMMA FlowLast ==
    ASSUME NEW b, NEW q, NEW s, NEW n, NEW c \in Nat, b \in Seq(Lines),
           q \in Seq(Lines), s \in Seq(Lines), q # <<>>, Flow(b, q, s, n, c),
           Head(q) = Line("end", c)
    PROVE  OwnLines(b, c) = n
  <1>1. Lacks(q, Line("out", c))
    BY OrderedSeqs DEF Flow
  <1>2. Lacks(s, Line("out", c))
    BY LacksSeqs DEF Flow
  <1>3. DOMAIN q = 1..Len(q) /\ DOMAIN s = 1..Len(s)
    OBVIOUS
  <1>4. OwnLines(q, c) = 0 /\ OwnLines(s, c) = 0
    BY <1>1, <1>2, <1>3, LinesNone DEF Lacks
  <1>5. OwnLines(b, c) \in Nat
    BY LinesIn
  <1> QED
    BY <1>4, <1>5 DEF Flow

-----------------------------------------------------------------------------
(* The output of a call.                                                   *)

\* The lines of the call that waits are where only its own bash puts them.
OwnBash ==
    /\ proc \in Procs
    /\ Flow(buf, queue, pipe[proc], emitted[execs], execs)
    /\ \A p \in Procs \ {proc} : fg[p] # execs /\ NoLine(pipe[p], execs)

AllLines == result.kind = "ok" => OwnLines(result.out, result.call) = emitted[result.call]

OutputInv ==
    /\ \A p \in Procs : fg[p] \notin ended
    /\ \A c \in Calls : Fresh(c) =>
          /\ emitted[c] = 0
          /\ NoLine(queue, c)
          /\ \A p \in Procs : fg[p] # c /\ NoLine(pipe[p], c)
    /\ buf \in Seq(Lines)
    /\ IF pc = "wait" THEN OwnBash ELSE buf = <<>>
    /\ AllLines

LEMMA InitOutput == Init => OutputInv
  <1> SUFFICES ASSUME Init PROVE OutputInv
    OBVIOUS
  <1>1. /\ pc = "start" /\ goal = "new" /\ execs = 0 /\ buf = <<>> /\ ended = {}
        /\ queue = <<>> /\ emitted = [c \in Calls |-> 0]
        /\ fg = [p \in Procs |-> 0] /\ pipe = [p \in Procs |-> <<>>]
    BY DEF Init
  <1>2. result.kind = "none"
    BY DEF Init, NoResult
  <1>3. \A c : NoLine(<<>>, c)
    BY DEF NoLine, Lacks
  <1>4. \A c \in Calls : c # 0
    BY Bounds
  <1>5. <<>> \in Seq(Lines)
    OBVIOUS
  <1> QED
    BY <1>1, <1>2, <1>3, <1>4, <1>5 DEF OutputInv, AllLines

\* The bash p begins the command of call d, which is no news.
Begins(p, d) == /\ d \notin ended /\ ~Fresh(d)
                /\ pc = "wait" /\ p # proc => d # execs
                /\ fg' = [fg EXCEPT ![p] = d]

\* What the bash p does.
BashMove(p) ==
    \/ /\ pipe' = [pipe EXCEPT ![p] = Append(@, Line("init", p))]
       /\ UNCHANGED <<fg, emitted, ended>>
    \/ /\ \E d \in Calls : Begins(p, d)
       /\ UNCHANGED <<pipe, emitted, ended>>
    \/ /\ fg[p] # 0
       /\ emitted' = [emitted EXCEPT ![fg[p]] = @ + 1]
       /\ pipe' = [pipe EXCEPT ![p] = Append(@, Line("out", fg[p]))]
       /\ UNCHANGED <<fg, ended>>
    \/ /\ pc = "wait" /\ p = proc /\ fg[p] = execs /\ fg[p] # 0
       /\ fg' = [fg EXCEPT ![p] = 0]
       /\ pipe' = [pipe EXCEPT ![p] = Append(@, Line("end", execs))]
       /\ ended' = ended \cup {execs}
       /\ UNCHANGED emitted
    \/ /\ fg' = fg \/ fg' = [fg EXCEPT ![p] = 0]
       /\ UNCHANGED <<pipe, emitted, ended>>

LEMMA BashMoves ==
    ASSUME Inv, TextInv, NEW p \in Procs, Bash(p)
    PROVE  /\ UNCHANGED <<pc, goal, proc, queue, execs, buf, result>>
           /\ BashMove(p)
  <1>1. UNCHANGED <<pc, goal, proc, queue, execs, buf, result>>
    BY DEF Bash, RunInit, RunCommand, WriteLine, EndCommand, startVars
  <1>2. CASE RunInit(p)
    <2>1. /\ pipe' = pipe \/ pipe' = [pipe EXCEPT ![p] = Append(@, Line("init", p))]
          /\ UNCHANGED <<fg, emitted, ended>>
      BY <1>2 DEF RunInit, Prints, histVars
    <2> QED
      BY <1>1, <2>1, Zenon DEF BashMove
  <1>3. CASE RunCommand(p)
    <2>1. /\ input[p] # <<>> /\ Head(input[p]) # InitText
          /\ fg' = [fg EXCEPT ![p] = Head(input[p])]
          /\ UNCHANGED <<pipe, emitted, ended>>
      BY <1>3 DEF RunCommand, histVars
    <2>2. input[p] \in Seq(Texts) /\ Head(input[p]) \in Calls
      BY <2>1, TailSeq, Bounds DEF Inv, TypeInv
    <2>3. Has(p, Head(input[p]))
      BY <2>1, <2>2, HoldsSeqs DEF Has
    <2>4. Begins(p, Head(input[p]))
      <3>1. /\ Head(input[p]) \notin ended /\ ~Fresh(Head(input[p]))
            /\ pc = "wait" /\ p # proc => Head(input[p]) # execs
        BY <2>2, <2>3 DEF TextInv
      <3> QED
        BY <2>1, <3>1, Zenon DEF Begins
    <2> QED
      BY <1>1, <2>1, <2>2, <2>4, Zenon DEF BashMove
  <1>4. CASE WriteLine(p)
    <2>1. /\ fg[p] # 0
          /\ emitted' = [emitted EXCEPT ![fg[p]] = @ + 1]
          /\ pipe' = [pipe EXCEPT ![p] = Append(@, Line("out", fg[p]))]
          /\ UNCHANGED <<fg, ended>>
      BY <1>4 DEF WriteLine
    <2> QED
      BY <1>1, <2>1, Zenon DEF BashMove
  <1>5. CASE EndCommand(p)
    <2>1. /\ fg[p] # 0 /\ fg' = [fg EXCEPT ![p] = 0] /\ emitted' = emitted
          /\ \/ /\ p \in up /\ ended' = ended \cup {fg[p]}
                /\ pipe' = [pipe EXCEPT ![p] = Append(@, Line("end", fg[p]))]
             \/ UNCHANGED <<pipe, ended>>
      BY <1>5, Zenon DEF EndCommand
    <2>2. p \in up => p = proc /\ pc = "wait" /\ fg[p] = execs
      BY <2>1, Runs
    <2>3. CASE p \in up /\ ended' = ended \cup {fg[p]}
               /\ pipe' = [pipe EXCEPT ![p] = Append(@, Line("end", fg[p]))]
      <3>1. /\ ended' = ended \cup {execs}
            /\ pipe' = [pipe EXCEPT ![p] = Append(@, Line("end", execs))]
        BY <2>2, <2>3
      <3> QED
        BY <1>1, <2>1, <2>2, <2>3, <3>1, Zenon DEF BashMove
    <2>4. CASE UNCHANGED <<pipe, ended>>
      BY <1>1, <2>1, <2>4, Zenon DEF BashMove
    <2> QED
      BY <2>1, <2>3, <2>4
  <1> QED
    BY <1>1, <1>2, <1>3, <1>4, <1>5, Zenon DEF Bash

\* What the holder of the lock does to the output, unless it takes a line or writes
\* the command; a call that is fresh afterwards was before.
Holding ==
    /\ UNCHANGED <<fg, pipe, emitted, ended>>
    /\ \A c \in Calls : Fresh(c)' => Fresh(c)
    /\ queue' \in {queue, <<>>} \/ (queue # <<>> /\ queue' = Tail(queue))
    /\ pc' # "wait" /\ (buf' = <<>> \/ (buf' = buf /\ pc # "wait"))
    /\ result' = result \/ result'.kind # "ok"

LEMMA HolderMoves ==
    ASSUME Inv, [Next]_vars
    PROVE  \/ Holding
           \/ Write \/ TakeLine \/ StopContainer
           \/ \E p \in Procs : Bash(p) \/ Read(p)
           \/ UNCHANGED <<pc, goal, proc, queue, execs, buf, result, fg, pipe, emitted,
                          ended>>
  <1>0. execs \in Nat
    BY Bounds DEF Inv, TypeInv
  <1>1. CASE StartOnce
    BY <1>1 DEF StartOnce, histVars, Holding, Fresh, Pending
  <1>2. CASE InitLine
    BY <1>2 DEF InitLine, startVars, shellVars, histVars, Holding, Fresh, Pending
  <1>3. CASE InitFail \/ PopenFails
    BY <1>3, Fails, FreshStep DEF Holding
  <1>4. CASE Exec
    <2>1. /\ pc = "free" /\ pc' # "wait" /\ execs' = execs + 1 /\ buf' = <<>>
          /\ UNCHANGED <<fg, pipe, emitted, ended, queue, result>>
      BY <1>4 DEF Exec, shellVars, histVars
    <2>2. \A c \in Calls : Fresh(c)' => Fresh(c)
      BY <1>0, <2>1, Bounds DEF Fresh
    <2> QED
      BY <2>1, <2>2 DEF Holding
  <1>5. CASE WriteFails \/ ShellDied \/ Timeout
    <2>1. /\ UNCHANGED <<pipe, queue, ended, fg, emitted, execs>>
          /\ pc' = "start" /\ goal' = "restart" /\ buf' = <<>>
      BY <1>5 DEF WriteFails, ShellDied, Timeout, KillAndRestart, Kill, histVars
    <2>2. result'.kind # "ok"
      BY <1>5, Answer, Zenon DEF WriteFails, ShellDied, Timeout, Return
    <2>3. \A c \in Calls : Fresh(c)' => Fresh(c)
      BY <2>1 DEF Fresh, Pending
    <2> QED
      BY <2>1, <2>2, <2>3 DEF Holding
  <1>6. CASE Close
    BY <1>6 DEF Close, Kill, Holding, Fresh, Pending
  <1>7. CASE UNCHANGED vars
    BY <1>7 DEF vars
  <1> QED
    BY <1>1, <1>2, <1>3, <1>4, <1>5, <1>6, <1>7 DEF Next, Holder

LEMMA NoLineSeqs ==
    ASSUME NEW s \in Seq(Lines), NEW c, NoLine(s, c)
    PROVE  /\ NoLine(<<>>, c)
           /\ s # <<>> => /\ NoLine(Tail(s), c) /\ Head(s) \in Lines
                          /\ Head(s) # Line("out", c) /\ Head(s) # Line("end", c)
           /\ \A x \in Lines : x # Line("out", c) /\ x # Line("end", c)
                                  => NoLine(Append(s, x), c)
  <1>1. NoLine(<<>>, c)
    BY DEF NoLine, Lacks
  <1>2. s # <<>> => Head(s) \in Lines
    BY TailSeq
  <1> QED
    BY <1>1, <1>2, LacksSeqs DEF NoLine

\* The types that the output needs.
LEMMA OutputTypes ==
    ASSUME Inv
    PROVE  /\ fg \in [Procs -> {0} \cup Calls] /\ pipe \in [Procs -> Seq(Lines)]
           /\ queue \in Seq(Lines) /\ emitted \in [Calls -> Nat]
           /\ execs \in Nat /\ ended \subseteq Calls /\ 0 \notin Calls
           /\ Calls \subseteq Nat /\ Procs \subseteq Nat
           /\ result.kind = "ok" => result.call \in ended
           /\ pc = "wait" \/ Pending => execs \in Calls
  <1>1. emitted \in [Calls -> Nat]
    <2>1. 0..MaxLines \subseteq Nat /\ emitted \in [Calls -> 0..MaxLines]
      BY Bounds DEF Inv, TypeInv
    <2> QED  BY <2>1
  <1> QED
    BY <1>1, Bounds DEF Inv, TypeInv, SentinelInv, NumbersInv

\* Lines that differ.
LEMMA OtherLines ==
    \A c, d \in Nat, p \in Nat :
        /\ Line("init", p) \in Lines /\ Line("out", d) \in Lines /\ Line("end", d) \in Lines
        /\ Line("init", p) # Line("out", c) /\ Line("init", p) # Line("end", c)
        /\ Line("end", d) # Line("out", c) /\ Line("out", d) # Line("end", c)
        /\ c # d => Line("out", d) # Line("out", c) /\ Line("end", d) # Line("end", c)
  BY DEF Line, Lines

\* The steps of the holder that do not touch the output of a call.
LEMMA HoldingOutput ==
    ASSUME Inv, OutputInv, Holding
    PROVE  OutputInv'
  <1>1. \A p \in Procs : fg'[p] \notin ended'
    BY DEF OutputInv, Holding
  <1>2. ASSUME NEW c \in Calls, Fresh(c)'
        PROVE  /\ emitted'[c] = 0 /\ NoLine(queue', c)
               /\ \A p \in Procs : fg'[p] # c /\ NoLine(pipe'[p], c)
    <2>1. /\ emitted[c] = 0 /\ NoLine(queue, c)
          /\ \A p \in Procs : fg[p] # c /\ NoLine(pipe[p], c)
      BY <1>2 DEF Holding, OutputInv
    <2>2. NoLine(queue', c)
      BY <2>1, OutputTypes, NoLineSeqs DEF Holding
    <2> QED
      BY <2>1, <2>2 DEF Holding
  <1>3. buf' = <<>> /\ <<>> \in Seq(Lines) /\ pc' # "wait"
    BY DEF Holding, OutputInv
  <1>4. AllLines'
    BY DEF AllLines, Holding, OutputInv
  <1> QED
    BY <1>1, <1>2, <1>3, <1>4 DEF OutputInv

\* With the container every command ends.
LEMMA StopOutput ==
    ASSUME Inv, OutputInv, StopContainer
    PROVE  OutputInv'
  <1>1. /\ UNCHANGED <<pc, goal, proc, pipe, queue, execs, buf, result, emitted, ended>>
        /\ \A p \in Procs : fg'[p] = 0
    BY DEF StopContainer, startVars
  <1>2. /\ ended \subseteq Calls /\ 0 \notin Calls
        /\ pc = "wait" => execs \in Calls
    BY OutputTypes
  <1>3. \A c \in Calls : Fresh(c)' => Fresh(c)
    BY <1>1 DEF Fresh, Pending
  <1>4. pc = "wait" => OwnBash'
    BY <1>1, <1>2 DEF OutputInv, OwnBash
  <1> QED
    BY <1>1, <1>2, <1>3, <1>4 DEF OutputInv, AllLines

\* A command that is written has no line anywhere.
LEMMA WriteOutput ==
    ASSUME Inv, OutputInv, Write
    PROVE  OutputInv'
  <1>1. /\ pc = "write" /\ pc' = "wait" /\ proc' = proc /\ proc \in up
        /\ UNCHANGED <<fg, pipe, queue, execs, buf, emitted, ended, result>>
    BY DEF Write, startVars, histVars
  <1>2. proc \in Procs /\ execs \in Calls
    <2>1. execs \in Calls
      BY <1>1, OutputTypes DEF Pending
    <2>2. nproc \in 0..MaxProcs /\ up \subseteq 1..nproc
      BY DEF Inv, TypeInv
    <2>3. up \subseteq Procs
      BY <2>2, Bounds
    <2> QED
      BY <1>1, <2>1, <2>3
  <1>3. /\ emitted[execs] = 0 /\ NoLine(queue, execs)
        /\ \A p \in Procs : fg[p] # execs /\ NoLine(pipe[p], execs)
    BY <1>1, <1>2 DEF OutputInv, Fresh, Pending
  <1>4. buf = <<>>
    BY <1>1 DEF OutputInv
  <1>5. Flow(<<>>, queue, pipe[proc], 0, execs)
    BY <1>2, <1>3, OutputTypes, FlowStart
  <1>6. OwnBash'
    BY <1>1, <1>2, <1>3, <1>4, <1>5 DEF OwnBash
  <1>7. \A c \in Calls : Fresh(c)' => Fresh(c)
    BY <1>1 DEF Fresh, Pending
  <1> QED
    BY <1>1, <1>6, <1>7 DEF OutputInv, AllLines

\* The call takes a line: its sentinel finds all lines in the buffer.
LEMMA TakeOutput ==
    ASSUME Inv, OutputInv, TakeLine
    PROVE  OutputInv'
  <1>1. /\ pc = "wait" /\ queue # <<>> /\ queue' = Tail(queue)
        /\ UNCHANGED <<goal, proc, fg, pipe, execs, emitted, ended>>
    BY DEF TakeLine, startVars, shellVars, histVars
  <1>2. OwnBash /\ execs \in Calls /\ execs \in Nat /\ buf \in Seq(Lines)
    BY <1>1, OutputTypes DEF OutputInv
  <1>3. pipe[proc] \in Seq(Lines) /\ queue \in Seq(Lines) /\ emitted[execs] \in Nat
    BY <1>2, OutputTypes DEF OwnBash
  <1>4. ASSUME NEW c \in Calls, Fresh(c)', pc' \in {"wait", "free"}
        PROVE  /\ emitted'[c] = 0 /\ NoLine(queue', c)
               /\ \A p \in Procs : fg'[p] # c /\ NoLine(pipe'[p], c)
    <2>1. Fresh(c)
      BY <1>1, <1>4 DEF Fresh, Pending
    <2>2. /\ emitted[c] = 0 /\ NoLine(queue, c)
          /\ \A p \in Procs : fg[p] # c /\ NoLine(pipe[p], c)
      BY <2>1 DEF OutputInv
    <2>3. NoLine(queue', c)
      BY <1>1, <1>3, <2>2, NoLineSeqs
    <2> QED
      BY <1>1, <2>2, <2>3
  <1>5. CASE Head(queue) = Line("end", execs)
    <2>1. /\ pc' = "free" /\ buf' = <<>>
          /\ result' = [kind |-> "ok", call |-> execs, out |-> buf]
      BY <1>5 DEF TakeLine, IsSentinel, Return
    <2>2. OwnLines(buf, execs) = emitted[execs]
      BY <1>1, <1>2, <1>3, <1>5, FlowLast DEF OwnBash
    <2>3. result'.call = execs /\ result'.out = buf
      BY <2>1
    <2>4. AllLines'
      BY <1>1, <2>2, <2>3 DEF AllLines
    <2>5. <<>> \in Seq(Lines)
      OBVIOUS
    <2> QED
      BY <1>1, <1>4, <2>1, <2>4, <2>5 DEF OutputInv
  <1>6. CASE Head(queue) # Line("end", execs)
    <2>1. pc' = pc /\ result' = result /\ buf' = Append(buf, Head(queue))
      BY <1>6 DEF TakeLine, IsSentinel
    <2>2. Flow(Append(buf, Head(queue)), Tail(queue), pipe[proc], emitted[execs], execs)
      BY <1>1, <1>2, <1>3, FlowTake DEF OwnBash
    <2>3. OwnBash'
      BY <1>1, <1>2, <2>1, <2>2 DEF OwnBash
    <2>4. buf' \in Seq(Lines)
      BY <1>1, <1>2, <1>3, <2>1, TailSeq, AppendSeq
    <2>5. AllLines'
      BY <1>1, <2>1 DEF AllLines, OutputInv
    <2> QED
      BY <1>1, <1>4, <2>1, <2>3, <2>4, <2>5 DEF OutputInv
  <1> QED
    BY <1>5, <1>6

\* A reader, of the bash that is waited for or of an earlier one, passes a line on.
LEMMA ReadOutput ==
    ASSUME Inv, OutputInv, NEW p \in Procs, Read(p)
    PROVE  OutputInv'
  <1>1. /\ pipe[p] # <<>> /\ queue' = Append(queue, Head(pipe[p]))
        /\ pipe' = [pipe EXCEPT ![p] = Tail(@)]
        /\ UNCHANGED <<pc, goal, proc, fg, execs, buf, emitted, ended, result>>
    BY DEF Read, startVars, histVars
  <1>2. /\ pipe[p] \in Seq(Lines) /\ Head(pipe[p]) \in Lines /\ Tail(pipe[p]) \in Seq(Lines)
        /\ queue \in Seq(Lines)
        /\ pipe'[p] = Tail(pipe[p])
        /\ \A q \in Procs : q # p => pipe'[q] = pipe[q]
    BY <1>1, OutputTypes, TailSeq
  <1>3. ASSUME NEW c \in Calls, Fresh(c)'
        PROVE  /\ emitted'[c] = 0 /\ NoLine(queue', c)
               /\ \A q \in Procs : fg'[q] # c /\ NoLine(pipe'[q], c)
    <2>1. Fresh(c)
      BY <1>1, <1>3 DEF Fresh, Pending
    <2>2. /\ emitted[c] = 0 /\ NoLine(queue, c)
          /\ \A q \in Procs : fg[q] # c /\ NoLine(pipe[q], c)
      BY <2>1 DEF OutputInv
    <2>3. NoLine(Tail(pipe[p]), c) /\ NoLine(queue', c)
      BY <1>1, <1>2, <2>2, NoLineSeqs
    <2> QED
      BY <1>1, <1>2, <2>2, <2>3
  <1>4. ASSUME pc = "wait" PROVE OwnBash'
    <2>1. OwnBash /\ execs \in Calls /\ execs \in Nat /\ buf \in Seq(Lines)
      BY <1>4, OutputTypes DEF OutputInv
    <2>2. /\ proc \in Procs /\ pipe[proc] \in Seq(Lines)
          /\ Flow(buf, queue, pipe[proc], emitted[execs], execs)
          /\ \A q \in Procs : q # proc => fg[q] # execs /\ NoLine(pipe[q], execs)
      BY <2>1, OutputTypes DEF OwnBash
    <2>3. Flow(buf, queue', pipe'[proc], emitted[execs], execs)
      <3>1. CASE p = proc
        BY <1>1, <1>2, <2>1, <2>2, <3>1, FlowRead
      <3>2. CASE p # proc
        <4>1. /\ NoLine(pipe[p], execs)
              /\ Head(pipe[p]) # Line("out", execs) /\ Head(pipe[p]) # Line("end", execs)
          BY <1>1, <1>2, <2>2, <3>2, NoLineSeqs
        <4>2. Flow(buf, Append(queue, Head(pipe[p])), pipe[proc], emitted[execs], execs)
          BY <1>2, <2>1, <2>2, <4>1, FlowOther
        <4> QED
          BY <1>1, <1>2, <2>2, <3>2, <4>2
      <3> QED
        BY <3>1, <3>2
    <2>4. \A q \in Procs : q # proc => fg[q] # execs /\ NoLine(pipe'[q], execs)
      <3>1. p # proc => NoLine(Tail(pipe[p]), execs)
        BY <1>1, <1>2, <2>2, NoLineSeqs
      <3> QED
        BY <1>2, <2>2, <3>1
    <2> QED
      BY <1>1, <2>2, <2>3, <2>4 DEF OwnBash
  <1>5. (\A q \in Procs : fg[q] \notin ended) /\ AllLines'
    BY <1>1 DEF OutputInv, AllLines
  <1>6. buf' \in Seq(Lines) /\ (pc # "wait" => buf' = <<>>)
    BY <1>1 DEF OutputInv
  <1> QED
    BY <1>1, <1>3, <1>4, <1>5, <1>6 DEF OutputInv

\* A bash reads, writes or ends.
LEMMA BashOutput ==
    ASSUME Inv, TextInv, OutputInv, NEW p \in Procs, Bash(p)
    PROVE  OutputInv'
  <1>1. /\ UNCHANGED <<pc, goal, proc, queue, execs, buf, result>>
        /\ BashMove(p)
    BY BashMoves
  <1>2. /\ fg \in [Procs -> {0} \cup Calls] /\ pipe \in [Procs -> Seq(Lines)]
        /\ queue \in Seq(Lines) /\ emitted \in [Calls -> Nat]
        /\ execs \in Nat /\ 0 \notin Calls /\ fg[p] \in Nat /\ p \in Nat
        /\ ended \subseteq Calls /\ Calls \subseteq Nat
    BY OutputTypes
  <1>3. /\ pc = "wait" => OwnBash /\ execs \in Calls
        /\ buf \in Seq(Lines) /\ \A q \in Procs : fg[q] \notin ended
    BY OutputTypes DEF OutputInv
  <1>4. pc = "wait" =>
           /\ proc \in Procs
           /\ Flow(buf, queue, pipe[proc], emitted[execs], execs)
           /\ \A q \in Procs : q # proc => fg[q] # execs /\ NoLine(pipe[q], execs)
    BY <1>3 DEF OwnBash
  \* No sentinel is in flight of a command that has not ended.
  <1>5. \A c \in Calls : c \notin ended =>
           Lacks(queue, Line("end", c)) /\ \A q \in Procs : Lacks(pipe[q], Line("end", c))
    <2>1. AllEnded(queue, ended) /\ \A q \in Procs : AllEnded(pipe[q], ended)
      BY DEF Inv, SentinelInv
    <2>2. \A c \in Calls : Line("end", c)[1] = "end" /\ Line("end", c)[2] = c
      BY DEF Line
    <2> QED
      BY <2>1, <2>2 DEF AllEnded, Lacks
  <1>6. \A c \in Calls : Fresh(c)' <=> Fresh(c)
    BY <1>1 DEF Fresh, Pending
  <1>7. \A c \in Calls : Fresh(c) =>
           /\ emitted[c] = 0 /\ NoLine(queue, c)
           /\ \A q \in Procs : fg[q] # c /\ NoLine(pipe[q], c)
    BY DEF OutputInv
  <1>8. pc = "wait" => ~Fresh(execs)
    BY <1>2 DEF Fresh, Pending
  <1>9. result.kind = "ok" => /\ result.call \in ended
                              /\ OwnLines(result.out, result.call) = emitted[result.call]
    BY OutputTypes DEF OutputInv, AllLines
  <1>10. buf' \in Seq(Lines) /\ (pc' # "wait" => buf' = <<>>)
    BY <1>1 DEF OutputInv
  \* What is left to show of each move.
  <1>11. ASSUME \A q \in Procs : fg'[q] \notin ended',
                \A c \in Calls : Fresh(c) =>
                   emitted'[c] = 0 /\ \A q \in Procs : fg'[q] # c /\ NoLine(pipe'[q], c),
                pc = "wait" =>
                   /\ Flow(buf, queue, pipe'[proc], emitted'[execs], execs)
                   /\ \A q \in Procs : q # proc => fg'[q] # execs /\ NoLine(pipe'[q], execs),
                \A c \in ended : emitted'[c] = emitted[c]
         PROVE  OutputInv'
    <2>1. \A c \in Calls : Fresh(c)' =>
             /\ emitted'[c] = 0 /\ NoLine(queue', c)
             /\ \A q \in Procs : fg'[q] # c /\ NoLine(pipe'[q], c)
      BY <1>1, <1>6, <1>7, <1>11
    <2>2. pc' = "wait" => OwnBash'
      BY <1>1, <1>4, <1>11 DEF OwnBash
    <2>3. AllLines'
      BY <1>1, <1>9, <1>11 DEF AllLines
    <2> QED
      BY <1>10, <1>11, <2>1, <2>2, <2>3 DEF OutputInv
  \* A line of no call.
  <1>12. CASE /\ pipe' = [pipe EXCEPT ![p] = Append(@, Line("init", p))]
              /\ UNCHANGED <<fg, emitted, ended>>
    <2>1. /\ pipe'[p] = Append(pipe[p], Line("init", p)) /\ pipe[p] \in Seq(Lines)
          /\ \A q \in Procs : q # p => pipe'[q] = pipe[q]
      BY <1>2, <1>12
    <2>2. \A c \in Calls : NoLine(pipe[p], c) => NoLine(pipe'[p], c)
      BY <1>2, <2>1, NoLineSeqs, OtherLines
    <2>3. pc = "wait" => Flow(buf, queue, pipe'[proc], emitted[execs], execs)
      <3>1. CASE proc = p /\ pc = "wait"
        <4>1. Line("init", p) \in Lines /\ Line("init", p) # Line("out", execs)
          BY <1>2, OtherLines
        <4>2. Flow(buf, queue, pipe[p], emitted[execs], execs) /\ execs \in Nat
          BY <1>2, <1>4, <3>1
        <4>3. Flow(buf, queue, Append(pipe[p], Line("init", p)), emitted[execs], execs)
          BY <1>2, <1>3, <2>1, <4>1, <4>2, FlowAppend
        <4> QED
          BY <2>1, <3>1, <4>3
      <3>2. CASE proc # p
        BY <1>4, <2>1, <3>2
      <3> QED  BY <3>1, <3>2
    <2>4. \A c \in Calls, q \in Procs : NoLine(pipe[q], c) => NoLine(pipe'[q], c)
      BY <2>1, <2>2
    <2> QED
      BY <1>3, <1>4, <1>7, <1>11, <1>12, <2>3, <2>4
  \* The bash reads the command.
  <1>13. CASE (\E d \in Calls : Begins(p, d)) /\ UNCHANGED <<pipe, emitted, ended>>
    <2>0. PICK d \in Calls : Begins(p, d)
      BY <1>13, Zenon
    <2>1. fg'[p] = d /\ \A q \in Procs : q # p => fg'[q] = fg[q]
      BY <1>2, <2>0 DEF Begins
    <2>2. /\ d \notin ended /\ \A c \in Calls : Fresh(c) => c # d
          /\ pc = "wait" /\ p # proc => d # execs
      BY <2>0 DEF Begins
    <2> QED
      BY <1>3, <1>4, <1>7, <1>11, <1>13, <2>1, <2>2
  \* A command writes a line.
  <1>14. CASE /\ fg[p] # 0
              /\ emitted' = [emitted EXCEPT ![fg[p]] = @ + 1]
              /\ pipe' = [pipe EXCEPT ![p] = Append(@, Line("out", fg[p]))]
              /\ UNCHANGED <<fg, ended>>
    <2>1. /\ fg[p] \in Calls /\ fg[p] \notin ended
          /\ pipe'[p] = Append(pipe[p], Line("out", fg[p])) /\ pipe[p] \in Seq(Lines)
          /\ \A q \in Procs : q # p => pipe'[q] = pipe[q]
          /\ emitted'[fg[p]] = emitted[fg[p]] + 1
          /\ \A c \in Calls : c # fg[p] => emitted'[c] = emitted[c]
      BY <1>2, <1>3, <1>14
    <2>2. \A c \in Calls : c # fg[p] /\ NoLine(pipe[p], c) => NoLine(pipe'[p], c)
      BY <1>2, <2>1, NoLineSeqs, OtherLines
    <2>3. \A c \in Calls, q \in Procs : c # fg[p] /\ NoLine(pipe[q], c) => NoLine(pipe'[q], c)
      BY <2>1, <2>2
    <2>4. \A c \in Calls : Fresh(c) => c # fg[p]
      BY <1>7
    <2>5. ASSUME pc = "wait"
          PROVE  Flow(buf, queue, pipe'[proc], emitted'[execs], execs)
      <3>1. CASE proc = p /\ fg[p] = execs
        <4>1. Lacks(queue, Line("end", execs)) /\ Lacks(pipe[p], Line("end", execs))
          BY <1>5, <2>1, <3>1
        <4>2. Flow(buf, queue, pipe[p], emitted[execs], execs) /\ execs \in Nat
          BY <1>2, <1>4, <2>5, <3>1
        <4>3. Flow(buf, queue, Append(pipe[p], Line("out", execs)), emitted[execs] + 1, execs)
          BY <1>2, <1>3, <2>1, <3>1, <4>1, <4>2, FlowOut
        <4> QED
          BY <2>1, <3>1, <4>3
      <3>2. CASE proc = p /\ fg[p] # execs
        <4>1. Line("out", fg[p]) \in Lines /\ Line("out", fg[p]) # Line("out", execs)
          BY <1>2, <3>2, OtherLines
        <4>2. Flow(buf, queue, Append(pipe[p], Line("out", fg[p])), emitted[execs], execs)
          BY <1>2, <1>3, <1>4, <2>1, <2>5, <3>2, <4>1, FlowAppend
        <4> QED
          BY <1>3, <2>1, <2>5, <3>2, <4>2
      <3>3. CASE proc # p
        <4>1. fg[p] # execs
          BY <1>4, <2>5, <3>3
        <4> QED
          BY <1>3, <1>4, <2>1, <2>5, <3>3, <4>1
      <3> QED  BY <3>1, <3>2, <3>3
    <2>6. ASSUME pc = "wait", NEW q \in Procs, q # proc
          PROVE  fg'[q] # execs /\ NoLine(pipe'[q], execs)
      <3>1. fg[q] # execs /\ NoLine(pipe[q], execs) /\ execs \in Calls
        BY <1>3, <1>4, <2>6
      <3>2. q # p \/ fg[p] # execs
        BY <3>1
      <3> QED
        BY <1>14, <2>1, <2>3, <3>1, <3>2
    <2>7. \A c \in Calls : Fresh(c) =>
             emitted'[c] = 0 /\ \A q \in Procs : fg'[q] # c /\ NoLine(pipe'[q], c)
      BY <1>7, <1>14, <2>1, <2>3, <2>4
    <2>8. \A c \in ended : emitted'[c] = emitted[c]
      BY <1>2, <2>1
    <2> QED
      BY <1>3, <1>11, <1>14, <2>5, <2>6, <2>7, <2>8
  \* The command that is waited for ends: bash prints its sentinel.
  <1>15. CASE /\ pc = "wait" /\ p = proc /\ fg[p] = execs /\ fg[p] # 0
              /\ fg' = [fg EXCEPT ![p] = 0]
              /\ pipe' = [pipe EXCEPT ![p] = Append(@, Line("end", execs))]
              /\ ended' = ended \cup {execs}
              /\ UNCHANGED emitted
    <2>1. /\ pipe'[p] = Append(pipe[p], Line("end", execs)) /\ pipe[p] \in Seq(Lines)
          /\ \A q \in Procs : q # p => pipe'[q] = pipe[q]
          /\ fg'[p] = 0 /\ \A q \in Procs : q # p => fg'[q] = fg[q]
      BY <1>2, <1>15
    <2>2. execs \in Calls /\ 0 # execs
      BY <1>2, <1>3, <1>15
    <2>3. \A q \in Procs : fg'[q] \notin ended'
      BY <1>2, <1>3, <1>4, <1>15, <2>1, <2>2
    <2>4. \A c \in Calls : c # execs /\ NoLine(pipe[p], c) => NoLine(pipe'[p], c)
      BY <1>2, <2>1, NoLineSeqs, OtherLines
    <2>5. \A c \in Calls : Fresh(c) => c # execs
      BY <1>8, <1>15
    <2>6. ASSUME NEW c \in Calls, Fresh(c)
          PROVE  emitted'[c] = 0 /\ \A q \in Procs : fg'[q] # c /\ NoLine(pipe'[q], c)
      <3>1. /\ emitted[c] = 0 /\ c # execs /\ c # 0
            /\ \A q \in Procs : fg[q] # c /\ NoLine(pipe[q], c)
        BY <1>2, <1>7, <2>5, <2>6
      <3>2. \A q \in Procs : NoLine(pipe'[q], c)
        BY <2>1, <2>4, <3>1
      <3>3. \A q \in Procs : fg'[q] # c
        BY <2>1, <3>1
      <3> QED
        BY <1>15, <3>1, <3>2, <3>3
    <2>7. Flow(buf, queue, pipe'[proc], emitted'[execs], execs)
      <3>1. Line("end", execs) \in Lines /\ Line("end", execs) # Line("out", execs)
        BY <1>2, OtherLines
      <3> QED
        BY <1>2, <1>3, <1>4, <1>15, <2>1, <3>1, FlowAppend
    <2>8. \A q \in Procs : q # proc => fg'[q] # execs /\ NoLine(pipe'[q], execs)
      BY <1>4, <1>15, <2>1
    <2> QED
      BY <1>11, <1>15, <2>3, <2>6, <2>7, <2>8
  \* A command ends without one.
  <1>16. CASE /\ fg' = fg \/ fg' = [fg EXCEPT ![p] = 0]
              /\ UNCHANGED <<pipe, emitted, ended>>
    <2>1. fg'[p] \in {0, fg[p]} /\ \A q \in Procs : q # p => fg'[q] = fg[q]
      BY <1>2, <1>16
    <2>2. \A q \in Procs : fg'[q] \notin ended'
      BY <1>2, <1>3, <1>16, <2>1
    <2>3. \A c \in Calls, q \in Procs : fg[q] # c => fg'[q] # c
      BY <1>2, <2>1
    <2> QED
      BY <1>3, <1>4, <1>7, <1>11, <1>16, <2>2, <2>3
  <1> QED
    BY <1>1, <1>12, <1>13, <1>14, <1>15, <1>16, Zenon DEF BashMove

\* The lines of a call reach it, in order, before its sentinel does.
LEMMA OutputStep == Inv /\ TextInv /\ OutputInv /\ [Next]_vars => OutputInv'
  <1> SUFFICES ASSUME Inv, TextInv, OutputInv, [Next]_vars PROVE OutputInv'
    OBVIOUS
  <1>1. CASE UNCHANGED <<pc, goal, proc, queue, execs, buf, result, fg, pipe, emitted, ended>>
    BY <1>1 DEF OutputInv, OwnBash, AllLines, Fresh, Pending
  <1> QED
    BY <1>1, HolderMoves, HoldingOutput, StopOutput, WriteOutput, TakeOutput,
       BashOutput, ReadOutput

\* A call that returns an exit code returns that of its own command, with every
\* line the command wrote, whatever earlier calls left in flight.
THEOREM AnswerCompleteHolds == Spec => []AnswerComplete
  <1>1. Inv /\ TextInv /\ OutputInv /\ [Next]_vars => OutputInv'
    BY OutputStep
  <1>2. Inv /\ OutputInv => AnswerComplete
    BY DEF Inv, SentinelInv, OutputInv, AllLines, AnswerComplete
  <1> QED
    BY <1>1, <1>2, InvHolds, TextHolds, InitOutput, PTL DEF Spec

=============================================================================
