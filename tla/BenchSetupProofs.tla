-------------------------- MODULE BenchSetupProofs --------------------------
(***************************************************************************)
(* What the scripts do to the run directories, for any number of programs. *)
(***************************************************************************)
EXTENDS BenchSetup, TLAPS

-----------------------------------------------------------------------------
(* Type correctness. A directory that runall goes to has the scripts.      *)

TInv ==
    /\ TypeOK /\ Home \in scripts
    /\ pc = "cd" /\ Reachable(i) => i \in scripts

LEMMA InitTInv == Init => TInv
<1> SUFFICES ASSUME Init
             PROVE  TInv
  OBVIOUS
<1>1. 0 \in Programs /\ Home \in Places
  BY BenchSetupAssumption DEF Programs, Places, Home
<1>2. \A d : Fresh(d) \in File
  BY DEF Fresh, File
<1>3. binary \in [Places -> File] /\ orig \in [Places -> File]
  BY <1>2 DEF Init, File
<1>4. DOMAIN output = Programs /\ \A p \in Programs : OutputOK(output[p])
  BY BenchSetupAssumption DEF Init, File, OutputOK
<1>5. 1 \in 1 .. MaxBuilds /\ 0 \in 0 .. MaxBuilds /\ 0 \in 0 .. MaxStarts
  BY BenchSetupAssumption
<1>6. cpu \in [Places -> Programs] /\ capture \in [Places -> 0 .. MaxBuilds]
  BY <1>1, <1>5 DEF Init
<1> QED
  BY <1>1, <1>3, <1>4, <1>5, <1>6 DEF Init, TInv, TypeOK

LEMMA SetupTInv ==
    ASSUME TInv, Start \/ Copy \/ Chdir \/ Move \/ Wrap
    PROVE  TInv'
<1>1. 0 \in Programs /\ Home \in Places /\ Programs \subseteq Places
  BY BenchSetupAssumption DEF Programs, Places, Home
<1>2. UNCHANGED <<cpu, sessions, build, capture, extract>> /\ i' \in Programs
  BY <1>1 DEF Start, Copy, Chdir, Move, Wrap, directory, TInv, TypeOK, extract
<1>3. CASE Start
  <2>1. Home \in scripts'
    BY <1>3 DEF Start, directory, TInv, TypeOK, extract
  <2> QED
    BY <1>1, <1>2, <1>3, <2>1, BenchSetupAssumption DEF Start, directory, TInv, TypeOK, extract
<1>4. CASE Copy
  <2>1. scripts' \subseteq Places /\ scripts \subseteq scripts'
    BY <1>1, <1>4 DEF Copy, TInv, TypeOK, extract
  <2>2. Reachable(i)' => i' \in scripts'
    BY <1>4 DEF Copy, Reachable
  <2> QED
    BY <1>2, <1>4, <2>1, <2>2 DEF Copy, TInv, TypeOK, extract
<1>5. CASE Chdir
  <2>1. cwd' \in scripts' /\ cwd' \in Places
    BY <1>1, <1>5 DEF Chdir, directory, TInv, TypeOK, extract
  <2> QED
    BY <1>2, <1>5, <2>1 DEF Chdir, directory, TInv, TypeOK, extract
<1>6. CASE Move
  <2>1. binary' \in [Places -> File] /\ orig' \in [Places -> File]
    BY <1>6 DEF Move, TInv, TypeOK, File
  <2> QED
    BY <1>2, <1>6, <2>1 DEF Move, TInv, TypeOK, extract
<1>7. CASE Wrap
  <2>1. binary' \in [Places -> File]
    BY <1>7 DEF Wrap, TInv, TypeOK, File
  <2> QED
    BY <1>2, <1>7, <2>1 DEF Wrap, TInv, TypeOK, extract
<1> QED
  BY <1>3, <1>4, <1>5, <1>6, <1>7

LEMMA StartedTInv ==
    ASSUME TInv, Bind \/ Screen
    PROVE  TInv'
<1>1. Programs \subseteq Places /\ UNCHANGED <<cwd, starts, binary, orig, scripts, build, capture, extract>>
  BY DEF Bind, Screen, directory, Places
<1>2. CASE Bind
  <2>1. cpu' \in [Places -> Programs]
    BY <1>2 DEF Bind, TInv, TypeOK, extract
  <2> QED
    BY <1>1, <1>2, <2>1 DEF Bind, TInv, TypeOK, extract
<1>3. CASE Screen
  <2>1. sessions' \subseteq [dir : Places, cpu : Programs, name : Programs]
    BY <1>3 DEF Screen, TInv, TypeOK, extract
  <2>2. i' \in Programs
    BY <1>3, BenchSetupAssumption DEF Screen, TInv, TypeOK, Programs
  <2> QED
    BY <1>1, <1>3, <2>1, <2>2 DEF Screen, directory, TInv, TypeOK, extract
<1> QED
  BY <1>2, <1>3

LEMMA ExtractTInv ==
    ASSUME TInv, ExtractStart \/ CopyCapture \/ CopyBinary \/ ExtractInterrupted
    PROVE  TInv'
<1>1. UNCHANGED <<loop, directory, sessions, build, capture>>
  BY DEF ExtractStart, CopyCapture, CopyBinary, ExtractInterrupted
<1>2. /\ step' \in {"idle", "capture", "binary"} /\ x' \in Programs
      /\ copied' \in BOOLEAN /\ paired' \subseteq Programs
  <2>1. x \in Programs /\ copied \in BOOLEAN /\ paired \subseteq Programs
    BY DEF TInv, TypeOK
  <2>2. x' \in Programs
    BY <2>1, BenchSetupAssumption DEF ExtractStart, CopyCapture, CopyBinary,
       ExtractInterrupted, Programs
  <2>3. copied' \in BOOLEAN
    BY <2>1 DEF ExtractStart, CopyCapture, CopyBinary, ExtractInterrupted
  <2>4. paired' \subseteq Programs
    BY <2>1 DEF ExtractStart, CopyCapture, CopyBinary, ExtractInterrupted
  <2> QED
    BY <2>2, <2>3, <2>4 DEF ExtractStart, CopyCapture, CopyBinary, ExtractInterrupted
<1>3. x \in Programs /\ x \in Places /\ OutputOK(output[x]) /\ DOMAIN output = Programs
  BY DEF TInv, TypeOK, Places
<1>4. CASE UNCHANGED output
  BY <1>1, <1>2, <1>4 DEF TInv, TypeOK, loop, directory, Reachable
<1>5. ASSUME NEW o, output' = [output EXCEPT ![x] = o], OutputOK(o)
      PROVE  TInv'
  <2>1. DOMAIN output' = Programs /\ \A p \in Programs : OutputOK(output'[p])
    BY <1>3, <1>5 DEF TInv, TypeOK
  <2> QED
    BY <1>1, <1>2, <2>1 DEF TInv, TypeOK, OutputOK, loop, directory, Reachable
<1>6. CASE CopyCapture /\ output' # output
  <2>1. output' = [output EXCEPT ![x].capture = capture[x]]
    BY <1>6 DEF CopyCapture
  <2>2. output' = [output EXCEPT ![x] = [output[x] EXCEPT !.capture = capture[x]]]
    BY <2>1
  <2>3. capture[x] \in 0 .. MaxBuilds
    BY <1>3 DEF TInv, TypeOK
  <2>4. OutputOK([output[x] EXCEPT !.capture = capture[x]])
    BY <1>3, <2>3 DEF OutputOK
  <2> QED
    BY <1>5, <2>2, <2>4
<1>7. CASE CopyBinary /\ output' # output
  <2>1. output' = [output EXCEPT ![x].binary = orig[x], ![x].built = build]
    BY <1>7 DEF CopyBinary
  <2>2. output' = [output EXCEPT ![x] = [output[x] EXCEPT !.binary = orig[x], !.built = build]]
    BY <2>1
  <2>3. orig[x] \in File /\ build \in 0 .. MaxBuilds
    BY <1>3, BenchSetupAssumption DEF TInv, TypeOK
  <2>4. OutputOK([output[x] EXCEPT !.binary = orig[x], !.built = build])
    BY <1>3, <2>3 DEF OutputOK
  <2> QED
    BY <1>5, <2>2, <2>4
<1> QED
  BY <1>4, <1>6, <1>7 DEF ExtractStart, ExtractInterrupted

LEMMA NextTInv == TInv /\ [Next]_vars => TInv'
<1> SUFFICES ASSUME TInv, [Next]_vars
             PROVE  TInv'
  OBVIOUS
<1>1. ASSUME NEW s \in sessions, Invoke(s) \/ End(s)
      PROVE  TInv'
  <2>1. capture' \in [Places -> 0 .. MaxBuilds]
    BY <1>1, BenchSetupAssumption DEF Invoke, End, TInv, TypeOK
  <2>2. sessions' \subseteq sessions /\ UNCHANGED <<loop, directory, build, extract>>
    BY <1>1 DEF Invoke, End
  <2> QED
    BY <2>1, <2>2 DEF TInv, TypeOK, OutputOK, loop, directory, extract, Reachable
<1>3. CASE Interrupt
  BY <1>3 DEF Interrupt, directory, extract, TInv, TypeOK, OutputOK
<1>4. CASE RunSetup
  <2>1. binary' \in [Places -> File] /\ orig' \in [Places -> File]
    BY <1>4 DEF RunSetup, Fresh, File
  <2>2. cpu' \in [Places -> Programs] /\ capture' \in [Places -> 0 .. MaxBuilds]
    BY <1>4, BenchSetupAssumption DEF RunSetup, Programs
  <2>3. scripts' \subseteq Places /\ Home \in scripts' /\ pc' = "idle"
    BY <1>4 DEF RunSetup, loop, Places
  <2>4. UNCHANGED <<loop, sessions, step, x, output, paired>> /\ copied' = FALSE
    BY <1>4 DEF RunSetup
  <2>5. build' \in 1 .. MaxBuilds
    BY <1>4, BenchSetupAssumption DEF RunSetup, TInv, TypeOK
  <2> QED
    BY <2>1, <2>2, <2>3, <2>4, <2>5 DEF TInv, TypeOK, OutputOK, loop
<1>5. CASE UNCHANGED vars
  BY <1>5 DEF vars, loop, directory, extract, TInv, TypeOK, OutputOK, Reachable
<1> QED
  BY <1>1, <1>3, <1>4, <1>5, SetupTInv, StartedTInv, ExtractTInv DEF Next

(* Every variable of the scripts keeps its type, and runall is never in a  *)
(* directory without the scripts it calls there.                           *)
THEOREM BenchTypeOK == Spec => []TypeOK
BY InitTInv, NextTInv, PTL DEF Spec, TInv

-----------------------------------------------------------------------------
(* The directories, stage by stage.                                        *)

Untouched(p) == binary[p] = "program" /\ orig[p] = None /\ cpu[p] = 0
Moved(p) == binary[p] = None /\ orig[p] = "program"
Wrapped(p) == binary[p] = "wrapper" /\ orig[p] = "program"

(* An interrupted runall leaves one directory wherever it was; a running   *)
(* one has those before i behind it and those after i untouched.           *)
Stage(p) ==
    /\ Untouched(p) \/ Moved(p) \/ Wrapped(p)
    /\ pc # "idle" /\ p > i => Untouched(p)
    /\ p = i =>
          /\ pc \in {"copy", "cd", "move"} => Untouched(p)
          /\ pc \in {"wrap", "bind"} => cpu[p] = 0
          /\ pc = "wrap" => Moved(p)
          /\ pc \in {"bind", "screen"} => Wrapped(p)
          /\ pc = "screen" => cpu[p] = p
    /\ capture[p] # 0 => orig[p] = "program" /\ capture[p] = build

(* A session was started where it belongs, and on the CPU of its own.      *)
SessionOK(s) == s.dir = s.name /\ s.cpu = s.name /\ s.dir \in Programs /\ Wrapped(s.dir)

BInv ==
    /\ pc \in {"move", "wrap", "bind", "screen"} => cwd = i
    /\ \A p \in Programs : Stage(p)
    /\ \A s \in sessions : SessionOK(s)


LEMMA InitBInv ==
    ASSUME Built = Programs
    PROVE  Init => BInv
<1> SUFFICES ASSUME Init
             PROVE  BInv
  OBVIOUS
<1>1. \A p \in Programs : p \in Places /\ Fresh(p) = "program"
  BY DEF Places, Fresh
<1>2. \A p \in Programs : Stage(p)
  BY <1>1 DEF Init, Stage, Untouched
<1> QED
  BY <1>2 DEF Init, BInv

(* The steps of runall before the program is started.                      *)
LEMMA SetupBInv ==
    ASSUME Absolute, ~ RerunAnytime, Built = Programs, TInv, BInv,
           Start \/ Copy \/ Chdir \/ Move \/ Wrap \/ Bind
    PROVE  BInv'
<1>1. /\ \A p \in Programs : p \in Places /\ p \in Int /\ Fresh(p) = "program"
      /\ i \in Programs
      /\ binary \in [Places -> File] /\ orig \in [Places -> File]
      /\ cpu \in [Places -> Programs]
  BY DEF TInv, TypeOK, Places, Fresh, Programs
<1>2. UNCHANGED <<build, capture, sessions>>
  BY DEF Start, Copy, Chdir, Move, Wrap, Bind
<1>3. CASE Start
  <2>1. pc' = "copy" /\ i' = 0 /\ UNCHANGED <<binary, orig, cpu>> /\ AllFresh
    BY <1>3 DEF Start, directory
  <2>2. \A p \in Programs : Untouched(p)
    <3> SUFFICES ASSUME NEW p \in Programs
                 PROVE  Untouched(p)
      OBVIOUS
    <3>1. binary[p] = "program" /\ orig[p] = None
      BY <1>1, <2>1 DEF AllFresh
    <3>2. Untouched(p) \/ Moved(p) \/ Wrapped(p)
      BY DEF BInv, Stage
    <3> QED
      BY <3>1, <3>2 DEF Moved, Wrapped, None
  <2>3. \A p \in Programs : Stage(p)'
    BY <1>2, <2>1, <2>2 DEF BInv, Stage, Untouched
  <2>4. \A s \in sessions' : SessionOK(s)'
    BY <1>2, <2>1 DEF BInv, SessionOK, Wrapped
  <2> QED
    BY <2>1, <2>3, <2>4 DEF BInv
<1>4. CASE Copy \/ Chdir
  <2>1. /\ pc \in {"copy", "cd"} /\ pc' \in {"cd", "move"}
        /\ UNCHANGED <<i, binary, orig, cpu>>
        /\ (pc' = "move" => cwd' = i)
    BY <1>1, <1>4 DEF Copy, Chdir, directory, Reachable
  <2>2. \A p \in Programs : Stage(p)'
    BY <1>2, <2>1 DEF BInv, Stage, Untouched, Moved, Wrapped
  <2>3. \A s \in sessions' : SessionOK(s)'
    BY <1>2, <2>1 DEF BInv, SessionOK, Wrapped
  <2> QED
    BY <2>1, <2>2, <2>3 DEF BInv
<1>5. CASE Move
  <2>1. pc = "move" /\ pc' = "wrap" /\ cwd = i /\ UNCHANGED <<i, cwd, cpu>>
    BY <1>5 DEF Move, BInv
  <2>2. Untouched(i)
    BY <1>1, <2>1 DEF BInv, Stage
  <2>3. /\ binary' = [binary EXCEPT ![i] = None]
        /\ orig' = [orig EXCEPT ![i] = "program"]
    BY <1>5, <2>1, <2>2 DEF Move, Untouched, None
  <2>4. /\ binary'[i] = None /\ orig'[i] = "program" /\ cpu'[i] = 0
        /\ \A p \in Programs : p # i =>
              binary'[p] = binary[p] /\ orig'[p] = orig[p] /\ cpu'[p] = cpu[p]
    BY <1>1, <2>1, <2>2, <2>3 DEF Untouched
  <2>5. \A p \in Programs : Stage(p)'
    <3> SUFFICES ASSUME NEW p \in Programs
                 PROVE  Stage(p)'
      OBVIOUS
    <3>1. Stage(p)
      BY DEF BInv
    <3>2. CASE p = i
      BY <1>1, <1>2, <2>1, <2>4, <3>1, <3>2 DEF Stage, Moved
    <3>3. CASE p # i
      BY <1>2, <2>1, <2>4, <3>1, <3>3 DEF Stage, Untouched, Moved, Wrapped
    <3> QED
      BY <3>2, <3>3
  <2>6. \A s \in sessions' : SessionOK(s)'
    BY <1>2, <2>2, <2>4 DEF BInv, SessionOK, Wrapped, Untouched
  <2> QED
    BY <2>1, <2>5, <2>6 DEF BInv
<1>6. CASE Wrap
  <2>1. pc = "wrap" /\ pc' = "bind" /\ cwd = i /\ UNCHANGED <<i, cwd, orig, cpu>>
    BY <1>6 DEF Wrap, BInv
  <2>2. Moved(i) /\ cpu[i] = 0
    BY <1>1, <2>1 DEF BInv, Stage
  <2>3. /\ binary'[i] = "wrapper"
        /\ \A p \in Programs : p # i => binary'[p] = binary[p]
    BY <1>1, <1>6, <2>1 DEF Wrap
  <2>4. \A p \in Programs : Stage(p)'
    <3> SUFFICES ASSUME NEW p \in Programs
                 PROVE  Stage(p)'
      OBVIOUS
    <3>1. Stage(p)
      BY DEF BInv
    <3>2. CASE p = i
      BY <1>1, <1>2, <2>1, <2>2, <2>3, <3>1, <3>2 DEF Stage, Moved, Wrapped
    <3>3. CASE p # i
      BY <1>2, <2>1, <2>3, <3>1, <3>3 DEF Stage, Untouched, Moved, Wrapped
    <3> QED
      BY <3>2, <3>3
  <2>5. \A s \in sessions' : SessionOK(s)'
    BY <1>2, <2>1, <2>3 DEF BInv, SessionOK, Wrapped
  <2> QED
    BY <2>1, <2>4, <2>5 DEF BInv
<1>7. CASE Bind
  <2>1. pc = "bind" /\ pc' = "screen" /\ cwd = i /\ UNCHANGED <<i, cwd, binary, orig>>
    BY <1>7 DEF Bind, BInv
  <2>2. Wrapped(i) /\ cpu[i] = 0
    BY <1>1, <2>1 DEF BInv, Stage
  <2>3. cpu'[i] = i /\ \A p \in Programs : p # i => cpu'[p] = cpu[p]
    BY <1>1, <1>7, <2>1, <2>2 DEF Bind
  <2>4. \A p \in Programs : Stage(p)'
    <3> SUFFICES ASSUME NEW p \in Programs
                 PROVE  Stage(p)'
      OBVIOUS
    <3>1. Stage(p)
      BY DEF BInv
    <3>2. CASE p = i
      BY <1>1, <1>2, <2>1, <2>2, <2>3, <3>1, <3>2 DEF Stage, Wrapped
    <3>3. CASE p # i
      BY <1>2, <2>1, <2>3, <3>1, <3>3 DEF Stage, Untouched, Moved, Wrapped
    <3> QED
      BY <3>2, <3>3
  <2>5. \A s \in sessions' : SessionOK(s)'
    BY <1>2, <2>1 DEF BInv, SessionOK, Wrapped
  <2> QED
    BY <2>1, <2>4, <2>5 DEF BInv
<1> QED
  BY <1>3, <1>4, <1>5, <1>6, <1>7

LEMMA NextBInv ==
    ASSUME Absolute, ~ RerunAnytime, Built = Programs
    PROVE  TInv /\ BInv /\ [Next]_vars => BInv'
<1> SUFFICES ASSUME TInv, BInv, [Next]_vars
             PROVE  BInv'
  OBVIOUS
<1>1. /\ \A p \in Programs : p \in Places /\ p \in Int /\ Fresh(p) = "program"
      /\ i \in Programs
  BY DEF TInv, TypeOK, Places, Fresh, Programs
<1>2. CASE Screen
  <2>1. /\ pc = "screen" /\ cwd = i /\ UNCHANGED <<binary, orig, cpu, build, capture>>
        /\ sessions' = sessions \cup {[dir |-> i, cpu |-> cpu[i], name |-> i]}
        /\ (pc' = "copy" /\ i' = i + 1) \/ (pc' = "idle" /\ i' = i)
    BY <1>2 DEF Screen, BInv, directory
  <2>2. Wrapped(i) /\ cpu[i] = i
    BY <1>1, <2>1 DEF BInv, Stage
  <2>3. \A s \in sessions' : SessionOK(s)'
    BY <1>1, <2>1, <2>2 DEF BInv, SessionOK, Wrapped
  <2>4. \A p \in Programs : Stage(p)'
    <3> SUFFICES ASSUME NEW p \in Programs
                 PROVE  Stage(p)'
      OBVIOUS
    <3>1. Stage(p) /\ p \in Int /\ i \in Int
      BY <1>1 DEF BInv
    <3>2. pc # "idle" /\ (p > i => Untouched(p))
      BY <2>1, <3>1 DEF Stage
    <3>3. CASE pc' = "idle"
      BY <2>1, <3>1, <3>3 DEF Stage, Untouched, Moved, Wrapped
    <3>4. CASE pc' = "copy" /\ i' = i + 1
      <4>1. p >= i' => Untouched(p)
        BY <3>1, <3>2, <3>4
      <4>2. /\ (p > i' => Untouched(p)) /\ (p = i' => Untouched(p))
        BY <3>1, <3>4, <4>1
      <4> QED
        BY <2>1, <3>1, <3>4, <4>2 DEF Stage, Untouched, Moved, Wrapped
    <3> QED
      BY <2>1, <3>3, <3>4
  <2> QED
    BY <2>1, <2>3, <2>4 DEF BInv
<1>3. ASSUME NEW s \in sessions, Invoke(s)
      PROVE  BInv'
  <2>1. /\ orig[s.dir] = "program" /\ UNCHANGED <<loop, directory, sessions, build>>
        /\ \A p \in Programs : p # s.dir => capture'[p] = capture[p]
        /\ \A p \in Programs : p = s.dir => capture'[p] = build
    BY <1>1, <1>3 DEF Invoke, TInv, TypeOK
  <2>2. \A p \in Programs : Stage(p)'
    <3> SUFFICES ASSUME NEW p \in Programs
                 PROVE  Stage(p)'
      OBVIOUS
    <3>1. Stage(p)
      BY DEF BInv
    <3>2. capture'[p] # 0 => orig[p] = "program" /\ capture'[p] = build
      BY <2>1, <3>1 DEF Stage
    <3> QED
      BY <2>1, <3>1, <3>2 DEF Stage, Untouched, Moved, Wrapped, loop, directory
  <2> QED
    BY <2>1, <2>2 DEF BInv, SessionOK, Wrapped, loop, directory
<1>4. ASSUME NEW s \in sessions, End(s)
      PROVE  BInv'
  BY <1>4 DEF End, BInv, SessionOK, Stage, Untouched, Moved, Wrapped, loop, directory
<1>5. CASE ExtractStart \/ CopyCapture \/ CopyBinary \/ ExtractInterrupted
  <2>1. UNCHANGED <<loop, directory, sessions, build, capture>>
    BY <1>5 DEF ExtractStart, CopyCapture, CopyBinary, ExtractInterrupted
  <2> QED
    BY <2>1 DEF BInv, SessionOK, Stage, Untouched, Moved, Wrapped, loop, directory
<1>6. CASE Interrupt
  BY <1>6 DEF Interrupt, directory, BInv, SessionOK, Stage, Untouched, Moved, Wrapped
<1>7. CASE RunSetup
  <2>1. /\ pc' = "idle" /\ sessions' = {} /\ UNCHANGED i
        /\ \A p \in Programs : /\ binary'[p] = "program" /\ orig'[p] = None
                               /\ cpu'[p] = 0 /\ capture'[p] = 0
    BY <1>1, <1>7 DEF RunSetup, loop
  <2>2. \A p \in Programs : Stage(p)'
    BY <2>1 DEF BInv, Stage, Untouched
  <2> QED
    BY <2>1, <2>2 DEF BInv
<1>8. CASE UNCHANGED vars
  BY <1>8 DEF vars, loop, directory, BInv, SessionOK, Stage, Untouched, Moved, Wrapped
<1> QED
  BY <1>2, <1>3, <1>4, <1>5, <1>6, <1>7, <1>8, SetupBInv DEF Next

LEMMA StagesAlways ==
    ASSUME Absolute, ~ RerunAnytime, Built = Programs
    PROVE  Spec => [](TInv /\ BInv)
BY InitTInv, NextTInv, InitBInv, NextBInv, PTL DEF Spec

(* With an absolute path, every run directory there, and each program set  *)
(* up again before a second run, no interruption loses a program.          *)
THEOREM ProgramsAreKept ==
    ASSUME Absolute, ~ RerunAnytime, Built = Programs
    PROVE  Spec => []OriginalsSurvive
<1>1. BInv => OriginalsSurvive
  BY DEF BInv, Stage, Untouched, Moved, Wrapped, OriginalsSurvive
<1> QED
  BY StagesAlways, <1>1, PTL

(* Under the same assumptions every session runs the wrapper, and under it *)
(* the program.                                                            *)
THEOREM SessionsAreTraced ==
    ASSUME Absolute, ~ RerunAnytime, Built = Programs
    PROVE  Spec => []SessionsTrace
<1>1. BInv => SessionsTrace
  BY DEF BInv, SessionOK, Wrapped, SessionsTrace
<1> QED
  BY StagesAlways, <1>1, PTL

(* Under the same assumptions no two sessions share a directory or a CPU.  *)
THEOREM SessionsStayApart ==
    ASSUME Absolute, ~ RerunAnytime, Built = Programs
    PROVE  Spec => []SessionsApart
<1>1. TInv /\ BInv => SessionsApart
  <2> SUFFICES ASSUME TInv, BInv, NEW s \in sessions, NEW t \in sessions,
                      s.dir = t.dir \/ s.cpu = t.cpu
               PROVE  s = t
    BY DEF SessionsApart
  <2>1. /\ s \in [dir : Places, cpu : Programs, name : Programs]
        /\ t \in [dir : Places, cpu : Programs, name : Programs]
    BY DEF TInv, TypeOK
  <2>2. s.name = t.name /\ s.dir = t.dir /\ s.cpu = t.cpu
    BY DEF BInv, SessionOK
  <2> QED
    BY <2>1, <2>2
<1> QED
  BY StagesAlways, <1>1, PTL

-----------------------------------------------------------------------------
(* What extract.sh collects. *)

(* Between its two copies it has the capture of the build that is there,   *)
(* and the program is where the second will look for it.                   *)
PInv ==
    /\ WholePassesMatch
    /\ step = "binary" => x \notin paired
    /\ step = "binary" /\ copied => output[x].capture = build /\ capture[x] # 0

LEMMA NextPInv ==
    TInv /\ BInv /\ PInv /\ [Next]_vars => PInv'
<1> SUFFICES ASSUME TInv, BInv, PInv, [Next]_vars
             PROVE  PInv'
  OBVIOUS
<1>1. /\ x \in Programs /\ x \in Places /\ OutputOK(output[x]) /\ paired \subseteq Programs
      /\ DOMAIN output = Programs /\ x + 1 # x /\ build # 0
  BY DEF TInv, TypeOK, Programs, Places
<1>2. Stage(x)
  BY <1>1 DEF BInv
<1>3. CASE UNCHANGED <<build, capture, extract>>
  BY <1>3 DEF PInv, WholePassesMatch, extract
<1>4. ASSUME NEW s \in sessions, Invoke(s)
      PROVE  PInv'
  <2>1. UNCHANGED <<build, extract>> /\ (capture[x] # 0 => capture'[x] # 0)
    BY <1>1, <1>4 DEF Invoke, TInv, TypeOK
  <2> QED
    BY <2>1 DEF PInv, WholePassesMatch, extract
<1>5. CASE RunSetup
  BY <1>5 DEF RunSetup, PInv, WholePassesMatch
<1>6. CASE ExtractStart \/ ExtractInterrupted
  BY <1>6 DEF ExtractStart, ExtractInterrupted, PInv, WholePassesMatch
<1>7. CASE CopyCapture
  <2>1. /\ \A p \in Programs : p # x => output'[p] = output[p]
        /\ paired' = paired \ {x} /\ x' = x /\ UNCHANGED <<build, capture>>
    BY <1>1, <1>7 DEF CopyCapture
  <2>2. copied' => output'[x].capture = build /\ capture[x] # 0
    BY <1>1, <1>2, <1>7 DEF CopyCapture, Stage, OutputOK
  <2>3. WholePassesMatch'
    BY <1>1, <2>1 DEF PInv, WholePassesMatch
  <2> QED
    BY <2>1, <2>2, <2>3 DEF PInv
<1>8. CASE CopyBinary
  <2>1. /\ \A p \in Programs : p # x => output'[p] = output[p]
        /\ paired' \subseteq paired \cup {x} /\ step' # "binary"
    BY <1>1, <1>8 DEF CopyBinary
  <2>2. x \notin paired
    BY <1>8 DEF CopyBinary, PInv
  <2>3. ASSUME x \in paired'
        PROVE  output'[x].binary = "program" /\ output'[x].capture = output'[x].built
    <3>1. /\ step = "binary" /\ copied
          /\ output' = [output EXCEPT ![x].binary = orig[x], ![x].built = build]
      BY <1>8, <2>2, <2>3 DEF CopyBinary
    <3>2. /\ output'[x].binary = orig[x] /\ output'[x].built = build
          /\ output'[x].capture = output[x].capture
      BY <1>1, <3>1 DEF OutputOK
    <3>3. output[x].capture = build /\ orig[x] = "program"
      BY <1>2, <3>1 DEF PInv, Stage
    <3> QED
      BY <3>2, <3>3
  <2>4. WholePassesMatch'
    <3> SUFFICES ASSUME NEW p \in paired'
                 PROVE  output'[p].binary = "program" /\ output'[p].capture = output'[p].built
      BY DEF WholePassesMatch
    <3>1. CASE p = x
      BY <2>3, <3>1
    <3>2. CASE p # x
      BY <1>1, <2>1, <3>2 DEF PInv, WholePassesMatch
    <3> QED
      BY <3>1, <3>2
  <2> QED
    BY <2>1, <2>4 DEF PInv
<1> QED
  BY <1>3, <1>4, <1>5, <1>6, <1>7, <1>8 DEF Next, Start, Copy, Chdir, Move, Wrap, Bind,
     Screen, End, Interrupt, vars, extract

(* Under the same assumptions, whatever runs between the two copies of     *)
(* extract.sh, and however often all is compiled and traced anew: a pass   *)
(* that copies both files leaves the capture next to the build it is of.   *)
THEOREM WholePassesStayMatched ==
    ASSUME Absolute, ~ RerunAnytime, Built = Programs
    PROVE  Spec => []WholePassesMatch
<1>1. Init => PInv
  BY DEF Init, PInv, WholePassesMatch
<1>2. PInv => WholePassesMatch
  BY DEF PInv
<1> QED
  BY StagesAlways, <1>1, NextPInv, <1>2, PTL DEF Spec

=============================================================================
