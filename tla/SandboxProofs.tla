---------------------------- MODULE SandboxProofs ----------------------------
(* Proofs about module Sandbox, for every set of programs, any number of     *)
(* submissions at a time and tests of any number.                            *)
EXTENDS Sandbox, TLAPS

(***************************************************************************)
(* Where a verdict comes from, at each phase.  PassedMeansPassed looks only *)
(* at judged submissions; what makes it inductive is what holds of the      *)
(* tests run so far, and of a verdict that the clean-up may still discard.  *)
(***************************************************************************)
SoFar(p, v) ==
    v.passed =>
        \A i \in 1 .. Len(v.results) : v.results[i] /\ p.alone[i] \in {"right", "exits"}

Settled(p, v) ==
    v.passed =>
        /\ Len(v.results) = Len(p.alone)
        /\ \A i \in Tests(p) : v.results[i]
        /\ IF p.language = "python" THEN AllRight(p) \/ AllPass(p) ELSE Plausible(p)

Deserved(s) == RightEverywhere(program[s]) /\ ~verdict[s].passed => trouble[s] # {}

SoundAt(s) ==
    /\ pc[s] = "mock" => program[s].language # "python"
    /\ pc[s] \in {"client", "folder", "launch", "wait", "cleanup", "local", "test"}
          => program[s].language = "python"
    /\ pc[s] = "test" => SoFar(program[s], verdict[s]) /\ ~program[s].forbidden
    /\ pc[s] \in {"cleanup", "judged"} => Settled(program[s], verdict[s])
    /\ pc[s] \in {"cleanup", "judged", "test"} => Deserved(s)

CleanAt(s) ==
    /\ s \in containers => At(s, "wait") \/ "daemon" \in trouble[s]
    /\ s \in folders => pc[s] \in {"launch", "wait", "cleanup"} \/ "disk" \in trouble[s]
    /\ s \in files => At(s, "test") \/ "disk" \in trouble[s]

IInv == TypeOK /\ \A s \in Submissions : SoundAt(s) /\ CleanAt(s)

(* What one submission's step leaves of the others.                         *)
Only(s) ==
    \A t \in Submissions \ {s} :
        /\ pc'[t] = pc[t] /\ verdict'[t] = verdict[t]
        /\ trouble'[t] = trouble[t]
        /\ t \in containers' <=> t \in containers
        /\ t \in folders' <=> t \in folders
        /\ t \in files' <=> t \in files

----------------------------------------------------------------------------
LEMMA ProgramTyped ==
    ASSUME TypeOK, NEW s \in Submissions
    PROVE  /\ program[s] \in Program
           /\ Len(program[s].contained) = Len(program[s].alone)
           /\ Len(program[s].alone) \in Nat
           /\ verdict[s] \in Verdicts
           /\ trouble[s] \in SUBSET Troubles
<1>1. program[s] \in Programs
  BY DEF TypeOK
<1>2. QED
  BY <1>1, ProgramsAssumption DEF TypeOK, Program

(* The verdicts of the mock and of the container are what they should be.   *)
LEMMA ContainedVerdicts ==
    ASSUME NEW p \in Program, Len(p.contained) = Len(p.alone), p.language = "python"
    PROVE  /\ ContainedVerdict(p) \in Verdicts
           /\ Len(ContainedVerdict(p).results) <= Len(p.alone)
           /\ Settled(p, ContainedVerdict(p))
           /\ RightEverywhere(p) => ContainedVerdict(p).passed
<1>1. Len(p.alone) \in Nat
  BY DEF Program
<1>2. CASE Reports(p)
  <2> DEFINE rs == [i \in Tests(p) |-> p.contained[i] = "right"]
  <2>1. rs \in Seq(BOOLEAN) /\ Len(rs) = Len(p.alone)
    BY <1>1 DEF Tests
  <2>2. /\ ContainedVerdict(p).results = rs
        /\ ContainedVerdict(p).passed = (\A i \in Tests(p) : p.contained[i] = "right")
        /\ ContainedVerdict(p) \in Verdicts
    BY <1>2, <2>1 DEF ContainedVerdict, Verdicts
  <2>3. Settled(p, ContainedVerdict(p))
    BY <1>2, <2>1, <2>2 DEF Settled, AllRight, Reports
  <2>4. RightEverywhere(p) => ContainedVerdict(p).passed
    BY <2>2 DEF RightEverywhere, AllRight
  <2>5. QED
    BY <1>1, <2>1, <2>2, <2>3, <2>4
<1>3. CASE ~Reports(p)
  <2>1. ContainedVerdict(p) = Failed
    BY <1>3 DEF ContainedVerdict
  <2>2. ~RightEverywhere(p)
    BY <1>3 DEF RightEverywhere, AllRight, Reports
  <2>3. QED
    BY <1>1, <2>1, <2>2 DEF Failed, Verdicts, Settled
<1>4. QED
  BY <1>2, <1>3

LEMMA MockVerdicts ==
    ASSUME NEW p \in Program, p.language # "python"
    PROVE  /\ MockVerdict(p) \in Verdicts
           /\ Len(MockVerdict(p).results) <= Len(p.alone)
           /\ Settled(p, MockVerdict(p))
           /\ RightEverywhere(p) => MockVerdict(p).passed
<1>1. Len(p.alone) \in Nat
  BY DEF Program
<1> DEFINE rs == [i \in Tests(p) |-> MockPasses(p)]
<1>2. MockPasses(p) \in BOOLEAN
  BY DEF MockPasses, Program
<1>3. rs \in Seq(BOOLEAN) /\ Len(rs) = Len(p.alone)
  BY <1>1, <1>2 DEF Tests
<1>4. /\ MockVerdict(p).results = rs
      /\ MockVerdict(p).passed = (p.loads # "syntax" /\ (Tests(p) = {} \/ MockPasses(p)))
      /\ MockVerdict(p) \in Verdicts
  BY <1>3 DEF MockVerdict, Verdicts
<1>5. Settled(p, MockVerdict(p))
  BY <1>3, <1>4 DEF Settled, Plausible, MockPasses
<1>6. RightEverywhere(p) => MockVerdict(p).passed
  BY <1>4 DEF RightEverywhere, Plausible, MockPasses
<1>7. QED
  BY <1>1, <1>3, <1>4, <1>5, <1>6

(* One more test.                                                           *)
LEMMA RecordedGrows ==
    ASSUME NEW p \in Program, NEW v \in Verdicts, NEW b \in BOOLEAN,
           Len(v.results) + 1 \in Tests(p),
           SoFar(p, v),
           b => p.alone[Len(v.results) + 1] \in {"right", "exits"}
    PROVE  /\ Recorded(v, b) \in Verdicts
           /\ Len(Recorded(v, b).results) <= Len(p.alone)
           /\ SoFar(p, Recorded(v, b))
           /\ Recorded(v, b).passed <=> v.passed /\ b
<1>1. v.results \in Seq(BOOLEAN) /\ v.passed \in BOOLEAN /\ Len(v.results) \in Nat
  BY DEF Verdicts
<1>2. Len(p.alone) \in Nat
  BY DEF Program
<1> DEFINE w == Append(v.results, b)
<1>3. /\ w \in Seq(BOOLEAN) /\ Len(w) = Len(v.results) + 1
      /\ \A i \in 1 .. Len(v.results) : w[i] = v.results[i]
      /\ w[Len(v.results) + 1] = b
  BY <1>1
<1>4. Recorded(v, b) = [passed |-> v.passed /\ b, results |-> w]
  BY DEF Recorded
<1>5. ASSUME v.passed /\ b, NEW i \in 1 .. Len(w)
      PROVE  w[i] /\ p.alone[i] \in {"right", "exits"}
  <2>1. CASE i = Len(v.results) + 1
    BY <1>3, <1>5, <2>1
  <2>2. CASE i # Len(v.results) + 1
    <3>1. i \in 1 .. Len(v.results)
      BY <1>1, <1>3, <2>2
    <3>2. QED
      BY <1>3, <1>5, <3>1 DEF SoFar
  <2>3. QED
    BY <2>1, <2>2
<1>6. QED
  BY <1>1, <1>2, <1>3, <1>4, <1>5 DEF SoFar, Verdicts, Tests

----------------------------------------------------------------------------
(* A step of one submission leaves the invariant of the others alone.       *)
LEMMA OthersKeep ==
    ASSUME IInv, NEW s \in Submissions, TypeOK', program' = program,
           Only(s), SoundAt(s)', CleanAt(s)'
    PROVE  IInv'
<1> SUFFICES ASSUME NEW t \in Submissions, t # s
             PROVE  SoundAt(t)' /\ CleanAt(t)'
  BY DEF IInv
<1>1. SoundAt(t) /\ CleanAt(t)
  BY DEF IInv
<1>2. /\ pc'[t] = pc[t] /\ verdict'[t] = verdict[t] /\ trouble'[t] = trouble[t]
      /\ program'[t] = program[t]
      /\ t \in containers' <=> t \in containers
      /\ t \in folders' <=> t \in folders
      /\ t \in files' <=> t \in files
  BY DEF Only
<1>3. SoundAt(t)'
  BY <1>1, <1>2 DEF SoundAt, Deserved
<1>4. CleanAt(t)'
  BY <1>1, <1>2 DEF CleanAt, At
<1>5. QED
  BY <1>3, <1>4

Step(s) == TypeOK' /\ program' = program /\ Only(s) /\ SoundAt(s)' /\ CleanAt(s)'

LEMMA SubmitStep ==
    ASSUME IInv, NEW s \in Submissions, Submit(s)
    PROVE  Step(s)
<1>1. TypeOK /\ CleanAt(s) /\ pc[s] = "idle"
  BY DEF IInv, Submit, At
<1>2. TypeOK' /\ program' = program /\ Only(s)
  BY <1>1 DEF Submit, TypeOK, Phases, Go, Only
<1>3. pc'[s] = IF program[s].language = "python" THEN "client" ELSE "mock"
  BY <1>1 DEF Submit, Go, TypeOK
<1>4. SoundAt(s)'
  BY <1>2, <1>3 DEF SoundAt
<1>5. CleanAt(s)'
  BY <1>1, <1>3 DEF CleanAt, At, Submit
<1>6. QED
  BY <1>2, <1>4, <1>5 DEF Step

LEMMA MockStep ==
    ASSUME IInv, NEW s \in Submissions, Mock(s)
    PROVE  Step(s)
<1>1. TypeOK /\ SoundAt(s) /\ CleanAt(s) /\ pc[s] = "mock"
  BY DEF IInv, Mock, At
<1>2. program[s] \in Program /\ program[s].language # "python"
  BY <1>1, ProgramTyped DEF SoundAt
<1> DEFINE v == MockVerdict(program[s])
<1>3. v \in Verdicts /\ Len(v.results) <= Len(program[s].alone)
  BY <1>2, MockVerdicts
<1>4. /\ pc' = [pc EXCEPT ![s] = pc'[s]] /\ pc'[s] \in {"judged", "answered"}
      /\ reply' \in [Submissions -> Replies]
  BY <1>1 DEF Mock, Concluded, Go, TypeOK, Replies
<1>5. verdict' = [verdict EXCEPT ![s] = v] /\ verdict'[s] = v
  BY <1>1 DEF Mock, Judge, TypeOK
<1>6. UNCHANGED <<program, client, containers, folders, files, trouble>>
  BY DEF Mock
<1>7. TypeOK'
  BY <1>1, <1>3, <1>4, <1>5, <1>6 DEF TypeOK, Phases
<1>8. Only(s)
  BY <1>1, <1>4, <1>5, <1>6 DEF Only, TypeOK
<1>9. SoundAt(s)'
  BY <1>2, <1>4, <1>5, <1>6, MockVerdicts DEF SoundAt, Deserved
<1>10. CleanAt(s)'
  BY <1>1, <1>4, <1>6 DEF CleanAt, At
<1>11. QED
  BY <1>6, <1>7, <1>8, <1>9, <1>10 DEF Step

(* What a step of s may do to the variables, and what follows from its form. *)
Touches(held, held2, s) == held2 \in {held, held \cup {s}, held \ {s}}

Form(s, x, v, t) ==
    /\ x \in Phases /\ pc' = [pc EXCEPT ![s] = x]
    /\ v \in Verdicts /\ Len(v.results) <= Len(program[s].alone)
    /\ verdict' = [verdict EXCEPT ![s] = v]
    /\ t \in SUBSET Troubles /\ trouble' = [trouble EXCEPT ![s] = t]
    /\ reply' \in [Submissions -> Replies] /\ client' \in BOOLEAN
    /\ Touches(containers, containers', s)
    /\ Touches(folders, folders', s)
    /\ Touches(files, files', s)
    /\ program' = program

LEMMA FormHolds ==
    ASSUME TypeOK, NEW s \in Submissions, NEW x, NEW v, NEW t, Form(s, x, v, t)
    PROVE  /\ TypeOK' /\ Only(s) /\ program' = program
           /\ pc'[s] = x /\ verdict'[s] = v /\ trouble'[s] = t
<1>1. pc'[s] = x /\ verdict'[s] = v /\ trouble'[s] = t
  BY DEF Form, TypeOK
<1>2. Only(s)
  BY DEF Form, TypeOK, Only, Touches
<1>3. TypeOK'
  <2>1. /\ pc' \in [Submissions -> Phases]
        /\ verdict' \in [Submissions -> Verdicts]
        /\ trouble' \in [Submissions -> SUBSET Troubles]
        /\ program' \in [Submissions -> Programs]
    BY DEF Form, TypeOK
  <2>2. \A u \in Submissions : Len(verdict'[u].results) <= Len(program'[u].alone)
    BY <1>1, <1>2 DEF Form, TypeOK, Only
  <2>3. containers' \subseteq Submissions /\ folders' \subseteq Submissions
        /\ files' \subseteq Submissions
    BY DEF Form, TypeOK, Touches
  <2>4. QED
    BY <2>1, <2>2, <2>3 DEF Form, TypeOK
<1>4. QED
  BY <1>1, <1>2, <1>3 DEF Form

LEMMA FormStep ==
    ASSUME IInv, NEW s \in Submissions, NEW x, NEW v, NEW t, Form(s, x, v, t),
           x = "mock" => program[s].language # "python",
           x \in {"client", "folder", "launch", "wait", "cleanup", "local", "test"}
              => program[s].language = "python",
           x = "test" => SoFar(program[s], v) /\ ~program[s].forbidden,
           x \in {"cleanup", "judged"} => Settled(program[s], v),
           x \in {"cleanup", "judged", "test"} =>
               (RightEverywhere(program[s]) /\ ~v.passed => t # {}),
           s \in containers' => x = "wait" \/ "daemon" \in t,
           s \in folders' => x \in {"launch", "wait", "cleanup"} \/ "disk" \in t,
           s \in files' => x = "test" \/ "disk" \in t
    PROVE  Step(s)
<1>1. /\ TypeOK' /\ Only(s) /\ program' = program
      /\ pc'[s] = x /\ verdict'[s] = v /\ trouble'[s] = t
  BY FormHolds DEF IInv
<1>2. SoundAt(s)'
  BY <1>1 DEF SoundAt, Deserved
<1>3. CleanAt(s)'
  BY <1>1 DEF CleanAt, At
<1>4. QED
  BY <1>1, <1>2, <1>3 DEF Step

LEMMA GetClientStep ==
    ASSUME IInv, NEW s \in Submissions, GetClient(s)
    PROVE  Step(s)
<1>1. /\ TypeOK /\ SoundAt(s) /\ CleanAt(s) /\ pc[s] = "client"
      /\ program[s].language = "python"
  BY DEF IInv, GetClient, At, SoundAt
<1>2. pc'[s] \in {"folder", "local"} /\ pc' = [pc EXCEPT ![s] = pc'[s]]
  BY <1>1 DEF GetClient, Go, TypeOK
<1>3. Form(s, pc'[s], verdict[s], trouble[s])
  BY <1>1, <1>2, ProgramTyped DEF GetClient, Form, Touches, TypeOK, Phases
<1>4. QED
  BY <1>1, <1>2, <1>3, FormStep DEF CleanAt, At, GetClient

LEMMA PrepareFolderStep ==
    ASSUME IInv, NEW s \in Submissions, PrepareFolder(s)
    PROVE  Step(s)
<1>1. /\ TypeOK /\ SoundAt(s) /\ CleanAt(s) /\ pc[s] = "folder"
      /\ program[s].language = "python"
  BY DEF IInv, PrepareFolder, At, SoundAt
<1>2. CASE Go(s, "launch") /\ folders' = folders \cup {s} /\ UNCHANGED trouble
  <2>1. Form(s, "launch", verdict[s], trouble[s])
    BY <1>1, <1>2, ProgramTyped DEF PrepareFolder, Form, Touches, TypeOK, Phases, Go
  <2>2. QED
    BY <1>1, <2>1, FormStep DEF CleanAt, At, PrepareFolder
<1>3. CASE /\ Go(s, "local") /\ folders' \in {folders, folders \cup {s}}
           /\ Trouble(s, {"disk"})
  <2>1. Form(s, "local", verdict[s], trouble[s] \cup {"disk"})
    BY <1>1, <1>3, ProgramTyped
    DEF PrepareFolder, Form, Touches, TypeOK, Phases, Go, Trouble, Troubles
  <2>2. QED
    BY <1>1, <2>1, FormStep DEF CleanAt, At, PrepareFolder
<1>4. QED
  BY <1>2, <1>3 DEF PrepareFolder

LEMMA FailedSettled ==
    ASSUME NEW p
    PROVE  Settled(p, Failed)
BY DEF Settled, Failed

LEMMA FailedTyped ==
    ASSUME TypeOK, NEW s \in Submissions
    PROVE  Failed \in Verdicts /\ Len(Failed.results) <= Len(program[s].alone)
BY ProgramTyped DEF Failed, Verdicts

LEMMA LaunchStep ==
    ASSUME IInv, NEW s \in Submissions, Launch(s)
    PROVE  Step(s)
<1>1. /\ TypeOK /\ SoundAt(s) /\ CleanAt(s) /\ pc[s] = "launch"
      /\ program[s].language = "python"
  BY DEF IInv, Launch, At, SoundAt
<1>2. CASE Go(s, "wait") /\ containers' = containers \cup {s} /\ UNCHANGED <<verdict, trouble>>
  <2>1. Form(s, "wait", verdict[s], trouble[s])
    BY <1>1, <1>2, ProgramTyped DEF Launch, Form, Touches, TypeOK, Phases, Go
  <2>2. QED
    BY <1>1, <2>1, FormStep DEF CleanAt, At, Launch
<1>3. CASE /\ Go(s, "cleanup") /\ containers' \in {containers, containers \cup {s}}
           /\ Judge(s, Failed) /\ Trouble(s, {"daemon"})
  <2>1. Form(s, "cleanup", Failed, trouble[s] \cup {"daemon"})
    BY <1>1, <1>3, FailedTyped
    DEF Launch, Form, Touches, TypeOK, Phases, Go, Trouble, Troubles, Judge
  <2>2. QED
    BY <1>1, <2>1, FormStep, FailedSettled DEF CleanAt, At, Launch
<1>4. QED
  BY <1>2, <1>3 DEF Launch

(* The container is removed, or the daemon raises: the same for a program   *)
(* that ended and for one that is given up.                                 *)
LEMMA RemovalStep ==
    ASSUME IInv, NEW s \in Submissions, pc[s] = "wait", Go(s, "cleanup"),
           NEW v \in Verdicts, Len(v.results) <= Len(program[s].alone),
           Settled(program[s], v), Judge(s, v),
           NEW others \in SUBSET Troubles,
           RightEverywhere(program[s]) /\ ~v.passed => others # {},
           Release(s, containers, containers', "daemon", others),
           UNCHANGED <<program, reply, client, folders, files>>
    PROVE  Step(s)
<1>1. TypeOK /\ SoundAt(s) /\ CleanAt(s) /\ program[s].language = "python"
  BY DEF IInv, SoundAt
<1>2. CASE containers' = containers \ {s} /\ Trouble(s, others)
  <2>1. Form(s, "cleanup", v, trouble[s] \cup others)
    BY <1>1, <1>2, ProgramTyped DEF Form, Touches, TypeOK, Phases, Go, Judge, Trouble
  <2>2. QED
    BY <1>1, <1>2, <2>1, FormStep DEF CleanAt, At
<1>3. CASE containers' = containers /\ Trouble(s, others \cup {"daemon"})
  <2>1. Form(s, "cleanup", v, trouble[s] \cup (others \cup {"daemon"}))
    BY <1>1, <1>3, ProgramTyped DEF Form, Touches, TypeOK, Phases, Go, Judge, Trouble, Troubles
  <2>2. QED
    BY <1>1, <1>3, <2>1, FormStep DEF CleanAt, At
<1>4. QED
  BY <1>2, <1>3 DEF Release

LEMMA CollectStep ==
    ASSUME IInv, NEW s \in Submissions, Collect(s)
    PROVE  Step(s)
<1>1. TypeOK /\ pc[s] = "wait" /\ program[s].language = "python"
  BY DEF IInv, Collect, At, SoundAt
<1>2. /\ program[s] \in Program
      /\ Len(program[s].contained) = Len(program[s].alone)
  BY <1>1, ProgramTyped
<1>3. CASE /\ Judge(s, ContainedVerdict(program[s]))
           /\ Release(s, containers, containers', "daemon", {})
  BY <1>1, <1>2, <1>3, ContainedVerdicts, RemovalStep DEF Collect
<1>4. CASE Judge(s, Failed) /\ Release(s, containers, containers', "daemon", {"daemon"})
  BY <1>1, <1>4, FailedTyped, FailedSettled, RemovalStep DEF Collect, Troubles
<1>5. QED
  BY <1>3, <1>4 DEF Collect

LEMMA GiveUpStep ==
    ASSUME IInv, NEW s \in Submissions, GiveUp(s)
    PROVE  Step(s)
<1>1. TypeOK /\ pc[s] = "wait"
  BY DEF IInv, GiveUp, At
<1>2. QED
  BY <1>1, FailedTyped, FailedSettled, RemovalStep DEF GiveUp, Troubles

LEMMA CleanupStep ==
    ASSUME IInv, NEW s \in Submissions, Cleanup(s)
    PROVE  Step(s)
<1>1. /\ TypeOK /\ SoundAt(s) /\ CleanAt(s) /\ pc[s] = "cleanup"
      /\ program[s].language = "python"
      /\ Settled(program[s], verdict[s]) /\ Deserved(s)
  BY DEF IInv, Cleanup, At, SoundAt
<1>2. CASE /\ folders' = folders \ {s}
           /\ Go(s, IF program[s].analysable THEN "judged" ELSE "local")
           /\ UNCHANGED trouble
  <2> DEFINE x == IF program[s].analysable THEN "judged" ELSE "local"
  <2>1. Form(s, x, verdict[s], trouble[s])
    BY <1>1, <1>2, ProgramTyped DEF Cleanup, Form, Touches, TypeOK, Phases, Go
  <2>2. QED
    BY <1>1, <1>2, <2>1, FormStep DEF CleanAt, At, Cleanup, Deserved
<1>3. CASE Go(s, "local") /\ UNCHANGED folders /\ Trouble(s, {"disk"})
  <2>1. Form(s, "local", verdict[s], trouble[s] \cup {"disk"})
    BY <1>1, <1>3, ProgramTyped
    DEF Cleanup, Form, Touches, TypeOK, Phases, Go, Trouble, Troubles
  <2>2. QED
    BY <1>1, <1>3, <2>1, FormStep DEF CleanAt, At, Cleanup
<1>4. QED
  BY <1>2, <1>3 DEF Cleanup

----------------------------------------------------------------------------
(* The end of a run in a subprocess.                                        *)
LEMMA ConcludedPhase ==
    ASSUME TypeOK, NEW s \in Submissions, Concluded(s)
    PROVE  /\ pc'[s] \in {"judged", "answered"} /\ pc' = [pc EXCEPT ![s] = pc'[s]]
           /\ reply' \in [Submissions -> Replies]
BY DEF Concluded, Go, TypeOK, Replies

LEMMA RefuseForbiddenStep ==
    ASSUME IInv, NEW s \in Submissions, RefuseForbidden(s)
    PROVE  Step(s)
<1>1. /\ TypeOK /\ SoundAt(s) /\ CleanAt(s) /\ pc[s] = "local"
      /\ program[s].language = "python" /\ program[s].forbidden
  BY DEF IInv, RefuseForbidden, At, SoundAt
<1>2. ~RightEverywhere(program[s])
  BY <1>1 DEF RightEverywhere, AllPass
<1>3. Form(s, pc'[s], Failed, trouble[s])
  BY <1>1, ConcludedPhase, FailedTyped DEF RefuseForbidden, Form, Touches, TypeOK, Phases, Judge
<1>4. QED
  BY <1>1, <1>2, <1>3, ConcludedPhase, FailedSettled, FormStep
  DEF CleanAt, At, RefuseForbidden

LEMMA WriteFileStep ==
    ASSUME IInv, NEW s \in Submissions, WriteFile(s)
    PROVE  Step(s)
<1>1. /\ TypeOK /\ SoundAt(s) /\ CleanAt(s) /\ pc[s] = "local"
      /\ program[s].language = "python" /\ ~program[s].forbidden
  BY DEF IInv, WriteFile, At, SoundAt
<1>2. CASE /\ Go(s, "test") /\ files' = files \cup {s} /\ Judge(s, Unjudged)
           /\ UNCHANGED <<reply, trouble>>
  <2>1. /\ Unjudged \in Verdicts /\ Len(Unjudged.results) <= Len(program[s].alone)
        /\ SoFar(program[s], Unjudged) /\ Unjudged.passed
    BY <1>1, ProgramTyped DEF Unjudged, Verdicts, SoFar
  <2>2. Form(s, "test", Unjudged, trouble[s])
    BY <1>1, <1>2, <2>1, ProgramTyped DEF WriteFile, Form, Touches, TypeOK, Phases, Go, Judge
  <2>3. QED
    BY <1>1, <2>1, <2>2, FormStep DEF CleanAt, At, WriteFile
<1>3. CASE /\ Go(s, "answered") /\ files' \in {files, files \cup {s}}
           /\ reply' = [reply EXCEPT ![s] = "error"]
           /\ Trouble(s, {"disk"}) /\ UNCHANGED verdict
  <2>1. Form(s, "answered", verdict[s], trouble[s] \cup {"disk"})
    BY <1>1, <1>3, ProgramTyped
    DEF WriteFile, Form, Touches, TypeOK, Phases, Go, Trouble, Troubles, Replies
  <2>2. QED
    BY <1>1, <2>1, FormStep DEF CleanAt, At, WriteFile
<1>4. QED
  BY <1>2, <1>3 DEF WriteFile

LEMMA RunTestStep ==
    ASSUME IInv, NEW s \in Submissions, RunTest(s)
    PROVE  Step(s)
<1>1. /\ TypeOK /\ SoundAt(s) /\ CleanAt(s) /\ pc[s] = "test"
      /\ program[s].language = "python" /\ ~program[s].forbidden
      /\ SoFar(program[s], verdict[s]) /\ Deserved(s)
  BY DEF IInv, RunTest, At, SoundAt
<1>2. program[s] \in Program /\ verdict[s] \in Verdicts /\ trouble[s] \in SUBSET Troubles
  BY <1>1, ProgramTyped
<1> DEFINE b == program[s].alone[NextTest(s)] \in {"right", "exits"}
           v == Recorded(verdict[s], b)
<1>3. Len(verdict[s].results) + 1 \in Tests(program[s]) /\ Judge(s, v)
  BY DEF RunTest, NextTest
<1>4. /\ v \in Verdicts /\ Len(v.results) <= Len(program[s].alone)
      /\ SoFar(program[s], v) /\ (v.passed <=> verdict[s].passed /\ b)
  <2>1. b \in BOOLEAN /\ (b => program[s].alone[Len(verdict[s].results) + 1] \in {"right", "exits"})
    BY DEF NextTest
  <2> HIDE DEF b
  <2>2. QED
    BY <1>1, <1>2, <1>3, <2>1, RecordedGrows
<1>5. RightEverywhere(program[s]) => b
  BY <1>1, <1>3 DEF RightEverywhere, AllPass, NextTest
<1>6. Form(s, "test", v, trouble[s])
  <2>1. pc' = [pc EXCEPT ![s] = "test"] /\ trouble' = [trouble EXCEPT ![s] = trouble[s]]
    BY <1>1 DEF RunTest, TypeOK
  <2>2. QED
    BY <1>1, <1>2, <1>3, <1>4, <2>1 DEF RunTest, Form, Touches, TypeOK, Phases, Judge
<1>7. RightEverywhere(program[s]) /\ ~v.passed => trouble[s] # {}
  BY <1>1, <1>4, <1>5 DEF Deserved
<1>8. UNCHANGED <<containers, folders, files>>
  BY DEF RunTest
<1> HIDE DEF b, v
<1>9. QED
  BY <1>1, <1>4, <1>6, <1>7, <1>8, FormStep DEF CleanAt, At

LEMMA LoseTestStep ==
    ASSUME IInv, NEW s \in Submissions, LoseTest(s)
    PROVE  Step(s)
<1>1. /\ TypeOK /\ SoundAt(s) /\ CleanAt(s) /\ pc[s] = "test"
      /\ program[s].language = "python" /\ ~program[s].forbidden
      /\ SoFar(program[s], verdict[s])
  BY DEF IInv, LoseTest, At, SoundAt
<1>2. program[s] \in Program /\ verdict[s] \in Verdicts /\ trouble[s] \in SUBSET Troubles
  BY <1>1, ProgramTyped
<1> DEFINE v == Recorded(verdict[s], FALSE)
           t == trouble[s] \cup {"late"}
<1>3. Len(verdict[s].results) + 1 \in Tests(program[s]) /\ Judge(s, v)
  BY DEF LoseTest, NextTest
<1>4. v \in Verdicts /\ Len(v.results) <= Len(program[s].alone) /\ SoFar(program[s], v)
  BY <1>1, <1>2, <1>3, RecordedGrows
<1>5. t \in SUBSET Troubles /\ t # {} /\ trouble[s] \subseteq t
  BY <1>2 DEF Troubles
<1>6. Form(s, "test", v, t)
  <2>1. pc' = [pc EXCEPT ![s] = "test"] /\ trouble' = [trouble EXCEPT ![s] = t]
    BY <1>1 DEF LoseTest, TypeOK, Trouble
  <2>2. QED
    BY <1>1, <1>3, <1>4, <1>5, <2>1 DEF LoseTest, Form, Touches, TypeOK, Phases, Judge
<1>7. UNCHANGED <<containers, folders, files>>
  BY DEF LoseTest
<1> HIDE DEF v, t
<1>8. QED
  BY <1>1, <1>4, <1>5, <1>6, <1>7, FormStep DEF CleanAt, At

LEMMA EndTestsStep ==
    ASSUME IInv, NEW s \in Submissions, EndTests(s)
    PROVE  Step(s)
<1>1. /\ TypeOK /\ SoundAt(s) /\ CleanAt(s) /\ pc[s] = "test"
      /\ program[s].language = "python" /\ ~program[s].forbidden
      /\ SoFar(program[s], verdict[s]) /\ Deserved(s)
  BY DEF IInv, EndTests, At, SoundAt
<1>2. Len(verdict[s].results) = Len(program[s].alone)
  <2>1. /\ Len(verdict[s].results) \in Nat /\ Len(program[s].alone) \in Nat
        /\ Len(verdict[s].results) <= Len(program[s].alone)
    BY <1>1, ProgramTyped DEF Verdicts, TypeOK
  <2>2. Len(verdict[s].results) + 1 \notin 1 .. Len(program[s].alone)
    BY DEF EndTests, NextTest, Tests
  <2>3. QED
    BY <2>1, <2>2
<1>3. Settled(program[s], verdict[s])
  BY <1>1, <1>2 DEF Settled, SoFar, AllPass, Tests
<1>4. CASE files' = files \ {s} /\ Trouble(s, {})
  <2>1. trouble' = [trouble EXCEPT ![s] = trouble[s]]
    BY <1>1, <1>4 DEF Trouble, TypeOK
  <2>2. Form(s, pc'[s], verdict[s], trouble[s])
    BY <1>1, <1>4, <2>1, ConcludedPhase, ProgramTyped
    DEF EndTests, Form, Touches, TypeOK, Phases
  <2>3. QED
    BY <1>1, <1>3, <1>4, <2>2, ConcludedPhase, FormStep DEF CleanAt, At, EndTests, Deserved
<1>5. CASE files' = files /\ Trouble(s, {} \cup {"disk"})
  <2> DEFINE t == trouble[s] \cup {"disk"}
  <2>1. trouble' = [trouble EXCEPT ![s] = t] /\ t \in SUBSET Troubles /\ t # {}
    BY <1>1, <1>5, ProgramTyped DEF Trouble, TypeOK, Troubles
  <2>2. Form(s, pc'[s], verdict[s], t)
    BY <1>1, <1>5, <2>1, ConcludedPhase, ProgramTyped
    DEF EndTests, Form, Touches, TypeOK, Phases
  <2>3. QED
    BY <1>1, <1>3, <1>5, <2>1, <2>2, ConcludedPhase, FormStep DEF CleanAt, At, EndTests
<1>6. QED
  BY <1>4, <1>5 DEF EndTests, Release

LEMMA AnswerStep ==
    ASSUME IInv, NEW s \in Submissions, Answer(s)
    PROVE  Step(s)
<1>1. TypeOK /\ SoundAt(s) /\ CleanAt(s) /\ pc[s] = "judged"
  BY DEF IInv, Answer, At
<1>2. reply' \in [Submissions -> Replies]
  BY <1>1 DEF Answer, AnswersTo, TypeOK, Replies
<1>3. Form(s, "answered", verdict[s], trouble[s])
  BY <1>1, <1>2, ProgramTyped DEF Answer, Form, Touches, TypeOK, Phases, Go
<1>4. QED
  BY <1>1, <1>3, FormStep DEF CleanAt, At, Answer

----------------------------------------------------------------------------
LEMMA InitHolds == Init => IInv
<1> SUFFICES ASSUME Init PROVE IInv
  OBVIOUS
<1>1. TypeOK
  <2>1. Unjudged \in Verdicts /\ \A p \in Programs : Len(Unjudged.results) <= Len(p.alone)
    BY ProgramsAssumption DEF Unjudged, Verdicts, Program
  <2>2. QED
    BY <2>1 DEF Init, TypeOK, Phases, Replies
<1>2. ASSUME NEW s \in Submissions
      PROVE  SoundAt(s) /\ CleanAt(s)
  BY DEF Init, SoundAt, CleanAt
<1>3. QED
  BY <1>1, <1>2 DEF IInv

LEMMA NextKeeps == IInv /\ [Next]_vars => IInv'
<1> SUFFICES ASSUME IInv, [Next]_vars PROVE IInv'
  OBVIOUS
<1>1. ASSUME NEW s \in Submissions, Submit(s) \/ Handle(s)
      PROVE  IInv'
  <2>1. Step(s)
    BY <1>1, SubmitStep, MockStep, GetClientStep, PrepareFolderStep, LaunchStep, CollectStep,
       GiveUpStep, CleanupStep, RefuseForbiddenStep, WriteFileStep, RunTestStep,
       LoseTestStep, EndTestsStep, AnswerStep
    DEF Handle, Contained, Local
  <2>2. QED
    BY <2>1, OthersKeep DEF Step
<1>2. CASE UNCHANGED vars
  BY <1>2 DEF vars, IInv, TypeOK, SoundAt, CleanAt, Deserved, At
<1>3. QED
  BY <1>1, <1>2 DEF Next, Done

LEMMA Invariance == Spec => []IInv
BY InitHolds, NextKeeps, PTL DEF Spec

(* The fields of every submission stay in their types, and no test is       *)
(* recorded twice.                                                          *)
THEOREM SandboxTypeCorrect == Spec => []TypeOK
<1>1. IInv => TypeOK
  BY DEF IInv
<1>2. QED
  BY <1>1, Invariance, PTL

(* No container, directory or file outlives the run it was made for, but    *)
(* for errors of the daemon or of the disk.                                 *)
THEOREM SandboxCleansUp == Spec => []NothingLeftBehind
<1>1. IInv => NothingLeftBehind
  BY DEF IInv, NothingLeftBehind, CleanAt
<1>2. QED
  BY <1>1, Invariance, PTL

(* Who is told to have passed has passed every test in one place.           *)
THEOREM PassesAreEarned == Spec => []PassedMeansPassed
<1>1. IInv => PassedMeansPassed
  BY DEF IInv, PassedMeansPassed, SoundAt, Settled, At
<1>2. QED
  BY <1>1, Invariance, PTL

(* Who is right wherever the program may run fails only by trouble outside  *)
(* the program.                                                             *)
THEOREM FailuresAreExcused == Spec => []RightFailsOnlyByTrouble
<1>1. IInv => RightFailsOnlyByTrouble
  BY DEF IInv, RightFailsOnlyByTrouble, SoundAt, Deserved, At
<1>2. QED
  BY <1>1, Invariance, PTL

----------------------------------------------------------------------------
(***************************************************************************)
(* The safety half of EveryCodeAnswered: the work on a submission is        *)
(* bounded.  Each step takes one from the stages ahead of it, or one from   *)
(* the tests still to be run, and falling over from the container to the    *)
(* subprocess gives nothing back.                                           *)
(***************************************************************************)
StagesAhead ==
    [ answered |-> 0, judged |-> 1, test |-> 2, local |-> 3, cleanup |-> 4, wait |-> 5,
      launch |-> 6, folder |-> 7, client |-> 8, mock |-> 8, idle |-> 9 ]

TestsAhead(s) ==
    IF pc[s] \in {"judged", "answered"} THEN 0
    ELSE Len(program[s].alone) - (IF pc[s] = "test" THEN Len(verdict[s].results) ELSE 0)

WorkAhead(s) == StagesAhead[pc[s]] + TestsAhead(s)

Progresses ==
    \A s \in Submissions :
        Submit(s) \/ Handle(s) =>
            /\ WorkAhead(s) \in Nat /\ WorkAhead(s)' \in Nat
            /\ WorkAhead(s)' < WorkAhead(s)
            /\ \A t \in Submissions \ {s} : WorkAhead(t)' = WorkAhead(t)

LEMMA TestsCounted ==
    ASSUME TypeOK, NEW s \in Submissions
    PROVE  /\ TestsAhead(s) \in Nat
           /\ Len(program[s].alone) \in Nat
           /\ Len(verdict[s].results) \in Nat
           /\ Len(verdict[s].results) <= Len(program[s].alone)
BY ProgramTyped DEF TypeOK, TestsAhead, Verdicts

(* A step to a later stage: no tests come back.                             *)
LEMMA StageLowers ==
    ASSUME TypeOK, TypeOK', program' = program, NEW s \in Submissions,
           StagesAhead[pc'[s]] < StagesAhead[pc[s]],
           pc[s] # "test" \/ pc'[s] \in {"judged", "answered"},
           pc[s] \notin {"judged", "answered"} \/ pc'[s] \in {"judged", "answered"}
    PROVE  WorkAhead(s) \in Nat /\ WorkAhead(s)' \in Nat /\ WorkAhead(s)' < WorkAhead(s)
<1>1. pc[s] \in Phases /\ pc'[s] \in Phases
  BY DEF TypeOK
<1>2. StagesAhead[pc[s]] \in Nat /\ StagesAhead[pc'[s]] \in Nat
  BY <1>1 DEF Phases, StagesAhead
<1>3. TestsAhead(s)' \in Nat /\ TestsAhead(s) \in Nat /\ TestsAhead(s)' <= TestsAhead(s)
  <2>1. verdict'[s].results \in Seq(BOOLEAN) /\ Len(verdict'[s].results) <= Len(program[s].alone)
    BY DEF TypeOK, Verdicts
  <2> DEFINE n == Len(program[s].alone)
             r == Len(verdict[s].results)
             q == Len(verdict'[s].results)
  <2>2. n \in Nat /\ r \in Nat /\ r <= n /\ q \in Nat /\ q <= n
    BY <2>1, TestsCounted
  <2>3. /\ TestsAhead(s) =
              IF pc[s] \in {"judged", "answered"} THEN 0
              ELSE n - (IF pc[s] = "test" THEN r ELSE 0)
        /\ TestsAhead(s)' =
              IF pc'[s] \in {"judged", "answered"} THEN 0
              ELSE n - (IF pc'[s] = "test" THEN q ELSE 0)
    BY DEF TestsAhead
  <2> HIDE DEF n, r, q
  <2>4. QED
    BY <2>2, <2>3
<1> HIDE DEF StagesAhead
<1>5. QED
  BY <1>2, <1>3 DEF WorkAhead

(* A test that is recorded is not run again.                                *)
LEMMA TestLowers ==
    ASSUME TypeOK, TypeOK', program' = program, NEW s \in Submissions,
           NEW b \in BOOLEAN, pc[s] = "test", pc'[s] = "test",
           Judge(s, Recorded(verdict[s], b))
    PROVE  WorkAhead(s) \in Nat /\ WorkAhead(s)' \in Nat /\ WorkAhead(s)' < WorkAhead(s)
<1>1. verdict[s].results \in Seq(BOOLEAN)
  BY ProgramTyped DEF Verdicts
<1>2. Len(verdict'[s].results) = Len(verdict[s].results) + 1
  BY <1>1 DEF Judge, Recorded, TypeOK
<1>3. Len(verdict'[s].results) <= Len(program[s].alone)
  BY DEF TypeOK
<1> DEFINE n == Len(program[s].alone)
           r == Len(verdict[s].results)
<1>4. n \in Nat /\ r \in Nat /\ r + 1 <= n
  BY <1>2, <1>3, TestsCounted
<1>5. /\ WorkAhead(s) = 2 + (n - r)
      /\ WorkAhead(s)' = 2 + (n - (r + 1))
  BY <1>2 DEF WorkAhead, StagesAhead, TestsAhead
<1> HIDE DEF n, r
<1>6. QED
  BY <1>4, <1>5

(* Every step on a submission, through Docker, subprocess and mock and      *)
(* however it fails over, brings its answer strictly nearer and leaves the  *)
(* others where they are: what EveryCodeAnswered needs beyond fairness.     *)
THEOREM WorkIsBounded == Spec => [][Progresses]_vars
<1>1. ASSUME IInv, [Next]_vars, NEW s \in Submissions, Submit(s) \/ Handle(s)
      PROVE  /\ WorkAhead(s) \in Nat /\ WorkAhead(s)' \in Nat
             /\ WorkAhead(s)' < WorkAhead(s)
             /\ \A t \in Submissions \ {s} : WorkAhead(t)' = WorkAhead(t)
  <2>1. TypeOK /\ Step(s)
    BY <1>1, SubmitStep, MockStep, GetClientStep, PrepareFolderStep, LaunchStep, CollectStep,
       GiveUpStep, CleanupStep, RefuseForbiddenStep, WriteFileStep, RunTestStep,
       LoseTestStep, EndTestsStep, AnswerStep
    DEF Handle, Contained, Local, IInv
  <2>2. TypeOK' /\ program' = program /\ Only(s)
    BY <2>1 DEF Step
  <2>3. \A t \in Submissions \ {s} : WorkAhead(t)' = WorkAhead(t)
    BY <2>2 DEF Only, WorkAhead, TestsAhead
  <2>4. CASE RunTest(s)
    <3> DEFINE b == program[s].alone[NextTest(s)] \in {"right", "exits"}
    <3>1. pc[s] = "test" /\ pc'[s] = "test" /\ Judge(s, Recorded(verdict[s], b)) /\ b \in BOOLEAN
      BY <2>4 DEF RunTest, At
    <3> HIDE DEF b
    <3>2. QED
      BY <2>1, <2>2, <2>3, <3>1, TestLowers
  <2>5. CASE LoseTest(s)
    <3>1. pc[s] = "test" /\ pc'[s] = "test" /\ Judge(s, Recorded(verdict[s], FALSE))
      BY <2>5 DEF LoseTest, At
    <3>2. QED
      BY <2>1, <2>2, <2>3, <3>1, TestLowers
  <2>6. CASE ~RunTest(s) /\ ~LoseTest(s)
    <3>1. /\ StagesAhead[pc'[s]] < StagesAhead[pc[s]]
          /\ pc[s] # "test" \/ pc'[s] \in {"judged", "answered"}
          /\ pc[s] \notin {"judged", "answered"} \/ pc'[s] \in {"judged", "answered"}
      <4>1. pc \in [Submissions -> Phases]
        BY <2>1 DEF TypeOK
      <4>2. CASE Submit(s) \/ Mock(s) \/ Answer(s)
        BY <4>1, <4>2 DEF Submit, Mock, Answer, Concluded, Go, At, StagesAhead
      <4>3. CASE Contained(s)
        <5>1. CASE GetClient(s)
          <6>1. pc[s] = "client" /\ (Go(s, "folder") \/ Go(s, "local"))
            BY <5>1 DEF GetClient, At
          <6>2. QED
            BY <4>1, <6>1 DEF Go, StagesAhead
        <5>2. CASE PrepareFolder(s)
          BY <4>1, <5>2 DEF PrepareFolder, Go, At, StagesAhead
        <5>3. CASE Launch(s) \/ Cleanup(s)
          BY <4>1, <5>3 DEF Launch, Cleanup, Go, At, StagesAhead
        <5>4. CASE Collect(s) \/ GiveUp(s)
          BY <4>1, <5>4 DEF Collect, GiveUp, Go, At, StagesAhead
        <5>5. QED
          BY <4>3, <5>1, <5>2, <5>3, <5>4 DEF Contained
      <4>4. CASE RefuseForbidden(s) \/ WriteFile(s) \/ EndTests(s)
        BY <4>1, <4>4 DEF RefuseForbidden, WriteFile, EndTests, Concluded, Go, At, StagesAhead
      <4>5. QED
        BY <1>1, <2>6, <4>2, <4>3, <4>4 DEF Handle, Local
    <3>2. QED
      BY <2>1, <2>2, <2>3, <3>1, StageLowers
  <2>7. QED
    BY <2>4, <2>5, <2>6
<1>2. IInv /\ [Next]_vars => [Progresses]_vars
  BY <1>1 DEF Progresses
<1>3. QED
  BY <1>2, Invariance, PTL DEF Spec

----------------------------------------------------------------------------
(***************************************************************************)
(* What is left of FailureExplained, which a failed test breaks: the causes *)
(* an internal error may have, apart from the model.                        *)
(***************************************************************************)
Excused(s) ==
    \/ ~program[s].analysable
    \/ "disk" \in trouble[s]
    \/ ~Explained(verdict[s])

ErrorsAreExcused ==
    \A s \in Submissions :
        /\ reply[s] # "none" => At(s, "answered")
        /\ reply[s] = "error" => Excused(s)
        /\ reply[s] = "model_error" => Explained(verdict[s])

Gives(s, r) ==
    /\ reply' = [reply EXCEPT ![s] = r]
    /\ pc'[s] = "answered"
    /\ r = "error" => Excused(s)'
    /\ r = "model_error" => Explained(verdict[s])'

(* A step leaves the reply alone, or gives it, an error for a reason.       *)
LEMMA ConcludedReplies ==
    ASSUME NEW s \in Submissions, pc \in [Submissions -> Phases], Concluded(s)
    PROVE  \/ reply' = reply
           \/ /\ reply' = [reply EXCEPT ![s] = "error"]
              /\ pc'[s] = "answered" /\ ~program[s].analysable
BY DEF Concluded, Go

LEMMA StepReplies ==
    ASSUME IInv, NEW s \in Submissions, Submit(s) \/ Handle(s)
    PROVE  /\ pc[s] # "answered"
           /\ reply' = reply \/ \E r : Gives(s, r)
<1>1. /\ pc \in [Submissions -> Phases]
      /\ trouble \in [Submissions -> SUBSET Troubles]
  BY DEF IInv, TypeOK
<1>2. CASE Submit(s) \/ RunTest(s) \/ LoseTest(s)
  BY <1>2 DEF Submit, RunTest, LoseTest, At
<1>3. CASE Contained(s)
  <2>1. reply' = reply
    BY <1>3
    DEF Contained, GetClient, PrepareFolder, Launch, Collect, GiveUp, Cleanup
  <2>2. pc[s] \in {"client", "folder", "launch", "wait", "cleanup"}
    BY <1>3
    DEF Contained, GetClient, PrepareFolder, Launch, Collect, GiveUp, Cleanup, At
  <2>3. QED
    BY <2>1, <2>2
<1>4. CASE Mock(s) \/ RefuseForbidden(s) \/ EndTests(s)
  <2>1. Concluded(s) /\ program' = program /\ pc[s] \in {"mock", "local", "test"}
    BY <1>4 DEF Mock, RefuseForbidden, EndTests, At
  <2>2. QED
    BY <1>1, <2>1, ConcludedReplies DEF Excused, Gives
<1>5. CASE WriteFile(s)
  <2>1. CASE Go(s, "test") /\ UNCHANGED <<reply, trouble>>
    BY <1>5, <2>1 DEF WriteFile, At
  <2>2. CASE Go(s, "answered") /\ reply' = [reply EXCEPT ![s] = "error"] /\ Trouble(s, {"disk"})
    <3>1. pc'[s] = "answered" /\ "disk" \in trouble'[s] /\ pc[s] = "local"
      BY <1>1, <1>5, <2>2 DEF WriteFile, At, Go, Trouble
    <3>2. Excused(s)'
      BY <3>1 DEF Excused
    <3>3. Gives(s, "error")
      BY <2>2, <3>1, <3>2 DEF Gives
    <3>4. QED
      BY <3>1, <3>3
  <2>3. QED
    BY <1>5, <2>1, <2>2 DEF WriteFile
<1>6. CASE Answer(s)
  <2>1. PICK r \in AnswersTo(verdict[s]) : reply' = [reply EXCEPT ![s] = r]
    BY <1>6 DEF Answer
  <2>2. pc'[s] = "answered" /\ pc[s] = "judged" /\ verdict' = verdict
    BY <1>1, <1>6 DEF Answer, At, Go
  <2>3. /\ r = "error" => Excused(s)'
        /\ r = "model_error" => Explained(verdict[s])'
    BY <2>1, <2>2 DEF AnswersTo, Excused, Explained
  <2>4. QED
    BY <2>1, <2>2, <2>3 DEF Gives
<1>7. QED
  BY <1>2, <1>3, <1>4, <1>5, <1>6 DEF Handle, Local

LEMMA RepliesKeep ==
    ASSUME IInv, ErrorsAreExcused, [Next]_vars
    PROVE  ErrorsAreExcused'
<1>1. ASSUME NEW s \in Submissions, Submit(s) \/ Handle(s)
      PROVE  ErrorsAreExcused'
  <2>1. Step(s)
    BY <1>1, SubmitStep, MockStep, GetClientStep, PrepareFolderStep, LaunchStep, CollectStep,
       GiveUpStep, CleanupStep, RefuseForbiddenStep, WriteFileStep, RunTestStep,
       LoseTestStep, EndTestsStep, AnswerStep
    DEF Handle, Contained, Local
  <2>2. reply \in [Submissions -> Replies]
    BY DEF IInv, TypeOK
  <2>3. pc[s] # "answered" /\ reply[s] = "none"
    BY <1>1, StepReplies DEF ErrorsAreExcused, At
  <2>4. /\ \/ reply'[s] = "none"
           \/ /\ pc'[s] = "answered"
              /\ reply'[s] = "error" => Excused(s)'
              /\ reply'[s] = "model_error" => Explained(verdict[s])'
        /\ \A t \in Submissions \ {s} : reply'[t] = reply[t]
    <3>1. CASE reply' = reply
      BY <2>3, <3>1
    <3>2. ASSUME NEW r, Gives(s, r)
          PROVE  /\ pc'[s] = "answered"
                 /\ reply'[s] = "error" => Excused(s)'
                 /\ reply'[s] = "model_error" => Explained(verdict[s])'
                 /\ \A t \in Submissions \ {s} : reply'[t] = reply[t]
      BY <2>2, <3>2 DEF Gives
    <3>3. reply' = reply \/ \E r : Gives(s, r)
      BY <1>1, StepReplies
    <3>4. CASE \E r : Gives(s, r)
      <4>1. PICK r : Gives(s, r)
        BY <3>4
      <4>2. QED
        BY <4>1, <3>2
    <3>5. QED
      BY <3>1, <3>3, <3>4
  <2>5. \A t \in Submissions \ {s} : reply'[t] = reply[t]
    BY <2>4
  <2>6. ASSUME NEW t \in Submissions, t # s
        PROVE  /\ reply'[t] # "none" => At(t, "answered")'
               /\ reply'[t] = "error" => Excused(t)'
               /\ reply'[t] = "model_error" => Explained(verdict[t])'
    BY <2>1, <2>5, <2>6 DEF Step, Only, ErrorsAreExcused, Excused, Explained, At
  <2>7. QED
    BY <2>4, <2>6 DEF ErrorsAreExcused, At
<1>2. CASE UNCHANGED vars
  BY <1>2 DEF vars, ErrorsAreExcused, Excused, Explained, At
<1>3. QED
  BY <1>1, <1>2 DEF Next, Done

(* Whoever is answered by an internal error was failed by a test, or handed *)
(* in a text that cannot be analysed, or met an error of the disk - or the  *)
(* model raised, on the question that opens "reflect".  That one happens    *)
(* only to a submission whose tests passed, or that was failed without a    *)
(* test result: when a test failed the handler does not get to the model    *)
(* (submit_code, CodeSandbox.execute).                                      *)
THEOREM OnlyExcusedErrors == Spec => []ErrorsAreExcused
<1>1. Init => ErrorsAreExcused
  BY DEF Init, ErrorsAreExcused
<1>2. IInv /\ ErrorsAreExcused /\ [Next]_vars => ErrorsAreExcused'
  BY RepliesKeep
<1>3. QED
  BY <1>1, <1>2, Invariance, PTL DEF Spec
=============================================================================
