------------------------------- MODULE Sandbox -------------------------------
(***************************************************************************)
(* Code submissions from the request to the reply: api.submit_code, the    *)
(* sandbox it calls (services/code_sandbox.py) and the two places a Python *)
(* program can run in, a container (docker_executor.py) or a subprocess    *)
(* per test (code_executor.py).  Handlers run in threads that share one    *)
(* Docker client.  Every call of the daemon or of the file system may      *)
(* raise; most of these errors are swallowed.                              *)
(***************************************************************************)
EXTENDS Naturals, Sequences

CONSTANTS
    Submissions,    \* the requests, each one submission
    Programs        \* what may be submitted

\* What a call made by a test gives: "exits" ends the process with status 0
\* before anything is printed.
Outcomes == {"right", "wrong", "exits", "loops"}

\* A program with the tests of the task: what it does when it is loaded, and
\* what each test gives in a container and in a process of its own.  (The two
\* harnesses do not know the same functions, so the two may differ.)
Program ==
    [ language   : {"python", "other"},
      analysable : BOOLEAN,      \* analyze_code and compile raise nothing but SyntaxError
      forbidden  : BOOLEAN,      \* matches one of DANGEROUS_PATTERNS
      complete   : BOOLEAN,      \* has a definition and more than three lines
      loads      : {"ok", "syntax", "raises", "exits", "loops"},
      contained  : Seq(Outcomes),
      alone      : Seq(Outcomes) ]

ASSUME ProgramsAssumption ==
    /\ Programs \subseteq Program
    /\ \A p \in Programs : Len(p.contained) = Len(p.alone)

VARIABLES
    pc,          \* how far each submission is
    program,     \* what it submits
    verdict,     \* SandboxResult.overall_passed and .test_results
    reply,       \* what the candidate is answered
    client,      \* DockerCodeExecutor._client is set
    containers,  \* the submissions whose container exists
    folders,     \* whose temporary directory exists
    files,       \* whose temporary file exists
    \* History, for the properties.
    trouble      \* what went wrong outside the program

vars == <<pc, program, verdict, reply, client, containers, folders, files, trouble>>

Phases   == {"idle", "mock", "client", "folder", "launch", "wait", "cleanup",
             "local", "test", "judged", "answered"}
Replies  == {"none", "followup", "refused", "error", "model_error"}
Troubles == {"daemon", "late", "disk"}
Verdicts == [passed : BOOLEAN, results : Seq(BOOLEAN)]

Tests(p) == 1 .. Len(p.alone)
Failed   == [passed |-> FALSE, results |-> << >>]
Unjudged == [passed |-> TRUE, results |-> << >>]

Init ==
    /\ pc = [s \in Submissions |-> "idle"]
    /\ program \in [Submissions -> Programs]
    /\ verdict = [s \in Submissions |-> Unjudged]
    /\ reply = [s \in Submissions |-> "none"]
    /\ client = FALSE
    /\ containers = {}
    /\ folders = {}
    /\ files = {}
    /\ trouble = [s \in Submissions |-> {}]

At(s, phase) == pc[s] = phase
Go(s, phase) == pc' = [pc EXCEPT ![s] = phase]
Judge(s, v)  == verdict' = [verdict EXCEPT ![s] = v]
Trouble(s, t) == trouble' = [trouble EXCEPT ![s] = @ \cup t]

\* A resource is released, or the release raises and is swallowed.
Release(s, held, released, kind, others) ==
    \/ released = held \ {s} /\ Trouble(s, others)
    \/ released = held /\ Trouble(s, others \cup {kind})

----------------------------------------------------------------------------
(* CodeSandbox.execute chooses where to run.                               *)
Submit(s) ==
    /\ At(s, "idle")
    /\ Go(s, IF program[s].language = "python" THEN "client" ELSE "mock")
    /\ UNCHANGED <<program, verdict, reply, client, containers, folders, files, trouble>>

\* _execute_mock: nothing runs, and what is not Python must parse as Python.
MockPasses(p)  == p.loads # "syntax" /\ p.complete
MockVerdict(p) ==
    [ passed  |-> p.loads # "syntax" /\ (Tests(p) = {} \/ MockPasses(p)),
      results |-> [i \in Tests(p) |-> MockPasses(p)] ]

\* A program that cannot be analysed raises out of the sandbox.
Concluded(s) ==
    IF program[s].analysable
    THEN Go(s, "judged") /\ UNCHANGED reply
    ELSE Go(s, "answered") /\ reply' = [reply EXCEPT ![s] = "error"]

Mock(s) ==
    /\ At(s, "mock")
    /\ Judge(s, MockVerdict(program[s]))
    /\ Concluded(s)
    /\ UNCHANGED <<program, client, containers, folders, files, trouble>>

----------------------------------------------------------------------------
(* DockerCodeExecutor.execute.                                             *)

\* The client is made once; two threads that make the executor at the same
\* time may leave it in one that is dropped.  Only here is there a fall back
\* to a subprocess for want of Docker.
GetClient(s) ==
    /\ At(s, "client")
    /\ \/ Go(s, "folder") /\ client' \in {client, TRUE}
       \/ Go(s, "local") /\ ~client /\ UNCHANGED client
    /\ UNCHANGED <<program, verdict, reply, containers, folders, files, trouble>>

\* An error on the disk leaves through the with statement, which may or may
\* not remove the directory, and is swallowed by CodeSandbox.execute.
PrepareFolder(s) ==
    /\ At(s, "folder")
    /\ \/ Go(s, "launch") /\ folders' = folders \cup {s} /\ UNCHANGED trouble
       \/ Go(s, "local") /\ folders' \in {folders, folders \cup {s}} /\ Trouble(s, {"disk"})
    /\ UNCHANGED <<program, verdict, reply, client, containers, files>>

\* containers.run raises before or after it made the container.
Launch(s) ==
    /\ At(s, "launch")
    /\ \/ /\ Go(s, "wait")
          /\ containers' = containers \cup {s}
          /\ UNCHANGED <<verdict, trouble>>
       \/ /\ Go(s, "cleanup")
          /\ containers' \in {containers, containers \cup {s}}
          /\ Judge(s, Failed)
          /\ Trouble(s, {"daemon"})
    /\ UNCHANGED <<program, reply, client, folders, files>>

Terminates(p) == p.loads # "loops" /\ \A i \in Tests(p) : p.contained[i] # "loops"

\* The runner prints its results after the last test.
Reports(p) == p.loads = "ok" /\ \A i \in Tests(p) : p.contained[i] \in {"right", "wrong"}

\* Faulty variant: the absence of a failed test is no success.
ContainedVerdictStrict(p) ==
    IF Reports(p)
    THEN [ passed  |-> Tests(p) # {} /\ \A i \in Tests(p) : p.contained[i] = "right",
           results |-> [i \in Tests(p) |-> p.contained[i] = "right"] ]
    ELSE Failed

\* _parse_results
ContainedVerdict(p) ==
    IF Reports(p)
    THEN [ passed  |-> \A i \in Tests(p) : p.contained[i] = "right",
           results |-> [i \in Tests(p) |-> p.contained[i] = "right"] ]
    ELSE Failed

\* The program ends in time; its log is read, or not, and the container removed.
Collect(s) ==
    /\ At(s, "wait")
    /\ Terminates(program[s])
    /\ Go(s, "cleanup")
    /\ \/ /\ Judge(s, ContainedVerdict(program[s]))
          /\ Release(s, containers, containers', "daemon", {})
       \/ /\ Judge(s, Failed)
          /\ Release(s, containers, containers', "daemon", {"daemon"})
    /\ UNCHANGED <<program, reply, client, folders, files>>

\* Faulty variant: the wait has no timeout.
GiveUpAfterExit(s) ==
    /\ At(s, "wait") /\ Terminates(program[s])
    /\ Go(s, "cleanup") /\ Judge(s, Failed)
    /\ Release(s, containers, containers', "daemon", {"late"})
    /\ UNCHANGED <<program, reply, client, folders, files>>

\* Faulty variant: a container that is too late is left to itself.
GiveUpWithoutRemoval(s) ==
    /\ At(s, "wait")
    /\ Go(s, "cleanup") /\ Judge(s, Failed)
    /\ Trouble(s, {"late"})
    /\ UNCHANGED <<program, reply, client, containers, folders, files>>

\* wait raises: the container is killed and removed.
GiveUp(s) ==
    /\ At(s, "wait")
    /\ Go(s, "cleanup")
    /\ Judge(s, Failed)
    /\ Release(s, containers, containers', "daemon", {"late"})
    /\ UNCHANGED <<program, reply, client, folders, files>>

\* The directory is removed and the program analysed.  An error in either
\* discards the verdict and sends the program to a subprocess.
Cleanup(s) ==
    /\ At(s, "cleanup")
    /\ \/ /\ folders' = folders \ {s}
          /\ Go(s, IF program[s].analysable THEN "judged" ELSE "local")
          /\ UNCHANGED trouble
       \/ Go(s, "local") /\ UNCHANGED folders /\ Trouble(s, {"disk"})
    /\ UNCHANGED <<program, verdict, reply, client, containers, files>>

Contained(s) ==
    GetClient(s) \/ PrepareFolder(s) \/ Launch(s) \/ Collect(s) \/ GiveUp(s) \/ Cleanup(s)

----------------------------------------------------------------------------
(* execute_python.                                                         *)
RefuseForbidden(s) ==
    /\ At(s, "local")
    /\ program[s].forbidden
    /\ Judge(s, Failed)
    /\ Concluded(s)
    /\ UNCHANGED <<program, client, containers, folders, files, trouble>>

\* The file is written before the try that removes it.
WriteFile(s) ==
    /\ At(s, "local")
    /\ ~program[s].forbidden
    /\ \/ /\ Go(s, "test")
          /\ files' = files \cup {s}
          /\ Judge(s, Unjudged)
          /\ UNCHANGED <<reply, trouble>>
       \/ /\ Go(s, "answered")
          /\ files' \in {files, files \cup {s}}
          /\ reply' = [reply EXCEPT ![s] = "error"]
          /\ Trouble(s, {"disk"})
          /\ UNCHANGED verdict
    /\ UNCHANGED <<program, client, containers, folders>>

NextTest(s) == Len(verdict[s].results) + 1

\* Faulty variant: a test that fails is recorded where it fails and again after.
RecordedTwice(v, passes) ==
    [ passed  |-> v.passed /\ passes,
      results |-> Append(IF passes THEN v.results ELSE Append(v.results, FALSE), passes) ]

\* Faulty variant: only the last test counts.
RecordedLast(v, passes) == [passed |-> passes, results |-> Append(v.results, passes)]

Recorded(v, passes) == [passed |-> v.passed /\ passes, results |-> Append(v.results, passes)]

\* _compare_results finds the empty output in whatever was expected.
RunTest(s) ==
    LET outcome == program[s].alone[NextTest(s)]
    IN  /\ At(s, "test")
        /\ NextTest(s) \in Tests(program[s])
        /\ outcome # "loops"
        /\ Judge(s, Recorded(verdict[s], outcome \in {"right", "exits"}))
        /\ UNCHANGED <<pc, program, reply, client, containers, folders, files, trouble>>

\* The process is killed at the timeout, or could not be started.
LoseTest(s) ==
    /\ At(s, "test")
    /\ NextTest(s) \in Tests(program[s])
    /\ Judge(s, Recorded(verdict[s], FALSE))
    /\ Trouble(s, {"late"})
    /\ UNCHANGED <<pc, program, reply, client, containers, folders, files>>

EndTests(s) ==
    /\ At(s, "test")
    /\ NextTest(s) \notin Tests(program[s])
    /\ Release(s, files, files', "disk", {})
    /\ Concluded(s)
    /\ UNCHANGED <<program, verdict, client, containers, folders>>

Local(s) == RefuseForbidden(s) \/ WriteFile(s) \/ RunTest(s) \/ LoseTest(s) \/ EndTests(s)

----------------------------------------------------------------------------
\* The handler reads the attributes of a failed test, which is a dictionary.
Explained(v) == v.passed \/ v.results = << >>

\* The current interviewer is read now: one without sub-stages refuses.  When
\* the follow-up enters "reflect", the model is asked for the first question of
\* it, and an error of the model answers the request, passed or not.
AnswersTo(v) ==
    {"refused"} \cup IF Explained(v) THEN {"followup", "model_error"} ELSE {"error"}

Answer(s) ==
    /\ At(s, "judged")
    /\ Go(s, "answered")
    /\ \E r \in AnswersTo(verdict[s]) : reply' = [reply EXCEPT ![s] = r]
    /\ UNCHANGED <<program, verdict, client, containers, folders, files, trouble>>

Handle(s) == Mock(s) \/ Contained(s) \/ Local(s) \/ Answer(s)

\* Every submission has been answered.
Done ==
    /\ \A s \in Submissions : At(s, "answered")
    /\ UNCHANGED vars

Next == (\E s \in Submissions : Submit(s) \/ Handle(s)) \/ Done

Spec == Init /\ [][Next]_vars

\* The threads run, and the calls of the daemon return or raise.
FairSpec == Spec /\ \A s \in Submissions : WF_vars(Handle(s))

----------------------------------------------------------------------------
(* The fields of a submission, at most one result per test, and the        *)
(* resources it may hold.                                                  *)
TypeOK ==
    /\ pc \in [Submissions -> Phases]
    /\ program \in [Submissions -> Programs]
    /\ verdict \in [Submissions -> Verdicts]
    /\ \A s \in Submissions : Len(verdict[s].results) <= Len(program[s].alone)
    /\ reply \in [Submissions -> Replies]
    /\ client \in BOOLEAN
    /\ containers \subseteq Submissions
    /\ folders \subseteq Submissions
    /\ files \subseteq Submissions
    /\ trouble \in [Submissions -> SUBSET Troubles]

(* Whatever the program does and wherever it fails over, no container      *)
(* outlives its run unless a call of the daemon raised, and no directory   *)
(* and no file unless the disk did (the clean-ups of docker_executor.py    *)
(* and code_executor.py, most of which swallow their errors).              *)
NothingLeftBehind ==
    \A s \in Submissions :
        /\ s \in containers => At(s, "wait") \/ "daemon" \in trouble[s]
        /\ s \in folders => pc[s] \in {"launch", "wait", "cleanup"} \/ "disk" \in trouble[s]
        /\ s \in files => At(s, "test") \/ "disk" \in trouble[s]

AllRight(p)   == p.loads = "ok" /\ \A i \in Tests(p) : p.contained[i] = "right"
AllPass(p)    == ~p.forbidden /\ \A i \in Tests(p) : p.alone[i] \in {"right", "exits"}
Plausible(p)  == p.loads # "syntax" /\ (Tests(p) = {} \/ p.complete)

(* A submission is told to have passed only if every test of the task      *)
(* has a result and passed in one and the same place, or if nothing was to *)
(* be run and the text looks like a program.                               *)
PassedMeansPassed ==
    \A s \in Submissions :
        At(s, "judged") /\ verdict[s].passed =>
            /\ Len(verdict[s].results) = Len(program[s].alone)
            /\ \A i \in Tests(program[s]) : verdict[s].results[i]
            /\ IF program[s].language = "python"
               THEN AllRight(program[s]) \/ AllPass(program[s])
               ELSE Plausible(program[s])

RightEverywhere(p) ==
    IF p.language = "python"
    THEN AllRight(p) /\ AllPass(p)
    ELSE Plausible(p)

(* A program that is right wherever it may run is failed only by trouble   *)
(* with the daemon, the disk or the time it was given.                     *)
RightFailsOnlyByTrouble ==
    \A s \in Submissions :
        At(s, "judged") /\ RightEverywhere(program[s]) /\ ~verdict[s].passed
            => trouble[s] # {}

(* Every submission is answered, also one whose program never ends         *)
(* (the timeouts of both executors).                                       *)
EveryCodeAnswered ==
    \A s \in Submissions : ~At(s, "idle") ~> At(s, "answered")

(* What the code breaks: a submission that was judged and is not refused   *)
(* is followed up, also one that failed (api.py:543, "failed test cases:"),*)
(* unless the model raises.                                                *)
FailureExplained ==
    [][ \A s \in Submissions :
          At(s, "judged") /\ reply'[s] # reply[s]
              => reply'[s] \in {"followup", "refused", "model_error"}
      ]_vars
=============================================================================
