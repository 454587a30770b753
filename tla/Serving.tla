------------------------------ MODULE Serving ------------------------------
(***************************************************************************)
(* What an invocation runs (internal/gateway, internal/invoker, the agent  *)
(* in a sandbox) while functions are deployed, deleted and created again:  *)
(* ReadyFunction reads the row and the version, and the path of the        *)
(* artifact is made of the NAME and the number; what lies there when the   *)
(* agent starts the process is what runs.  The container that compiles a   *)
(* Go function (dockerx.RunBuilder) is modelled as well.  Admission and    *)
(* sandboxes are in Invoker and SandboxPool: here they are a wait.         *)
(***************************************************************************)
EXTENDS Deployments

CONSTANT Caller         \* requests and cron runs under way

VARIABLES
  runtime,  \* the runtime each function is created with
  box,      \* the container of the build: RunBuilder, or its outcome
  at,       \* where each invocation is
  asked,    \* the function it read, or None
  seen,     \* the version it read
  runs      \* the function whose build its process executes, or None

calls == <<at, asked, seen, runs>>
svars == <<vars, runtime, box, calls>>

SInit ==
  /\ Init /\ runtime \in [Fn -> {"go", "nodejs"}] /\ box = "none"
  /\ at = [c \in Caller |-> "idle"] /\ seen = [c \in Caller |-> 0]
  /\ asked = [c \in Caller |-> None] /\ runs = [c \in Caller |-> None]

Move(c, label) == at' = [at EXCEPT ![c] = label]

Leave(c) ==
  /\ Move(c, "idle") /\ seen' = [seen EXCEPT ![c] = 0]
  /\ asked' = [asked EXCEPT ![c] = None] /\ runs' = [runs EXCEPT ![c] = None]
-----------------------------------------------------------------------------
(* ReadyFunction: two statements, and the row may go in between.  A        *)
(* function that is not READY is refused with nothing read.                *)
Invoke(c, i) ==
  /\ at[c] = "idle" /\ Live(i) /\ row[i].status = "READY"
  /\ Move(c, "read")
  /\ asked' = [asked EXCEPT ![c] = i] /\ seen' = [seen EXCEPT ![c] = row[i].current]
  /\ runs' = runs

ReadVersion(c) ==
  /\ at[c] = "read"
  /\ IF ver[asked[c]][seen[c]] = "READY"
       THEN Move(c, "wait") /\ UNCHANGED <<asked, seen, runs>>
       ELSE Leave(c)

(* The gate is full, no sandbox could be had, a statement failed, or the   *)
(* client is gone.                                                         *)
GiveUp(c) == at[c] \in {"read", "wait"} /\ Leave(c)

(* What the agent may find to start.  The files of the two runtimes have   *)
(* different names, so it starts no build of the other one; and a Go build *)
(* that follows, whole or half written, leaves those of a Node one beside. *)
Found(c) ==
  LET there  == artifact[NameOf[asked[c]]][seen[c]]
      Beside == IF runtime[asked[c]] = "nodejs" /\ ~Live(asked[c]) THEN {asked[c]} ELSE {}
  IN  IF there # None /\ runtime[there] = runtime[asked[c]] THEN {there}
      ELSE {None} \cup Beside

(* agentrun.Run: a file that is missing or half written does not start,    *)
(* and the answer is a 500.                                                *)
StartProcess(c) ==
  /\ at[c] = "wait"
  /\ \E i \in Found(c) :
       IF i = None THEN Leave(c)
       ELSE /\ Move(c, "run") /\ runs' = [runs EXCEPT ![c] = i]
            /\ UNCHANGED <<asked, seen>>

(* The process ends, for good or ill, before the deadline of the agent.    *)
Exit(c) == at[c] = "run" /\ Leave(c)

(* The deadline kills it.  The agent answers 504 when the output is closed *)
(* too, which a child that has outlived the process can put off ...        *)
Deadline(c) ==
  /\ at[c] = "run"
  /\ Move(c, "killed") /\ runs' = [runs EXCEPT ![c] = None]
  /\ UNCHANGED <<asked, seen>>

AnswerTimeout(c) == at[c] = "killed" /\ Leave(c)

NoTimeout(c) == FALSE

(* ... until the invoker's own timeout, two seconds later, makes it a 502, *)
(* as does a client that leaves; the sandbox is discarded, and killed.     *)
ClientTimeout(c) == at[c] = "killed" /\ Leave(c)

ClientGone(c) == at[c] = "run" /\ Leave(c)

Serve(c) ==
  /\ \/ \E i \in Fn : Invoke(c, i)
     \/ ReadVersion(c) \/ GiveUp(c) \/ StartProcess(c) \/ Exit(c)
     \/ Deadline(c) \/ AnswerTimeout(c) \/ ClientTimeout(c) \/ ClientGone(c)
  /\ UNCHANGED <<vars, runtime, box>>
-----------------------------------------------------------------------------
(* RunBuilder.  It creates, starts and waits for a container, and removes  *)
(* it on every path; "bad": it did not start, could not be waited for, or  *)
(* exited with an error.  A container that never exits is never removed.   *)
Compiling == pc[Builder] = "build" /\ runtime[target[Builder]] = "go"

CreateBox == box = "none" /\ box' = "created"

StartBox == box = "created" /\ box' \in {"running", "bad"}

ExitBox == box = "running" /\ box' \in {"good", "bad"}

RunBuilder ==
  /\ Compiling /\ (CreateBox \/ StartBox \/ ExitBox)
  /\ UNCHANGED <<vars, runtime, calls>>

(* A program that is being executed cannot be opened for writing.          *)
Busy == \E c \in Caller :
          /\ at[c] = "run" /\ runs[c] = artifact[NameOf[target[Builder]]][Building]
          /\ runtime[runs[c]] = "go"
          /\ NameOf[asked[c]] = NameOf[target[Builder]] /\ seen[c] = Building

WaitForGood ==
  /\ BuildFails
  /\ box = "none" \/ (box = "good" /\ Busy)
  /\ box' = "none" /\ UNCHANGED <<runtime, calls>>

(* Prepare fails, or the container cannot be created; the container is     *)
(* removed after a bad end; or the program cannot be copied.               *)
CompileFails ==
  /\ BuildFails
  /\ box \in {"none", "bad"} \/ (box = "good" /\ Busy)
  /\ box' = "none" /\ UNCHANGED <<runtime, calls>>

(* A Node build is Prepare alone, in the directory invocations run from.   *)
PublishAndKeepBox ==
  /\ StartWrite
  /\ IF Compiling THEN box = "good" /\ ~Busy ELSE box = "none"
  /\ UNCHANGED <<runtime, box, calls>>

Publish ==
  /\ StartWrite
  /\ IF Compiling THEN box = "good" /\ ~Busy ELSE box = "none"
  /\ box' = "none" /\ UNCHANGED <<runtime, calls>>

(* Everything else that the service and the pipeline do.                   *)
Elsewhere ==
  /\ \/ Handling
     \/ (\E n \in Name : Take(n)) \/ FindVersion
     \/ FinishWrite \/ SaveVersion \/ FailVersion \/ SaveRow
     \/ \E a \in Actor : Fault(a) /\ (a = Builder => box = "none")
  /\ UNCHANGED <<runtime, box, calls>>

(* The invocations end with the process, whose shutdown drains the pool; a *)
(* container of a build may outlive it, and is nobody's then.              *)
Crash ==
  /\ Restart
  /\ at' = [c \in Caller |-> "idle"] /\ seen' = [c \in Caller |-> 0]
  /\ asked' = [c \in Caller |-> None] /\ runs' = [c \in Caller |-> None]
  /\ box' = "none" /\ UNCHANGED runtime

SNext ==
  \/ \E c \in Caller : Serve(c)
  \/ RunBuilder \/ CompileFails \/ Publish
  \/ Elsewhere \/ Crash

SSpec == SInit /\ [][SNext]_svars

(* The timers fire, the handlers and the builder run on.  Neither a        *)
(* process nor a build container needs to end by itself.                   *)
Onward(c) == /\ \/ ReadVersion(c) \/ GiveUp(c) \/ StartProcess(c)
                \/ Deadline(c) \/ ClientTimeout(c)
             /\ UNCHANGED <<vars, runtime, box>>

BuildOnward == \/ /\ Compiling /\ (CreateBox \/ StartBox)
                  /\ UNCHANGED <<vars, runtime, calls>>
               \/ CompileFails \/ Publish
               \/ /\ FindVersion \/ FinishWrite \/ SaveVersion \/ FailVersion \/ SaveRow
                  /\ UNCHANGED <<runtime, box, calls>>

FairSSpec ==
  /\ SSpec
  /\ \A c \in Caller : WF_svars(Onward(c))
  /\ WF_svars(BuildOnward)
-----------------------------------------------------------------------------
CallPc == {"idle", "read", "wait", "run", "killed"}

(* An invocation at work has read a function that existed; a container     *)
(* exists only while the builder compiles.                                 *)
ServingTypeOK ==
  /\ runtime \in [Fn -> {"go", "nodejs"}]
  /\ box \in {"none", "created", "running", "good", "bad"}
  /\ box # "none" => Compiling
  /\ at \in [Caller -> CallPc] /\ seen \in [Caller -> Number]
  /\ asked \in [Caller -> Fn \cup {None}] /\ runs \in [Caller -> Fn \cup {None}]
  /\ \A c \in Caller : /\ at[c] # "idle" => asked[c] \in born
                       /\ at[c] = "run" <=> runs[c] # None

(* An invocation never executes the code of another function, whatever is  *)
(* deployed, deleted and built under the name, and whatever fails, unless  *)
(* its function was deleted under it and the name taken by the other.      *)
NeverForeignCode ==
  \A c \in Caller : runs[c] # None => runs[c] = asked[c] \/ ~Live(asked[c])

(* Every invocation comes to an end, also of a handler that never exits    *)
(* and leaves a child that keeps its output open.                          *)
InvocationsEnd == \A c \in Caller : at[c] # "idle" ~> at[c] = "idle"

(* The builder gets back to its queue, unless a build container hangs.     *)
BuilderReturns == []<>(pc[Builder] = "idle") \/ <>[](box = "running")
=============================================================================
