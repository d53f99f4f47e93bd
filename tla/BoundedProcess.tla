---------------------------- MODULE BoundedProcess ----------------------------
(***************************************************************************)
(* _bounded_process of src/ciw/adapters/subprocess.py: one call of a foreign *)
(* program.  Two daemon threads drain its two pipes against one limit, the    *)
(* calling thread waits for the program, then for the threads, and decides.   *)
(* The program may write at any time, never end, or leave a descendant behind *)
(* that has left the process group and keeps the pipes open.                  *)
(***************************************************************************)
EXTENDS Naturals

CONSTANTS
  Limit,        \* chunks of output a call may produce, both pipes together
  MaxOutput     \* bound: chunks the program writes to one pipe

ASSUME LimitAssumption == Limit \in Nat /\ MaxOutput \in Nat

VARIABLES
  child,        \* the program
  orphan,       \* a descendant outside the process group holds the pipes
  pipe,         \* chunks written and not yet read, per pipe
  made,         \* chunks written, per pipe
  reader,       \* the drain thread of each pipe
  total,        \* chunks counted against the limit
  kept,         \* chunks of stdout retained
  exceeded,     \* the event
  main,         \* where the calling thread is
  timedOut,     \* its timed_out
  outcome       \* what the call returns

Pipes == {"stdout", "stderr"}
world == <<child, orphan, pipe, made>>
drains == <<reader, total, kept, exceeded>>
caller == <<main, timedOut, outcome>>
processVars == <<world, drains, caller>>

\* How a call raises; "EXPIRED" is the TimeoutExpired of the wait after the kill.
Refusals == {"OUTPUT_LIMIT", "TIMEOUT", "RUNTIME_IO", "EXPIRED"}

\* Nothing runs yet; fields the program has not touched are zero.
Asleep ==
  /\ child = "none" /\ orphan = FALSE
  /\ pipe = [p \in Pipes |-> 0] /\ made = [p \in Pipes |-> 0]
  /\ reader = [p \in Pipes |-> "done"]
  /\ total = 0 /\ kept = 0 /\ exceeded = FALSE
  /\ main = "idle" /\ timedOut = FALSE /\ outcome = "none"

\* The call has returned; what it may have left running concerns no later call.
Forget ==
  /\ child' = "none" /\ orphan' = FALSE
  /\ pipe' = [p \in Pipes |-> 0] /\ made' = [p \in Pipes |-> 0]
  /\ reader' = [p \in Pipes |-> "done"]
  /\ total' = 0 /\ kept' = 0 /\ exceeded' = FALSE
  /\ main' = "idle" /\ timedOut' = FALSE /\ outcome' = "none"

\* Popen, and the start of both threads.
Start ==
  /\ child' = "running" /\ orphan' = FALSE
  /\ pipe' = [p \in Pipes |-> 0] /\ made' = [p \in Pipes |-> 0]
  /\ reader' = [p \in Pipes |-> "reading"]
  /\ total' = 0 /\ kept' = 0 /\ exceeded' = FALSE
  /\ main' = "waiting" /\ timedOut' = FALSE /\ outcome' = "none"

\* A program that has been sent SIGKILL keeps its pipes until it is gone, which may
\* take as long as the system call that it is in.
Present == child \in {"running", "dying"}
Writable == Present \/ orphan

Write(p) ==
  /\ Writable /\ made[p] < MaxOutput
  /\ made' = [made EXCEPT ![p] = @ + 1]
  /\ pipe' = [pipe EXCEPT ![p] = @ + 1]
  /\ UNCHANGED <<child, orphan, drains, caller>>

Exit(status) ==
  /\ child = "running"
  /\ child' = status
  /\ UNCHANGED <<orphan, pipe, made, drains, caller>>

\* A descendant takes a session of its own and outlives the group, and ends some day.
Detach ==
  /\ child = "running" /\ ~orphan
  /\ orphan' = TRUE
  /\ UNCHANGED <<child, pipe, made, drains, caller>>

OrphanEnds ==
  /\ orphan
  /\ orphan' = FALSE
  /\ UNCHANGED <<child, pipe, made, drains, caller>>

\* _stop: SIGKILL to the process group.
Killed == IF child = "running" THEN "dying" ELSE child

Dies ==
  /\ child = "dying"
  /\ child' = "killed"
  /\ UNCHANGED <<orphan, pipe, made, drains, caller>>

\* read1 returns a chunk ...
Read(p) ==
  /\ reader[p] = "reading" /\ pipe[p] > 0
  /\ pipe' = [pipe EXCEPT ![p] = @ - 1]
  /\ reader' = [reader EXCEPT ![p] = "holding"]
  /\ UNCHANGED <<child, orphan, made, total, kept, exceeded, caller>>

\* ... which is counted under the lock, and retained as far as the limit allows.
Account(p) ==
  /\ reader[p] = "holding"
  /\ total' = total + 1
  /\ kept' = (IF p = "stdout" /\ total < Limit THEN kept + 1 ELSE kept)
  /\ exceeded' = (exceeded \/ total' > Limit)
  /\ reader' = [reader EXCEPT ![p] = IF total' > Limit THEN "stopping" ELSE "reading"]
  /\ UNCHANGED <<world, caller>>

StopAtLimit(p) ==
  /\ reader[p] = "stopping"
  /\ child' = Killed
  /\ reader' = [reader EXCEPT ![p] = "done"]
  /\ UNCHANGED <<orphan, pipe, made, total, kept, exceeded, caller>>

EndOfFile(p) ==
  /\ reader[p] = "reading" /\ pipe[p] = 0 /\ ~Writable
  /\ reader' = [reader EXCEPT ![p] = "done"]
  /\ UNCHANGED <<world, total, kept, exceeded, caller>>

Alive == \E p \in Pipes : reader[p] # "done"

\* process.wait returns, before or after the kill of Deadline.
Reap ==
  /\ main \in {"waiting", "reaping"} /\ ~Present
  /\ main' = "joining"
  /\ UNCHANGED <<world, drains, timedOut, outcome>>

\* TimeoutExpired: kill, then wait five seconds more.
Deadline ==
  /\ main = "waiting"
  /\ main' = "reaping" /\ timedOut' = TRUE
  /\ child' = Killed
  /\ UNCHANGED <<orphan, pipe, made, drains, outcome>>

\* The second TimeoutExpired is raised once the threads have been joined.
KillOverdue ==
  /\ main = "reaping" /\ Present
  /\ main' = "joining" /\ outcome' = "EXPIRED"
  /\ UNCHANGED <<world, drains, timedOut>>

JoinForEver == ~Alive                      \* bug: join without a timeout
JoinReturns == TRUE                        \* join(timeout=0.5): done, or expired

Joined == IF outcome = "EXPIRED" THEN "done" ELSE "limit"

Join ==
  /\ main = "joining" /\ JoinReturns
  /\ main' = (IF Alive THEN "rejoining" ELSE Joined)
  /\ child' = (IF Alive THEN Killed ELSE child)
  /\ UNCHANGED <<orphan, pipe, made, drains, timedOut, outcome>>

Rejoin ==
  /\ main = "rejoining" /\ JoinReturns
  /\ main' = Joined
  /\ UNCHANGED <<world, drains, timedOut, outcome>>

\* The threads may still run between the test of the event and that of the threads.
CheckLimit ==
  /\ main = "limit"
  /\ IF exceeded
       THEN outcome' = "OUTPUT_LIMIT" /\ main' = "done"
       ELSE outcome' = outcome /\ main' = "readers"
  /\ UNCHANGED <<world, drains, timedOut>>

VerdictUnread == IF timedOut THEN "TIMEOUT" ELSE child   \* bug: pipes still read
Verdict ==
  CASE timedOut -> "TIMEOUT"
    [] ~timedOut /\ Alive -> "RUNTIME_IO"
    [] OTHER -> child                       \* the exit status

CheckReaders ==
  /\ main = "readers"
  /\ outcome' = Verdict
  /\ main' = "done"
  /\ UNCHANGED <<world, drains, timedOut>>

Drain(p) == Read(p) \/ Account(p) \/ StopAtLimit(p) \/ EndOfFile(p)
Clock == Deadline \/ KillOverdue
Decide == Reap \/ Join \/ Rejoin \/ CheckLimit \/ CheckReaders
=============================================================================
