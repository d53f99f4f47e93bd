---------------------------- MODULE ProviderProofs ----------------------------
(***************************************************************************)
(* What a call of a pinned provider returns is complete, computed by the     *)
(* pinned parts, and backed by stored evidence if it reports any: for every   *)
(* limit, any output, any sequence of parts and any number of retries.        *)
(***************************************************************************)
EXTENDS Provider, TLAPS

-----------------------------------------------------------------------------
(* Types, of what the invariants below count with. *)

ReaderStates == {"reading", "holding", "stopping", "done"}

Types ==
  /\ pipe \in [Pipes -> Nat] /\ made \in [Pipes -> Nat]
  /\ reader \in [Pipes -> ReaderStates]
  /\ total \in Nat /\ kept \in Nat /\ exceeded \in BOOLEAN
  /\ orphan \in BOOLEAN /\ timedOut \in BOOLEAN

\* A chunk that a drain thread has read and not yet counted.
Held(p) == IF reader[p] = "holding" THEN 1 ELSE 0

\* While the limit is kept, what was written to stdout is in the pipe, held or retained.
Conserved ==
  /\ exceeded <=> total > Limit
  /\ ~exceeded => made["stdout"] = pipe["stdout"] + Held("stdout") + kept

\* A thread that ended below the limit has seen the end of its pipe, which stays ended:
\* nobody is left who could write, or could start somebody who does.
DrainedInv ==
  \A p \in Pipes :
    /\ reader[p] = "stopping" => exceeded
    /\ reader[p] = "done" /\ ~exceeded => pipe[p] = 0 /\ ~Writable

\* An exit status is returned only after both threads have ended.
DecidedInv == main = "done" /\ outcome \notin Refusals => ~Alive

ProcessInv == Types /\ Conserved /\ DrainedInv /\ DecidedInv

-----------------------------------------------------------------------------
(* The process, its drain threads and the caller. *)

LEMMA PipesAre == /\ "stdout" \in Pipes /\ "stderr" \in Pipes
                  /\ \A p \in Pipes : p = "stdout" \/ p = "stderr"
BY DEF Pipes

LEMMA FreshInv ==
  ASSUME Asleep' \/ Forget \/ Start
  PROVE  ProcessInv'
<1>1. /\ pipe' = [p \in Pipes |-> 0] /\ made' = [p \in Pipes |-> 0]
      /\ total' = 0 /\ kept' = 0 /\ exceeded' = FALSE /\ orphan' = FALSE /\ timedOut' = FALSE
      /\ main' # "done"
      /\ \/ reader' = [p \in Pipes |-> "done"] /\ child' = "none"
         \/ reader' = [p \in Pipes |-> "reading"]
  BY DEF Asleep, Forget, Start
<1>2. Types'
  BY <1>1 DEF Types, ReaderStates
<1>3. Conserved'
  <2>1. pipe'["stdout"] = 0 /\ made'["stdout"] = 0 /\ reader'["stdout"] # "holding"
    BY <1>1, PipesAre
  <2> QED BY <1>1, <2>1, LimitAssumption DEF Conserved, Held
<1>4. DrainedInv'
  BY <1>1 DEF DrainedInv, Writable, Present
<1>5. DecidedInv'
  BY <1>1 DEF DecidedInv
<1> QED BY <1>2, <1>3, <1>4, <1>5 DEF ProcessInv

\* The program and its descendants.
LEMMA WorldInv ==
  ASSUME ProcessInv,
         Detach \/ OrphanEnds \/ Dies \/ (\E p \in Pipes : Write(p)) \/ (\E s \in {"ok", "failed"} : Exit(s))
  PROVE  ProcessInv'
<1>1. /\ UNCHANGED <<reader, total, kept, exceeded, main, timedOut, outcome>>
      /\ Writable' => Writable /\ orphan' \in BOOLEAN
  BY DEF Detach, OrphanEnds, Dies, Write, Exit, Writable, Present, drains, caller,
         ProcessInv, Types
<1>2. orphan' \in BOOLEAN
  BY DEF Detach, OrphanEnds, Dies, Write, Exit, ProcessInv, Types
<1>3. CASE UNCHANGED <<pipe, made>>
  BY <1>1, <1>2, <1>3 DEF ProcessInv, Types, Conserved, Held, DrainedInv, DecidedInv, Alive
<1>4. ASSUME NEW p \in Pipes, Write(p)
      PROVE  ProcessInv'
  <2>1. /\ Writable
        /\ pipe' = [pipe EXCEPT ![p] = @ + 1] /\ made' = [made EXCEPT ![p] = @ + 1]
    BY <1>4 DEF Write
  <2>2. Types'
    BY <1>1, <1>2, <2>1 DEF ProcessInv, Types
  <2>3. Conserved'
    <3>1. made'["stdout"] - pipe'["stdout"] = made["stdout"] - pipe["stdout"]
      BY <2>1, PipesAre DEF ProcessInv, Types
    <3>2. /\ pipe["stdout"] \in Nat /\ made["stdout"] \in Nat
          /\ pipe'["stdout"] \in Nat /\ made'["stdout"] \in Nat /\ kept \in Nat
      BY <2>2, PipesAre DEF ProcessInv, Types
    <3> QED BY <1>1, <3>1, <3>2 DEF ProcessInv, Conserved, Held
  <2>4. DrainedInv' /\ DecidedInv'
    BY <1>1, <2>1 DEF ProcessInv, DrainedInv, DecidedInv, Alive
  <2> QED BY <2>2, <2>3, <2>4 DEF ProcessInv
<1> QED BY <1>3, <1>4 DEF Detach, OrphanEnds, Dies, Exit

LEMMA ReadInv ==
  ASSUME ProcessInv, NEW p \in Pipes, Read(p)
  PROVE  ProcessInv'
<1>1. /\ reader[p] = "reading" /\ pipe[p] > 0
      /\ pipe' = [pipe EXCEPT ![p] = @ - 1] /\ reader' = [reader EXCEPT ![p] = "holding"]
      /\ UNCHANGED <<child, orphan, made, total, kept, exceeded, main, timedOut, outcome>>
  BY DEF Read, caller
<1>2. Types'
  BY <1>1 DEF ProcessInv, Types, ReaderStates
<1>3. Conserved'
  <2>1. pipe'["stdout"] + Held("stdout")' = pipe["stdout"] + Held("stdout")
    BY <1>1, PipesAre DEF ProcessInv, Types, Held
  <2>2. Held("stdout") \in Nat /\ Held("stdout")' \in Nat
    BY DEF Held
  <2> QED BY <1>1, <2>1, <2>2, <1>2, PipesAre DEF ProcessInv, Conserved, Types
<1>4. DrainedInv' /\ DecidedInv'
  BY <1>1 DEF ProcessInv, Types, DrainedInv, DecidedInv, Alive, Writable, Present
<1> QED BY <1>2, <1>3, <1>4 DEF ProcessInv

LEMMA AccountInv ==
  ASSUME ProcessInv, NEW p \in Pipes, Account(p)
  PROVE  ProcessInv'
<1>1. /\ reader[p] = "holding" /\ total' = total + 1
      /\ kept' = (IF p = "stdout" /\ total < Limit THEN kept + 1 ELSE kept)
      /\ exceeded' = (exceeded \/ total' > Limit)
      /\ reader' = [reader EXCEPT ![p] = IF total' > Limit THEN "stopping" ELSE "reading"]
      /\ UNCHANGED <<child, orphan, pipe, made, main, timedOut, outcome>>
  BY DEF Account, world, caller
<1>2. Types'
  BY <1>1 DEF ProcessInv, Types, ReaderStates
<1>3. exceeded' <=> total' > Limit
  <2>1. CASE total' > Limit
    BY <1>1, <2>1
  <2>2. CASE ~(total' > Limit)
    <3>1. ~(total > Limit)
      BY <1>1, <2>2, LimitAssumption DEF ProcessInv, Types
    <3> QED BY <1>1, <2>2, <3>1 DEF ProcessInv, Conserved
  <2> QED BY <2>1, <2>2
<1>4. Conserved'
  <2> SUFFICES ASSUME ~exceeded'
               PROVE  made'["stdout"] = pipe'["stdout"] + Held("stdout")' + kept'
    BY <1>3 DEF Conserved
  <2>1. ~exceeded /\ total < Limit
    BY <1>1, <1>3, LimitAssumption DEF ProcessInv, Types
  <2>2. made["stdout"] = pipe["stdout"] + Held("stdout") + kept
    BY <2>1 DEF ProcessInv, Conserved
  <2>3. Held("stdout")' + kept' = Held("stdout") + kept
    BY <1>1, <1>3, <2>1, PipesAre DEF ProcessInv, Types, Held
  <2>4. /\ pipe["stdout"] \in Nat /\ kept \in Nat /\ kept' \in Nat
        /\ Held("stdout") \in Nat /\ Held("stdout")' \in Nat
    BY <1>2, PipesAre DEF ProcessInv, Types, Held
  <2> QED BY <1>1, <2>2, <2>3, <2>4
<1>5. DrainedInv'
  BY <1>1, <1>3 DEF ProcessInv, Types, DrainedInv, Writable, Present
<1>6. DecidedInv'
  BY <1>1 DEF ProcessInv, Types, DecidedInv, Alive
<1> QED BY <1>2, <1>4, <1>5, <1>6 DEF ProcessInv

LEMMA ReaderEndsInv ==
  ASSUME ProcessInv, NEW p \in Pipes, StopAtLimit(p) \/ EndOfFile(p)
  PROVE  ProcessInv'
<1>1. /\ reader' = [reader EXCEPT ![p] = "done"]
      /\ \/ reader[p] = "stopping"
         \/ reader[p] = "reading" /\ pipe[p] = 0 /\ ~Writable
      /\ Writable' => Writable
      /\ UNCHANGED <<orphan, pipe, made, total, kept, exceeded, main, timedOut, outcome>>
  BY DEF StopAtLimit, EndOfFile, Killed, Writable, Present, world, caller
<1>2. Types'
  BY <1>1 DEF ProcessInv, Types, ReaderStates
<1>3. Held("stdout")' = Held("stdout")
  BY <1>1, PipesAre DEF ProcessInv, Types, Held
<1>4. Conserved'
  BY <1>1, <1>3 DEF ProcessInv, Conserved
<1>5. DrainedInv' /\ DecidedInv'
  BY <1>1 DEF ProcessInv, Types, DrainedInv, DecidedInv, Alive
<1> QED BY <1>2, <1>4, <1>5 DEF ProcessInv

LEMMA CallerInv ==
  ASSUME ProcessInv, Decide \/ Clock
  PROVE  ProcessInv'
<1>1. /\ UNCHANGED <<orphan, pipe, made, reader, total, kept, exceeded>>
      /\ Writable' => Writable
      /\ timedOut' \in BOOLEAN
  <2>1. CASE Reap \/ KillOverdue \/ Rejoin \/ CheckLimit \/ CheckReaders
    BY <2>1 DEF Reap, KillOverdue, Rejoin, CheckLimit, CheckReaders, Writable, Present, world,
                drains, ProcessInv, Types
  <2>2. CASE Join
    BY <2>2 DEF Join, Killed, Writable, Present, world, drains, ProcessInv, Types
  <2>3. CASE Deadline
    BY <2>3 DEF Deadline, Killed, Writable, Present, world, drains, ProcessInv, Types
  <2> QED BY <2>1, <2>2, <2>3 DEF Decide, Clock
<1>2. Types' /\ Conserved' /\ DrainedInv'
  BY <1>1 DEF ProcessInv, Types, Conserved, Held, DrainedInv
<1>3. DecidedInv'
  <2>1. CASE CheckReaders
    <3>1. outcome' \notin Refusals => ~Alive
      BY <2>1 DEF CheckReaders, Verdict, Refusals
    <3> QED BY <1>1, <3>1 DEF DecidedInv, Alive
  <2>2. CASE CheckLimit
    BY <2>2 DEF CheckLimit, DecidedInv, Refusals
  <2>3. CASE Join \/ Rejoin
    <3>1. main' = "done" => outcome' = "EXPIRED"
      BY <2>3 DEF Join, Rejoin, Joined
    <3> QED BY <3>1 DEF DecidedInv, Refusals
  <2>4. CASE Reap \/ Clock
    BY <2>4 DEF Reap, Clock, Deadline, KillOverdue, DecidedInv
  <2> QED BY <2>1, <2>2, <2>3, <2>4 DEF Decide
<1> QED BY <1>2, <1>3 DEF ProcessInv

LEMMA ProcessStep ==
  ASSUME ProcessInv, [Next]_vars
  PROVE  ProcessInv'
<1>1. CASE UNCHANGED processVars
  BY <1>1 DEF processVars, world, drains, caller, ProcessInv, Types, Conserved, Held,
              DrainedInv, DecidedInv, Alive, Writable, Present
<1>2. CASE Forget \/ Start
  BY <1>2, FreshInv
<1>3. CASE \/ Detach \/ OrphanEnds \/ Dies \/ (\E p \in Pipes : Write(p))
           \/ (\E s \in {"ok", "failed"} : Exit(s))
  BY <1>3, WorldInv
<1>4. CASE \E p \in Pipes : Drain(p)
  BY <1>4, ReadInv, AccountInv, ReaderEndsInv DEF Drain
<1>5. CASE Decide \/ Clock
  BY <1>5, CallerInv
<1>6. CASE UNCHANGED vars
  BY <1>1, <1>6 DEF vars
<1>7. CASE Adapter \/ Store \/ Ends
  BY <1>1, <1>2, <1>3, <1>7 DEF Adapter, Verify, Run, Collect, Return, Store, Ends
<1>8. CASE \/ \E x \in PartSet : Change(x) \/ PutBack(x) \/ Load(x)
           \/ \E capture \in BOOLEAN : Invoke(capture)
  BY <1>1, <1>8 DEF Change, PutBack, Load, Invoke
<1> QED BY <1>3, <1>4, <1>5, <1>6, <1>7, <1>8 DEF Next, Thread

(***************************************************************************)
(* A call that ends with an exit status under its limit returns everything   *)
(* the program and its descendants wrote: OutputComplete (subprocess.py:119).  *)
(***************************************************************************)
THEOREM OutputCorrect == Spec => []OutputComplete
<1>1. Init => ProcessInv
  <2>1. ASSUME Init
        PROVE  ProcessInv
    <3>1. Types
      BY <2>1 DEF Init, Asleep, Types, ReaderStates
    <3>2. Conserved
      BY <2>1, PipesAre, LimitAssumption DEF Init, Asleep, Conserved, Held
    <3>3. DrainedInv /\ DecidedInv
      BY <2>1 DEF Init, Asleep, DrainedInv, DecidedInv, Writable, Present
    <3> QED BY <3>1, <3>2, <3>3 DEF ProcessInv
  <2> QED BY <2>1
<1>2. ProcessInv /\ [Next]_vars => ProcessInv'
  BY ProcessStep
<1>3. ProcessInv => OutputComplete
  <2> SUFFICES ASSUME ProcessInv, main = "done", outcome \notin Refusals, ~exceeded
               PROVE  kept = made["stdout"] /\ \A p \in Pipes : pipe[p] = 0
    BY DEF OutputComplete
  <2>1. \A p \in Pipes : reader[p] = "done" /\ pipe[p] = 0
    BY DEF ProcessInv, DecidedInv, Alive, DrainedInv
  <2>2. made["stdout"] = 0 + 0 + kept
    BY <2>1, PipesAre DEF ProcessInv, Conserved, Held
  <2> QED BY <2>1, <2>2 DEF ProcessInv, Types
<1> QED BY <1>1, <1>2, <1>3, PTL DEF Spec

-----------------------------------------------------------------------------
(* The pinned parts. *)

Last == Len(Parts)
PartsSeen == {Parts[i] : i \in 1..verified}

\* What the program loaded is still changed while nothing has been put back, so a
\* part that passes the second verification is none of it.
PinnedInv ==
  /\ verified \in Nat /\ verified <= Last
  /\ ran \subseteq PartSet
  /\ ~restored => ran \subseteq changed
  /\ ~restored /\ call \in {"after", "returned"} => ran \cap PartsSeen = {}
  /\ call = "returned" => verified = Last

LEMMA PartsAre == Last \in Nat /\ PartSet = {Parts[i] : i \in 1..Last}
BY PartsAssumption DEF Last, PartSet

LEMMA PinnedStep ==
  ASSUME PinnedInv, [Next]_vars
  PROVE  PinnedInv'
<1>1. CASE UNCHANGED <<verified, changed, restored, ran, call>>
  BY <1>1 DEF PinnedInv, PartsSeen
<1>2. ASSUME NEW x \in PartSet, Change(x) \/ PutBack(x) \/ Load(x)
      PROVE  PinnedInv'
  <2>1. PartsSeen' = PartsSeen /\ verified' = verified /\ call' = call
    BY <1>2 DEF Change, PutBack, Load, adapterVars, PartsSeen
  <2>2. CASE Change(x)
    BY <2>1, <2>2 DEF Change, adapterVars, PinnedInv
  <2>3. CASE PutBack(x)
    BY <2>1, <2>3 DEF PutBack, adapterVars, PinnedInv
  <2>4. CASE Load(x)
    BY <2>1, <2>4 DEF Load, partVars, PinnedInv
  <2> QED BY <1>2, <2>2, <2>3, <2>4
<1>3. ASSUME NEW capture \in BOOLEAN, Invoke(capture)
      PROVE  PinnedInv'
  BY <1>3, PartsAre DEF Invoke, partVars, PinnedInv
<1>4. CASE Verify
  <2>1. CASE Parts[verified + 1] \in changed
    BY <1>4, <2>1 DEF Verify, partVars, PinnedInv
  <2>2. CASE Parts[verified + 1] \notin changed
    <3>1. /\ verified' = verified + 1 /\ verified < Last
          /\ call \in {"before", "after"}
          /\ UNCHANGED <<changed, restored, ran, call>>
      BY <1>4, <2>2 DEF Verify, partVars, Last
    <3>2. verified' \in Nat /\ verified' <= Last
      BY <3>1, PartsAre DEF PinnedInv
    <3>3. PartsSeen' = PartsSeen \cup {Parts[verified + 1]}
      <4>1. 1..verified' = (1..verified) \cup {verified + 1}
        BY <3>1, PartsAre DEF PinnedInv
      <4> QED BY <4>1 DEF PartsSeen
    <3> QED BY <2>2, <3>1, <3>2, <3>3 DEF PinnedInv
  <2> QED BY <2>1, <2>2
<1>5. CASE Run
  BY <1>5 DEF Run, partVars, PinnedInv, PartsSeen
<1>6. CASE Collect
  <2>1. CASE call' = "refused"
    BY <1>6, <2>1 DEF Collect, partVars, PinnedInv
  <2>2. CASE call' # "refused"
    <3>1. verified' = 0 /\ call' = "after" /\ UNCHANGED <<changed, restored, ran>>
      BY <1>6, <2>2 DEF Collect, partVars
    <3>2. PartsSeen' = {}
      BY <3>1 DEF PartsSeen
    <3> QED BY <3>1, <3>2, PartsAre DEF PinnedInv
  <2> QED BY <2>1, <2>2
<1>7. CASE Return
  BY <1>7 DEF Return, VerifiedAfter, partVars, PinnedInv, PartsSeen, Last
<1>8. CASE UNCHANGED vars
  BY <1>1, <1>8 DEF vars, adapterVars, partVars
<1>9. CASE UNCHANGED <<adapterVars, partVars>>
  BY <1>1, <1>9 DEF adapterVars, partVars
<1>10. CASE Store
  BY <1>1, <1>10 DEF Store, partVars
<1> QED BY <1>2, <1>3, <1>4, <1>5, <1>6, <1>7, <1>8, <1>9, <1>10
        DEF Next, Adapter, Ends, Thread, adapterVars, partVars

(***************************************************************************)
(* An accepted answer was computed by the pinned parts alone unless a part    *)
(* was put back: AcceptedWasPinned (subprocess.py:350, candidate_evidence.py:165). *)
(***************************************************************************)
THEOREM PinnedCorrect == Spec => []AcceptedWasPinned
<1>1. Init => PinnedInv
  BY PartsAre DEF Init, PinnedInv
<1>2. PinnedInv /\ [Next]_vars => PinnedInv'
  BY PinnedStep
<1>3. PinnedInv => AcceptedWasPinned
  <2> SUFFICES ASSUME PinnedInv, call = "returned", ~restored
               PROVE  ran = {}
    BY DEF AcceptedWasPinned
  <2>1. PartsSeen = PartSet
    BY PartsAre DEF PinnedInv, PartsSeen
  <2> QED BY <2>1 DEF PinnedInv
<1> QED BY <1>1, <1>2, <1>3, PTL DEF Spec

-----------------------------------------------------------------------------
(* Receipts and the foreign store. *)

\* The program says that it ended well only when what it was asked to capture is
\* stored; only a call that runs has a program.
ReportInv ==
  /\ child = "ok" \/ outcome = "ok" \/ call = "after" => (captures => storedNow)
  /\ call # "running" => child = "none" /\ outcome = "none" /\ main = "idle"

\* The evidence of this call is not yet paid for by a receipt.
CountInv ==
  /\ receipts \in Nat /\ stored \in Nat
  /\ receipts <= stored
  /\ storedNow /\ call # "returned" => receipts + 1 <= stored
ReceiptInv == ReportInv /\ CountInv

\* What a thread, the program or the caller of _bounded_process does.
LEMMA ThreadReport ==
  ASSUME ReportInv,
         \/ Detach \/ OrphanEnds \/ Dies \/ Clock \/ Decide
         \/ \E p \in Pipes : Write(p) \/ Drain(p),
         UNCHANGED <<adapterVars, partVars, stored>>
  PROVE  ReportInv'
<1>1. UNCHANGED <<call, captures, storedNow>>
  BY DEF adapterVars
<1>2. CASE call # "running"
  <2>1. child = "none" /\ outcome = "none" /\ main = "idle"
    BY <1>2 DEF ReportInv
  <2>2. ~Decide /\ ~Clock
    BY <2>1 DEF Decide, Reap, Join, Rejoin, CheckLimit, CheckReaders, Clock, Deadline, KillOverdue
  <2>3. child' = "none" /\ outcome' = "none" /\ main' = "idle"
    BY <2>1, <2>2 DEF Detach, OrphanEnds, Dies, Write, Drain, Read, Account, StopAtLimit, EndOfFile,
                      Killed, world, drains, caller
  <2> QED BY <1>1, <2>1, <2>3 DEF ReportInv
<1>3. CASE call = "running"
  <2>1. child' = "ok" => child = "ok"
    BY DEF Detach, OrphanEnds, Dies, Clock, Deadline, KillOverdue, Decide, Reap, Join, Rejoin,
           CheckLimit, CheckReaders, Write, Drain, Read, Account, StopAtLimit, EndOfFile, Killed, world, drains, caller
  <2>2. outcome' = "ok" => child = "ok" \/ outcome = "ok"
    <3>1. CASE CheckReaders
      <4>1. Verdict \in {"TIMEOUT", "RUNTIME_IO", child}
        BY DEF Verdict
      <4> QED BY <3>1, <4>1 DEF CheckReaders
    <3>2. CASE ~CheckReaders
      BY <3>2 DEF Detach, OrphanEnds, Dies, Clock, Deadline, KillOverdue, Decide, Reap, Join,
                  Rejoin, CheckLimit, Write, Drain, Read, Account, StopAtLimit, EndOfFile, world, drains, caller
    <3> QED BY <3>1, <3>2
  <2> QED BY <1>1, <1>3, <2>1, <2>2 DEF ReportInv
<1> QED BY <1>2, <1>3

LEMMA ReportStep ==
  ASSUME ReportInv, [Next]_vars
  PROVE  ReportInv'
<1>1. CASE UNCHANGED <<processVars, call, captures, storedNow>>
  BY <1>1 DEF ReportInv, processVars, world, caller
<1>2. ASSUME NEW capture \in BOOLEAN, Invoke(capture)
      PROVE  ReportInv'
  BY <1>2 DEF Invoke, ReportInv, processVars, world, caller
<1>3. CASE Verify
  BY <1>3 DEF Verify, ReportInv, processVars, world, caller
<1>4. CASE Run
  BY <1>4 DEF Run, Start, ReportInv, processVars, world, caller
<1>5. CASE Collect
  BY <1>5 DEF Collect, Forget, SuccessfulExit, ReportInv
<1>6. CASE Return
  BY <1>6 DEF Return, VerifiedAfter, ReportInv, processVars, world, caller
<1>7. CASE Store
  BY <1>7 DEF Store, ReportInv, processVars, world, caller
<1>8. CASE Ends
  BY <1>8 DEF Ends, Exit, adapterVars, caller, ReportInv
<1>9. CASE \E x \in PartSet : Change(x) \/ PutBack(x) \/ Load(x)
  BY <1>1, <1>9 DEF Change, PutBack, Load, adapterVars
<1>10. CASE UNCHANGED vars
  BY <1>1, <1>10 DEF vars, adapterVars
<1> QED BY <1>2, <1>3, <1>4, <1>5, <1>6, <1>7, <1>8, <1>9, <1>10, ThreadReport
        DEF Next, Adapter, Thread

LEMMA CountStep ==
  ASSUME ReceiptInv, [Next]_vars
  PROVE  CountInv'
<1>1. CASE /\ UNCHANGED <<receipts, stored, storedNow>>
           /\ call' = "returned" \/ call # "returned"
  BY <1>1 DEF ReceiptInv, CountInv
<1>2. ASSUME NEW capture \in BOOLEAN, Invoke(capture)
      PROVE  CountInv'
  BY <1>2 DEF Invoke, ReceiptInv, CountInv
<1>3. CASE Store
  BY <1>3 DEF Store, ReceiptInv, CountInv
<1>4. CASE Return
  <2>1. UNCHANGED <<stored, storedNow>> /\ call # "returned"
    BY <1>4 DEF Return, VerifiedAfter
  <2>2. CASE call' = "returned" /\ captures /\ receipts' = receipts + 1
    <3>1. storedNow
      BY <1>4, <2>2 DEF Return, VerifiedAfter, ReceiptInv, ReportInv
    <3> QED BY <2>1, <2>2, <3>1 DEF ReceiptInv, CountInv
  <2>3. CASE receipts' = receipts
    BY <2>1, <2>3 DEF ReceiptInv, CountInv
  <2> QED BY <1>4, <2>2, <2>3 DEF Return, ReceiptInv, CountInv
<1>5. CASE Verify \/ Run \/ Collect
  BY <1>1, <1>5 DEF Verify, Run, Collect
<1>6. CASE UNCHANGED <<adapterVars, stored>>
  BY <1>6 DEF adapterVars, ReceiptInv, CountInv
<1>7. CASE Ends \/ (\E x \in PartSet : Change(x) \/ PutBack(x) \/ Load(x))
  BY <1>1, <1>6, <1>7 DEF Ends, Change, PutBack, Load
<1> QED BY <1>2, <1>3, <1>4, <1>5, <1>6, <1>7 DEF Next, Adapter, Thread, vars

(***************************************************************************)
(* Every receipt stands for evidence of its own: ReceiptsAreStored            *)
(* (candidate_evidence.py:185).                                               *)
(***************************************************************************)
THEOREM ReceiptsCorrect == Spec => []ReceiptsAreStored
<1>1. Init => ReceiptInv
  BY DEF Init, Asleep, ReceiptInv, ReportInv, CountInv
<1>2. ReceiptInv /\ [Next]_vars => ReceiptInv'
  BY ReportStep, CountStep DEF ReceiptInv
<1>3. ReceiptInv => ReceiptsAreStored
  BY DEF ReceiptInv, CountInv, ReceiptsAreStored
<1> QED BY <1>1, <1>2, <1>3, PTL DEF Spec
=============================================================================
