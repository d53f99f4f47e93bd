------------------------------- MODULE Exchange -------------------------------
(***************************************************************************)
(* The instrument exchange: a source envelope of typed artifacts is checked  *)
(* by a program of another repository, found in a checkout that anyone may   *)
(* change at any moment, and retained with what the checker made of it.  A   *)
(* replay has the checker run again and retains a session of its own, with a *)
(* receipt about the original.  Digests stand as what they are digests of.   *)
(***************************************************************************)
EXTENDS Naturals, FiniteSets

CONSTANTS
  Processes,
  Sources,       \* envelopes
  Trees,         \* source trees that a checkout may be of
  Pythons,       \* what the checker runs on, which its figures may depend on
  Checked(_, _, _),        \* external: what a checker, on a Python, makes of an envelope
  MaxSessions,   \* bound
  Pin,           \* the revision and the bytes of the checker that the project names
  Other,         \* any other ones
  None

Checkouts == [head : {Pin, Other}, tree : Trees, checker : {Pin, Other}, python : Pythons]

VARIABLES checkout, sessions, commands
vars == <<checkout, sessions, commands>>

Idle == [source |-> None, original |-> None, stage |-> "idle", tree |-> None, report |-> None]
Init ==
  /\ checkout \in Checkouts
  /\ sessions = {}
  /\ commands = [p \in Processes |-> Idle]

-----------------------------------------------------------------------------
(* Sessions. *)

Numerical(source, report) == [artifacts |-> source, figures |-> report]

\* What the digest of a session covers: all but its verification and receipts.
Body(s) == [id |-> s.id, source |-> s.source, tree |-> s.tree, step |-> s.step, replayOf |-> s.replayOf]
Verification(subject) == [subject |-> subject]

Native(id, source, tree, report, replayOf) ==
  LET body == [id |-> id, source |-> source, tree |-> tree, replayOf |-> replayOf,
               step |-> [input |-> source, request |-> source, execution |-> id,
                         result |-> [execution |-> id, numerical |-> Numerical(source, report),
                                     artifacts |-> source],
                         numerical |-> Numerical(source, report)]]
  IN [id |-> id, source |-> source, tree |-> tree, step |-> body.step, replayOf |-> replayOf,
      digest |-> body, verification |-> Verification(body), receipts |-> {}]

\* The parts of _validate that tie a session together.
AnyResult(step) == step.result.execution = step.execution  \* bug: its content is not compared
BoundResult(step) ==
  /\ step.result.execution = step.execution
  /\ step.result.numerical = step.numerical
  /\ step.result.artifacts = step.numerical.artifacts
BoundStep(s) ==
  /\ s.step.input = s.source /\ s.step.request = s.source
  /\ BoundResult(s.step)
  /\ s.step.result.artifacts = s.source
AnySession(s, r) == r.source # r.replayed        \* bug: a receipt of any replay will do
OwnReceipt(s, r) == r.source # r.replayed /\ r.replayed = s.digest
BoundReceipts(s) ==
  /\ Cardinality(s.receipts) <= 1
  /\ \A r \in s.receipts : OwnReceipt(s, r) /\ r.matches /\ r.verification.subject = r.source
Valid(s) ==
  /\ BoundStep(s)
  /\ s.digest = Body(s) /\ s.verification.subject = s.digest
  /\ BoundReceipts(s)

-----------------------------------------------------------------------------
(* create_session and replay_session. *)

At(p, stage) == commands[p].stage = stage
Become(p, c) == commands' = [commands EXCEPT ![p] = c]
Go(p, stage) == Become(p, [commands[p] EXCEPT !.stage = stage])

Create(p, source) ==
  /\ At(p, "idle")
  /\ Become(p, [Idle EXCEPT !.source = source, !.stage = "revision"])
  /\ UNCHANGED <<checkout, sessions>>

Replay(p, s) ==
  /\ At(p, "idle") /\ Valid(s)
  /\ Become(p, [Idle EXCEPT !.source = s.source, !.original = s, !.stage = "revision"])
  /\ UNCHANGED <<checkout, sessions>>

\* _runtime: the revision and the tree as git tells them, then the bytes of the checker.
Revision(p) ==
  /\ At(p, "revision") /\ checkout.head = Pin
  /\ Go(p, "tree")
  /\ UNCHANGED <<checkout, sessions>>

Tree(p) ==
  /\ At(p, "tree")
  /\ Become(p, [commands[p] EXCEPT !.tree = checkout.tree, !.stage = "bytes"])
  /\ UNCHANGED <<checkout, sessions>>

Bytes(p) ==
  /\ At(p, "bytes") /\ checkout.checker = Pin
  /\ Go(p, "inspect")
  /\ UNCHANGED <<checkout, sessions>>

\* inspect_exchange: _validator reads the checker once more, and executes what it compared.
Approved(bytes) == bytes = Pin

Inspect(p) ==
  LET c == commands[p]
  IN /\ At(p, "inspect") /\ Approved(checkout.checker)
     /\ Become(p, [c EXCEPT !.report = Checked(checkout.checker, checkout.python, c.source),
                            !.stage = "make"])
     /\ UNCHANGED <<checkout, sessions>>

\* A replay is kept only if the figures are the original's, and with a receipt that says so.
Fresh(c) ==
  Native(Cardinality(sessions), c.source, c.tree, c.report,
         IF c.original = None THEN None ELSE c.original.digest)
SameFigures(fresh, original) == fresh.step.numerical = original.step.numerical
Receipt(fresh, original) ==
  [source |-> original.digest, replayed |-> fresh.digest, matches |-> TRUE,
   verification |-> Verification(original.digest)]

Make(p) ==
  LET c == commands[p]
      fresh == Fresh(c)
      kept == IF c.original = None THEN fresh
              ELSE [fresh EXCEPT !.receipts = {Receipt(fresh, c.original)}]
  IN /\ At(p, "make") /\ Cardinality(sessions) < MaxSessions
     /\ c.original # None => SameFigures(fresh, c.original)
     /\ Valid(fresh) /\ Valid(kept)
     /\ sessions' = sessions \cup {kept}
     /\ Become(p, Idle)
     /\ UNCHANGED checkout

\* A guard above fails, or the checker refuses an artifact.
Refuse(p) ==
  /\ ~At(p, "idle")
  /\ Become(p, Idle)
  /\ UNCHANGED <<checkout, sessions>>

Change(part, value) ==
  /\ checkout' = [checkout EXCEPT ![part] = value]
  /\ UNCHANGED <<sessions, commands>>

Next ==
  \/ \E p \in Processes :
       \/ \E source \in Sources : Create(p, source)
       \/ \E s \in sessions : Replay(p, s)
       \/ Revision(p) \/ Tree(p) \/ Bytes(p) \/ Inspect(p) \/ Make(p) \/ Refuse(p)
  \/ \E part \in {"head", "checker"}, value \in {Pin, Other} : Change(part, value)
  \/ \E tree \in Trees : Change("tree", tree)
  \/ \E python \in Pythons : Change("python", python)

Spec == Init /\ [][Next]_vars

-----------------------------------------------------------------------------
(* What has to hold. *)

\* Sessions put together from parts of others, under a digest and a verification of their own.
Sealed(s) == [s EXCEPT !.digest = Body(s), !.verification = Verification(Body(s))]
Mixed(a, b, c) ==
  {Sealed([a EXCEPT !.step.result = b.step.result, !.step.execution = b.step.execution]),
   Sealed([a EXCEPT !.step.numerical = b.step.numerical]),
   Sealed([a EXCEPT !.step = b.step, !.receipts = c.receipts]),
   Sealed([a EXCEPT !.source = b.source, !.replayOf = c.replayOf]),
   Sealed([a EXCEPT !.replayOf = b.replayOf, !.receipts = c.receipts])}

\* Of those, _validate accepts none whose result is not of its envelope and of its figures,
\* and none with a receipt that another replay has earned: a receipt comes with the very
\* session that was compared, whose original had the same figures.
AcceptedOfOneSession ==
  \A a, b, c \in sessions : \A s \in {m \in Mixed(a, b, c) : Valid(m)} :
    /\ s.step.result.artifacts = s.source
    /\ \E o \in sessions : s.source = o.source /\ s.step.result.numerical = o.step.numerical
                           /\ s.step.numerical = o.step.numerical
    /\ \A r \in s.receipts :
         /\ \E o \in sessions : o.digest = s.digest /\ r \in o.receipts
         /\ s.replayOf = r.source /\ r.source.step.numerical = s.step.numerical

=============================================================================
