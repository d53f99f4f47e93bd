------------------------------ MODULE RunsProofs ------------------------------
(***************************************************************************)
(* Proofs about Runs.tla, for every catalog of workflows whose steps and     *)
(* stages are in order, every set of sources and any number of sessions,     *)
(* calls and mishaps.                                                        *)
(***************************************************************************)
EXTENDS Runs, FiniteSetTheorems, TLAPS

IsSeq(s) == s \in Seq(Range(s))

-----------------------------------------------------------------------------
(* How far a call has come. *)

Left == Range(todo)
Running == outcome = "running"
BundleFields == {"session", "source", "up", "pair", "runtime", "steps", "verification", "receipt"}

Progress ==
  /\ Len(work.steps) <= n /\ Len(again) <= n
  /\ "bind" \in Left => "execute" \in Left /\ again = <<>>
  /\ "execute" \in Left => Head(todo) = "execute" \/ work.steps = <<>>
  /\ "execute" \notin Left => Len(work.steps) = n
  /\ {"rerun", "reproduce"} \cap Left # {} => Head(todo) \in {"rerun", "reproduce"} \/ again = <<>>
  /\ {"rerun", "reproduce"} \cap Left = {} /\ {"compare", "attest"} \cap Left # {} => Len(again) = n
  /\ {"verify", "attest"} \cap Left = {} => work.verification # None
  /\ "execute" \in Left => work.verification = None
StageInv ==
  /\ kind \in DOMAIN Catalog
  /\ IsSeq(todo) /\ Ordered(todo)
  /\ DOMAIN work = BundleFields /\ IsSeq(work.steps) /\ IsSeq(again) /\ IsSeq(sessions)
  /\ ~Running => todo = <<>> /\ work = Blank /\ again = <<>>
  /\ Running => Progress

-----------------------------------------------------------------------------
(* What computed the results. *)

Ran(flow, runtime, steps) ==
  \A i \in 1..Len(steps) : \A r \in flow.steps[i].roles \cap (flow.verified \cup flow.inprocess) :
    steps[i].result.ran[r] = runtime[r]
Retains(flow, runtime, steps) ==
  IsSeq(steps) /\ (steps = <<>> \/ Len(steps) = Len(flow.steps)) /\ Ran(flow, runtime, steps)
RuntimeGoing ==
  /\ "bind" \notin Left => \A r \in w.inprocess \cap Roles(w) : bound[r] = version[r]
  /\ Ran(w, bound, work.steps) /\ Ran(w, bound, again)
  /\ "execute" \notin Left => work.runtime = bound
  /\ work.verification # None => Retains(w, bound, work.verification.again)
RuntimeKept ==
  \A k \in 1..Len(sessions) :
    /\ IsSeq(sessions[k].steps) /\ Len(sessions[k].steps) = n
    /\ Ran(w, sessions[k].runtime, sessions[k].steps)
    /\ sessions[k].verification # None
    /\ Retains(w, sessions[k].runtime, sessions[k].verification.again)
RuntimeInv == (Running => RuntimeGoing) /\ RuntimeKept

-----------------------------------------------------------------------------
(* Occurrences. *)

\* Every identity of these steps was drawn by the c-th call that returns, and is not one
\* of those drawn after the first k.
Drawn(c, k, steps) ==
  \A o \in Occurrences(steps) : \E x \in Nat : x <= k /\ o = <<c, x>>
Apart(steps, others) == Occurrences(steps) \cap Occurrences(others) = {}
OccurrenceGoing ==
  /\ Drawn(Len(sessions) + 1, occurrence, work.steps)
  /\ "attest" \in Left => Drawn(Len(sessions) + 1, occurrence, again) /\ Apart(work.steps, again)
  /\ work.verification # None =>
       /\ Drawn(Len(sessions) + 1, occurrence, work.verification.again)
       /\ Apart(work.steps, work.verification.again)
OccurrenceKept ==
  \A k \in 1..Len(sessions) :
    /\ \E x \in Nat : Drawn(k, x, sessions[k].steps) /\ Drawn(k, x, sessions[k].verification.again)
    /\ Apart(sessions[k].steps, sessions[k].verification.again)
OccurrenceInv == occurrence \in Nat /\ (Running => OccurrenceGoing) /\ OccurrenceKept

-----------------------------------------------------------------------------
(* What was computed. *)

\* The steps of a run ask as their workflow says.
Asks(flow, source, up, steps) ==
  \A i \in 1..Len(steps) :
    \E exec : steps[i].request = Request(flow, i, source, up, steps, exec)
Flawed(steps) == \E i \in 1..Len(steps) : steps[i].result.data # Computed(steps[i].request)

\* The rerun that is to be matched with the fresh chain before it is dropped.
Matches(stages) ==
  \E i, j \in 1..Len(stages) : stages[i] = "match" /\ stages[j] = "verify" /\ i < j
Pending == Matches(todo) /\ Len(again) = n /\ SameNumbers(replayed.steps, again)
Settled ==
  {"compare", "attest"} \cap Left = {} =>
    Pending \/ ("execute" \notin Left /\ (flaws < 2 => ~Flawed(work.steps)))
FlawGoing ==
  /\ w.upstream # "none" => work.up # 0
  /\ "match" \in Left => DOMAIN replayed.steps = 1..n
  /\ Asks(w, work.source, work.up, work.steps) /\ Asks(w, work.source, work.up, again)
  /\ Flawed(work.steps) \/ Flawed(again) => flaws >= 1
  /\ Flawed(work.steps) /\ Flawed(again) => flaws >= 2
  /\ Settled
FlawKept ==
  \A k \in 1..Len(sessions) :
    LET b == sessions[k]
    IN  /\ DOMAIN b = BundleFields /\ DOMAIN b.steps = 1..n
        /\ w.upstream # "none" => b.up # 0
        /\ Asks(w, b.source, b.up, b.steps)
        /\ flaws < 2 => ~Flawed(b.steps)
FlawInv == flaws \in Nat /\ (Running => FlawGoing) /\ FlawKept

-----------------------------------------------------------------------------
(* What the steps are made of. *)

Built(flow, runtime, source, up, steps) ==
  \A i \in 1..Len(steps) :
    /\ steps[i].request = Request(flow, i, source, up, steps, steps[i].exec)
    /\ steps[i].refs = InputRefs(flow, i, source, up, steps)
    /\ steps[i].runtime = (IF "declared" \in flow.checks THEN runtime ELSE <<>>)
    /\ steps[i].result.exec = Carried(flow, i, {"result", "unbound"}, steps[i].exec)
    /\ steps[i].result.refs = (IF "refs" \in flow.steps[i].carries THEN steps[i].refs ELSE <<>>)
    /\ Computed(steps[i].request) \subseteq steps[i].result.data
    /\ ~flow.native => steps[i].result.native = None
Named(flow, steps) ==
  \A i \in 1..Len(steps) : steps[i].exec # None /\ (flow.native => steps[i].result.native # None)
BuiltGoing ==
  /\ Built(w, bound, work.source, work.up, work.steps) /\ Built(w, bound, work.source, work.up, again)
  /\ Named(w, work.steps) /\ ExecutionsDiffer(work)
  /\ "attest" \in Left => Named(w, again)
  /\ work.verification # None =>
       /\ Built(w, bound, work.source, work.up, work.verification.again)
       /\ Named(w, work.verification.again)
BuiltKept ==
  \A k \in 1..Len(sessions) :
    LET b == sessions[k] IN Built(w, b.runtime, b.source, b.up, b.steps)
BuiltInv == (Running => BuiltGoing) /\ BuiltKept

-----------------------------------------------------------------------------
(* What a call is about. *)

\* The stage that looks whether the source names the upstream session.
Gate == IF replayed = Blank THEN "select" ELSE "inspect"
OriginGoing ==
  /\ {"inspect", "match", "receipt"} \cap Left # {} => replayed # Blank
  /\ replayed # Blank =>
       /\ DOMAIN replayed.steps = 1..n /\ work.source = replayed.source /\ work.up = replayed.up
       /\ \E k \in 1..Len(sessions) : replayed.session = sessions[k].session
       /\ "bind" \notin Left => bound = replayed.runtime
  /\ "selected" \in w.checks /\ Gate \notin Left => Selected(work)
  /\ "paired" \in w.checks /\ "upstream" \notin Left => Paired(work)
  /\ "upstream" \in Left => "execute" \in Left
  /\ Reproduces(w) => "verify" \notin Left
  /\ "execute" \notin Left => \E x : work.session = <<Len(sessions) + 1, x>>
OriginKept == \A k \in 1..Len(sessions) : \E x : sessions[k].session = <<k, x>>
OriginInv == (Running => OriginGoing) /\ OriginKept

-----------------------------------------------------------------------------
(* What was compared. *)

ReceiptOf(b, original) ==
  [original |-> Digest(original), replayed |-> Digest(b), subject |-> Digest(original), again |-> b.steps]
ProofGoing ==
  /\ work.verification # None =>
       /\ work.verification.subject = Digest(work)
       /\ work.verification.again # <<>> => SameNumbers(work.steps, work.verification.again)
       /\ Reproduces(w) => work.verification.again # <<>>
  /\ "execute" \in Left => work.receipt = None
  /\ work.receipt # None => replayed # Blank /\ work.receipt = ReceiptOf(work, replayed)
  /\ "receipt" \in Left \/ work.receipt # None =>
       "match" \in Left \/ ("execute" \notin Left /\ SameNumbers(replayed.steps, work.steps))
  /\ "recomputed" \in w.checks =>
       "validate" \in Left \/ ("execute" \notin Left /\ Recomputed(w, work, work.steps))
Acceptable(b) ==
  /\ Accepts(w, b)
  /\ b.receipt # None =>
       LET original == b.receipt.original
       IN  /\ original.session # b.session
           /\ original.source = b.source /\ original.up = b.up
           /\ SameNumbers(original.steps, b.steps) /\ original.runtime = b.runtime
ProofKept == \A k \in 1..Len(sessions) : Acceptable(sessions[k])
ProofInv == (Running => ProofGoing) /\ ProofKept

-----------------------------------------------------------------------------
(* While nothing goes wrong. *)

Alike(s, t) == s.request = t.request /\ ResultId(s) = ResultId(t)
SteadyGoing ==
  /\ "bind" \notin Left => bound = version
  /\ replayed # Blank =>
       /\ \E k \in 1..Len(sessions) : replayed = sessions[k]
       /\ \A i \in 1..Len(work.steps) : work.steps[i].result.data = replayed.steps[i].result.data
  /\ {"compare", "attest"} \cap Left # {} =>
       \A i \in 1..Len(again) : again[i].result.data = Rerun.steps[i].result.data
  /\ "compare" \in Left =>
       /\ \A i \in 1..Len(again) : Alike(again[i], Rerun.steps[i])
       /\ ~w.native /\ ("rerun" \in Left \/ Head(todo) = "compare")
  /\ "attest" \in Left => "reproduce" \in Left \/ "execute" \notin Left
SteadyInv ==
  /\ changes \in Nat
  /\ flaws + changes = 0 =>
       /\ outcome \in {"idle", "running", "returned", "unselected"}
       /\ Running => SteadyGoing
       /\ \A k \in 1..Len(sessions) : sessions[k].runtime = version

-----------------------------------------------------------------------------
(* What a replay is of. *)

StepFields == {"exec", "request", "refs", "runtime", "result"}
Shaped(steps) ==
  \A i \in 1..Len(steps) :
    /\ DOMAIN steps[i] = StepFields /\ "data" \in DOMAIN steps[i].result /\ steps[i].exec # None
    /\ steps[i].result.data \subseteq Computed(steps[i].request) \cup {Flaw}
\* A bundle with every part that matters from one of two others.
MadeOf(b, c, d) ==
  /\ b.source \in {c.source, d.source} /\ b.up \in {c.up, d.up}
  /\ \A i \in 1..n : \A part \in {"exec", "request", "refs", "result"} :
       b.steps[i][part] \in {c.steps[i][part], d.steps[i][part]}
Spoilt(b) == \E i \in 1..n : Flaw \in b.steps[i].result.data
MadeGoing ==
  /\ Shaped(work.steps)
  /\ w.upstream = "none" => work.up = 0
  /\ replayed # Blank => Spoilt(replayed) \/ \E k, l \in 1..Len(sessions) : MadeOf(replayed, sessions[k], sessions[l])
MadeKept ==
  \A k \in 1..Len(sessions) : Shaped(sessions[k].steps) /\ (w.upstream = "none" => sessions[k].up = 0)
MadeInv == (Running => MadeGoing) /\ MadeKept

-----------------------------------------------------------------------------
(* Proofs: sequences and stages. *)

LEMMA Empty == IsSeq(<<>>) /\ Len(<<>>) = 0
BY DEF IsSeq, Range

LEMMA Sequences ==
  ASSUME NEW s, IsSeq(s)
  PROVE  Len(s) \in Nat /\ DOMAIN s = 1..Len(s) /\ (s # <<>> <=> Len(s) > 0)
BY DEF IsSeq

LEMMA Intervals ==
  ASSUME NEW a \in Nat, NEW b \in Nat, 1..a = 1..b
  PROVE  a = b
<1>1. a > b => a \in 1..a /\ a \notin 1..b
  OBVIOUS
<1>2. b > a => b \in 1..b /\ b \notin 1..a
  OBVIOUS
<1> QED BY <1>1, <1>2

LEMMA Appended ==
  ASSUME NEW s, IsSeq(s), NEW x
  PROVE  /\ IsSeq(Append(s, x))
         /\ Len(Append(s, x)) = Len(s) + 1
         /\ \A i \in 1..Len(s) : Append(s, x)[i] = s[i]
         /\ Append(s, x)[Len(s) + 1] = x
<1> DEFINE T == Range(s) \cup {x}
           a == Append(s, x)
<1>1. s \in Seq(T) /\ x \in T /\ Len(s) \in Nat
  <2>1. s \in Seq(Range(s))
    BY DEF IsSeq
  <2>2. /\ Len(s) \in Nat /\ DOMAIN s = 1..Len(s) /\ s = [i \in DOMAIN s |-> s[i]]
        /\ \A i \in 1..Len(s) : s[i] \in Range(s)
    BY <2>1
  <2> QED BY <2>2
<1>2. /\ a \in Seq(T) /\ Len(a) = Len(s) + 1
      /\ \A i \in 1..Len(s) : a[i] = s[i]
      /\ a[Len(s) + 1] = x
  BY <1>1
<1>3. Range(a) = T
  <2>1. DOMAIN a = (1..Len(s)) \cup {Len(s) + 1}
    BY <1>1, <1>2
  <2>2. DOMAIN s = 1..Len(s)
    BY <1>1
  <2>3. \A y \in Range(s) : \E i \in 1..Len(s) : s[i] = y
    BY <2>2 DEF Range
  <2>4. \A i \in 1..Len(s) : s[i] \in Range(s)
    BY <2>2 DEF Range
  <2>5. \A y : y \in Range(a) <=> \E i \in DOMAIN a : a[i] = y
    BY DEF Range
  <2>6. ASSUME NEW y \in Range(a)
        PROVE  y \in T
    <3>1. PICK i \in DOMAIN a : a[i] = y
      BY <2>5, <2>6
    <3>2. CASE i = Len(s) + 1
      BY <3>1, <3>2, <1>2
    <3>3. CASE i \in 1..Len(s)
      BY <3>1, <3>3, <1>2, <2>4
    <3> QED BY <2>1, <3>2, <3>3
  <2>7. ASSUME NEW y \in T
        PROVE  y \in Range(a)
    <3>1. CASE y = x
      BY <3>1, <1>2, <2>1, <2>5
    <3>2. CASE y \in Range(s)
      <4>1. PICK i \in 1..Len(s) : s[i] = y
        BY <2>3, <3>2
      <4>2. a[i] = y /\ i \in DOMAIN a
        BY <1>2, <2>1, <4>1
      <4> HIDE DEF a
      <4> QED BY <2>5, <4>2
    <3> QED BY <3>1, <3>2
  <2> QED BY <2>6, <2>7
<1> QED BY <1>2, <1>3 DEF IsSeq

\* What is left of the stages of a call when the first one is taken.
LEMMA Popped ==
  ASSUME NEW s, IsSeq(s), s # <<>>, Ordered(s)
  PROVE  /\ IsSeq(Tail(s)) /\ Ordered(Tail(s))
         /\ Range(s) = {Head(s)} \cup Range(Tail(s))
         /\ Head(s) # "validate" => Head(s) \notin Range(Tail(s))
         /\ \A name : <<name, Head(s)>> \in Precedes => name \notin Range(Tail(s))
         /\ Head(s) = "rerun" => Tail(s) # <<>> /\ Head(Tail(s)) = "compare"
<1> DEFINE t == Tail(s)
           l == Len(s)
<1>1. /\ s \in Seq(Range(s)) /\ l \in Nat \ {0} /\ DOMAIN s = 1..l /\ Head(s) = s[1]
  BY DEF IsSeq
<1>2. /\ t \in Seq(Range(s)) /\ Len(t) = l - 1 /\ DOMAIN t = 1..l - 1
      /\ \A i \in 1..l - 1 : t[i] = s[i + 1]
  BY <1>1
<1> HIDE DEF t, l
<1>3. Range(s) = {Head(s)} \cup Range(t)
  <2>1. \A i \in 1..l : i = 1 \/ (i - 1 \in 1..l - 1 /\ s[i] = t[i - 1])
    BY <1>1, <1>2
  <2>2. 1 \in 1..l /\ \A i \in 1..l - 1 : i + 1 \in 1..l
    BY <1>1
  <2>3. /\ \A y : y \in Range(s) <=> \E i \in 1..l : s[i] = y
        /\ \A y : y \in Range(t) <=> \E i \in 1..l - 1 : t[i] = y
    BY <1>1, <1>2 DEF Range
  <2>4. Head(s) \in Range(s) /\ \A y \in Range(t) : y \in Range(s)
    BY <1>1, <1>2, <2>2, <2>3
  <2>5. \A y \in Range(s) : y = Head(s) \/ y \in Range(t)
    BY <1>1, <2>1, <2>3
  <2> QED BY <2>4, <2>5
<1>4. IsSeq(t)
  <2>1. \A i \in 1..l - 1 : t[i] \in Range(t)
    BY <1>2 DEF Range
  <2> QED BY <1>2, <2>1 DEF IsSeq
<1>5. ASSUME NEW i \in 1..l - 1
      PROVE  i + 1 \in 1..l /\ t[i] = s[i + 1] /\ 1 \in 1..l /\ ~(i + 1 < 1) /\ i + 1 # 1
  BY <1>1, <1>2
<1>6. ASSUME NEW name \in Range(t)
      PROVE  /\ <<name, Head(s)>> \notin Precedes
             /\ name = Head(s) => name = "validate"
  <2>1. PICK i \in 1..l - 1 : t[i] = name
    BY <1>2 DEF Range
  <2>2. s[i + 1] = name
    BY <1>5, <2>1
  <2> QED BY <1>1, <1>5, <2>2 DEF Ordered, l
<1>7. \A i \in 1..l - 1 : t[i] = "rerun" => i < l - 1 /\ t[i + 1] = "compare"
  <2> SUFFICES ASSUME NEW i \in 1..l - 1, t[i] = "rerun"
               PROVE  i < l - 1 /\ t[i + 1] = "compare"
    OBVIOUS
  <2>1. i + 1 < l /\ s[i + 1 + 1] = "compare"
    BY <1>5 DEF Ordered, l
  <2>2. i + 1 \in 1..l - 1
    BY <1>1, <2>1
  <2> QED BY <1>1, <1>2, <2>1, <2>2
<1>8. Range(t) \subseteq Range(s)
  BY <1>3
<1>9. \A i, j \in 1..l - 1 :
        t[i] = "compare" /\ t[j] = "execute" /\ i < j =>
          \E k, m \in j + 1..l - 1 : t[k] = "match" /\ t[m] = "verify" /\ k < m
  <2> SUFFICES ASSUME NEW i \in 1..l - 1, NEW j \in 1..l - 1, t[i] = "compare", t[j] = "execute", i < j
               PROVE  \E k, m \in j + 1..l - 1 : t[k] = "match" /\ t[m] = "verify" /\ k < m
    OBVIOUS
  <2>1. s[i + 1] = "compare" /\ s[j + 1] = "execute" /\ i + 1 < j + 1 /\ i + 1 \in 1..l /\ j + 1 \in 1..l
    BY <1>5
  <2>2. PICK k, m \in j + 1 + 1..l : s[k] = "match" /\ s[m] = "verify" /\ k < m
    BY <2>1 DEF Ordered, l
  <2>3. /\ k - 1 \in j + 1..l - 1 /\ m - 1 \in j + 1..l - 1 /\ k - 1 < m - 1
        /\ k - 1 \in 1..l - 1 /\ m - 1 \in 1..l - 1 /\ k - 1 + 1 = k /\ m - 1 + 1 = m
    BY <1>1, <2>2
  <2>4. t[k - 1] = "match" /\ t[m - 1] = "verify"
    BY <1>2, <2>2, <2>3
  <2> QED BY <2>3, <2>4
<1>10. \A i, j \in 1..l - 1 :
         /\ <<t[i], t[j]>> \in Precedes => i < j
         /\ t[i] = t[j] => i = j \/ t[i] = "validate"
  <2> SUFFICES ASSUME NEW i \in 1..l - 1, NEW j \in 1..l - 1
               PROVE  /\ <<t[i], t[j]>> \in Precedes => i < j
                      /\ t[i] = t[j] => i = j \/ t[i] = "validate"
    OBVIOUS
  <2>1. /\ i + 1 \in 1..l /\ j + 1 \in 1..l /\ t[i] = s[i + 1] /\ t[j] = s[j + 1]
        /\ (i + 1 < j + 1 <=> i < j) /\ (i + 1 = j + 1 <=> i = j)
    BY <1>5
  <2> QED BY <2>1 DEF Ordered, l
<1>11. Ordered(t)
  BY <1>2, <1>7, <1>8, <1>9, <1>10 DEF Ordered
<1>12. Head(s) = "rerun" => t # <<>> /\ Head(t) = "compare"
  <2> SUFFICES ASSUME Head(s) = "rerun"
               PROVE  t # <<>> /\ Head(t) = "compare"
    OBVIOUS
  <2>1. 1 < l /\ s[2] = "compare"
    <3>1. 1 \in 1..l /\ s[1] = "rerun" /\ 1 + 1 = 2
      BY <1>1
    <3> QED BY <3>1 DEF Ordered, l
  <2>2. 1 \in 1..l - 1 /\ 1 + 1 = 2
    BY <1>1, <2>1
  <2>3. t[1] = "compare"
    BY <1>2, <2>1, <2>2
  <2> QED BY <1>2, <2>2, <2>3
<1> QED BY <1>3, <1>4, <1>6, <1>11, <1>12 DEF t

LEMMA MatchesStill ==
  ASSUME NEW s, IsSeq(s), s # <<>>, Ordered(s)
  PROVE  /\ Matches(s) /\ Head(s) # "match" => Matches(Tail(s)) /\ Head(s) # "verify"
         /\ Head(s) = "compare" /\ "execute" \in Range(Tail(s)) => Matches(Tail(s))
<1> DEFINE t == Tail(s)
           l == Len(s)
<1>1. /\ l \in Nat \ {0} /\ Head(s) = s[1]
      /\ Len(t) = l - 1 /\ DOMAIN t = 1..l - 1
      /\ \A i \in 1..l - 1 : t[i] = s[i + 1]
  BY DEF IsSeq
<1> HIDE DEF t, l
<1>2. ASSUME NEW i \in 1..l, NEW j \in 1..l, s[i] = "match", s[j] = "verify", i < j, i # 1
      PROVE  Matches(t)
  <2>1. i - 1 \in 1..l - 1 /\ j - 1 \in 1..l - 1 /\ i - 1 < j - 1 /\ i - 1 + 1 = i /\ j - 1 + 1 = j
    BY <1>1, <1>2
  <2>2. t[i - 1] = "match" /\ t[j - 1] = "verify"
    BY <1>1, <1>2, <2>1
  <2> QED BY <1>1, <2>1, <2>2 DEF Matches
<1>3. ASSUME Matches(s), Head(s) # "match"
      PROVE  Matches(t) /\ Head(s) # "verify"
  <2>1. PICK i, j \in 1..l : s[i] = "match" /\ s[j] = "verify" /\ i < j
    BY <1>3 DEF Matches, l
  <2>2. i # 1
    BY <1>1, <1>3, <2>1
  <2>3. s[1] # "verify"
    <3>1. 1 \in 1..l /\ 1 # j /\ l = Len(s)
      BY <1>1, <2>1 DEF l
    <3>2. ASSUME NEW g \in 1..l, NEW h \in 1..l, s[g] = s[h]
          PROVE  g = h \/ s[g] = "validate"
      BY <3>1, <3>2 DEF Ordered
    <3> QED BY <2>1, <3>1, <3>2
  <2> QED BY <1>1, <1>2, <2>1, <2>2, <2>3
<1>4. ASSUME Head(s) = "compare", "execute" \in Range(t)
      PROVE  Matches(t)
  <2>1. PICK j \in 1..l - 1 : t[j] = "execute"
    BY <1>1, <1>4 DEF Range
  <2>2. s[1] = "compare" /\ s[j + 1] = "execute" /\ 1 < j + 1 /\ 1 \in 1..l /\ j + 1 \in 1..l
    BY <1>1, <1>4, <2>1
  <2>3. PICK k, m \in j + 1 + 1..l : s[k] = "match" /\ s[m] = "verify" /\ k < m
    <3>1. l = Len(s)
      BY DEF l
    <3>2. ASSUME NEW i \in 1..l, NEW h \in 1..l, s[i] = "compare", s[h] = "execute", i < h
          PROVE  \E k, m \in h + 1..l : s[k] = "match" /\ s[m] = "verify" /\ k < m
      BY <3>1, <3>2 DEF Ordered
    <3> QED BY <2>2, <3>2
  <2>4. k \in 1..l /\ m \in 1..l /\ k # 1
    BY <1>1, <2>3
  <2> QED BY <1>2, <2>3, <2>4
<1> QED BY <1>3, <1>4 DEF t

-----------------------------------------------------------------------------
(* Proofs: how far a call has come. *)

LEMMA Flows ==
  ASSUME kind \in DOMAIN Catalog
  PROVE  /\ WellFormed(w) /\ IsSeq(w.steps) /\ n \in Nat \ {0} /\ Index(w) = 1..n
         /\ Ordered(w.create) /\ Complete(w.create) /\ Ordered(w.replay) /\ Complete(w.replay)
<1>1. WellFormed(w)
  BY CatalogAssumption DEF w
<1>2. IsSeq(w.steps) /\ w.steps # <<>>
  BY <1>1 DEF WellFormed, IsSeq
<1> QED BY <1>1, <1>2, Sequences DEF WellFormed, n, Index

LEMMA Blanks ==
  /\ DOMAIN Blank = BundleFields /\ Blank.steps = <<>> /\ Blank.verification = None
  /\ Range(<<>>) = {} /\ Ordered(<<>>) /\ None = <<>>
BY DEF Blank, BundleFields, Range, Ordered, None

LEMMA Still == kind' = kind => w' = w /\ n' = n
BY DEF w, n

\* The next stage of a call under way, and what is left after it.
LEMMA Heads ==
  ASSUME StageInv, todo # <<>>
  PROVE  /\ Running /\ Progress /\ IsSeq(todo) /\ Ordered(todo)
         /\ IsSeq(Tail(todo)) /\ Ordered(Tail(todo))
         /\ Left = {Head(todo)} \cup Range(Tail(todo))
         /\ Head(todo) # "validate" => Head(todo) \notin Range(Tail(todo))
         /\ \A name : <<name, Head(todo)>> \in Precedes => name \notin Left
         /\ {"rerun", "compare", "verify"} \cap Left = {} \/ {"reproduce", "attest"} \cap Left = {}
<1>1. Running /\ Progress /\ IsSeq(todo) /\ Ordered(todo)
  BY DEF StageInv
<1>2. \A name : <<name, name>> \notin Precedes
  BY DEF Precedes
<1>3. {"rerun", "compare", "verify"} \cap Left = {} \/ {"reproduce", "attest"} \cap Left = {}
  BY <1>1 DEF Ordered, Left
<1> QED BY <1>1, <1>2, <1>3, Popped DEF Left

LEMMA StageDone ==
  ASSUME StageInv, todo # <<>>, Done, kind' = kind, outcome' = outcome, sessions' = sessions,
         DOMAIN work' = BundleFields, work.steps = (work.steps)',
         \/ Head(todo) \in {"verify", "attest"} /\ (work.verification # None)' /\ again' = <<>>
         \/ /\ Head(todo) \notin {"verify", "attest"}
            /\ (work.verification)' = work.verification /\ again' = again,
         Head(todo) = "execute" => Len(work.steps) = n,
         Head(todo) \in {"rerun", "reproduce"} => Len(again) = n
  PROVE  StageInv'
<1> DEFINE h == Head(todo)
           left == Range(Tail(todo))
<1>1. /\ Running /\ Progress /\ IsSeq(Tail(todo)) /\ Ordered(Tail(todo))
      /\ Left = {h} \cup left /\ (h # "validate" => h \notin left)
      /\ {"rerun", "compare", "verify"} \cap Left = {} \/ {"reproduce", "attest"} \cap Left = {}
  BY Heads
<1>2. /\ h = "execute" => "bind" \notin left
      /\ h = "rerun" => "bind" \notin left
      /\ h = "verify" => "compare" \notin left /\ "execute" \notin left
      /\ h = "attest" => "reproduce" \notin left /\ "execute" \notin left
  BY <1>1, Heads DEF Precedes
<1>3. Left' = left /\ w' = w /\ n' = n /\ Running'
  BY <1>1, Still DEF Left, Done, Running
<1>4. n \in Nat /\ Len(<<>>) <= n
  BY Flows, Empty DEF StageInv
<1> HIDE DEF h, left
<1>5. Progress'
  <2>1. (Len(work.steps) <= n /\ Len(again) <= n)'
    BY <1>1, <1>3, <1>4 DEF Progress
  <2>2. ("bind" \in Left => "execute" \in Left /\ again = <<>>)'
    BY <1>1, <1>2, <1>3 DEF Progress
  <2>3. ("execute" \in Left => Head(todo) = "execute" \/ work.steps = <<>>)'
    BY <1>1, <1>3 DEF Progress, h
  <2>4. ("execute" \notin Left => Len(work.steps) = n)'
    BY <1>1, <1>3 DEF Progress, h
  <2>5. ({"rerun", "reproduce"} \cap Left # {} => Head(todo) \in {"rerun", "reproduce"} \/ again = <<>>)'
    <3> SUFFICES ASSUME {"rerun", "reproduce"} \cap left # {}
                 PROVE  again' = <<>>
      BY <1>3
    <3>1. {"rerun", "reproduce"} \cap Left # {} /\ h \notin {"rerun", "reproduce"}
      BY <1>1
    <3> QED BY <1>1, <3>1 DEF Progress, h
  <2>6. ({"rerun", "reproduce"} \cap Left = {} /\ {"compare", "attest"} \cap Left # {} => Len(again) = n)'
    <3> SUFFICES ASSUME {"rerun", "reproduce"} \cap left = {}, {"compare", "attest"} \cap left # {}
                 PROVE  Len(again') = n
      BY <1>3
    <3>1. h \notin {"verify", "attest"}
      BY <1>1, <1>2
    <3>2. {"compare", "attest"} \cap Left # {}
      BY <1>1
    <3>3. CASE {"rerun", "reproduce"} \cap Left = {}
      BY <1>1, <3>1, <3>2, <3>3 DEF Progress, h
    <3>4. CASE h \in {"rerun", "reproduce"}
      BY <3>1, <3>4 DEF h
    <3> QED BY <1>1, <3>3, <3>4
  <2>7. ({"verify", "attest"} \cap Left = {} => work.verification # None)'
    <3>1. h \in {"verify", "attest"} \/ ({"verify", "attest"} \cap left = {} => {"verify", "attest"} \cap Left = {})
      BY <1>1
    <3> QED BY <1>1, <1>3, <3>1 DEF Progress, h
  <2>8. ("execute" \in Left => work.verification = None)'
    BY <1>1, <1>2, <1>3 DEF Progress, h
  <2> QED BY <2>1, <2>2, <2>3, <2>4, <2>5, <2>6, <2>7, <2>8 DEF Progress
<1>6. IsSeq(again')
  BY Empty DEF StageInv
<1> QED BY <1>1, <1>3, <1>5, <1>6 DEF StageInv, Done, IsSeq

LEMMA StageRefuse ==
  ASSUME StageInv, NEW why, why # "running", Refuse(why), UNCHANGED <<kind, sessions>>
  PROVE  StageInv' /\ ~Running'
BY Blanks, Empty DEF StageInv, Refuse, Running, IsSeq

LEMMA StageDecide ==
  ASSUME StageInv, NEW name, name \notin {"verify", "attest", "execute", "rerun", "reproduce"},
         NEW why, why # "running", NEW holds, Decide(name, holds, why)
  PROVE  StageInv'
<1>1. CASE Refuse(why)
  BY <1>1, StageRefuse DEF Decide
<1>2. CASE Done /\ UNCHANGED <<work, again, bound, replayed, outcome, occurrence>>
  <2>1. DOMAIN work = BundleFields
    BY DEF StageInv
  <2> QED BY <1>2, <2>1, StageDone DEF Decide, Stage
<1> QED BY <1>1, <1>2 DEF Decide

LEMMA StageCall ==
  ASSUME StageInv, NEW stages \in {w.create, w.replay}, NEW source, NEW up, NEW b,
         Call(stages, source, up, b), UNCHANGED <<kind, sessions>>
  PROVE  StageInv' /\ Running' /\ todo' = stages
<1>1. Ordered(stages) /\ Complete(stages) /\ n \in Nat
  BY Flows DEF StageInv
<1>2. todo' = stages /\ outcome' = "running" /\ again' = <<>> /\ Left' = Range(stages) /\ Running'
  BY DEF Call, Left, Running
<1>3. w' = w /\ n' = n
  BY Still
<1>4. DOMAIN work' = BundleFields /\ (work.steps)' = <<>> /\ (work.verification)' = None
  BY Blanks DEF Call, Blank, BundleFields
<1>5. Progress'
  BY <1>1, <1>2, <1>3, <1>4, Empty DEF Progress, Complete
<1> QED BY <1>1, <1>2, <1>4, <1>5, Empty DEF StageInv, Complete, IsSeq

LEMMA StageExecute ==
  ASSUME StageInv, ExecuteStep
  PROVE  /\ StageInv' /\ "bind" \notin Left
         /\ \E flawed \in BOOLEAN :
              /\ Occurs(flawed)
              /\ work' = [work EXCEPT !.steps = Append(@, Called(@, Identity(occurrence + 1), flawed))]
<1>1. /\ todo # <<>> /\ Head(todo) = "execute" /\ Len(work.steps) < n /\ again' = again
      /\ UNCHANGED <<kind, todo, outcome, sessions>>
  BY DEF ExecuteStep, Stage, Occurs
<1>2. PICK flawed \in BOOLEAN :
        /\ Occurs(flawed)
        /\ work' = [work EXCEPT !.steps = Append(@, Called(@, Identity(occurrence + 1), flawed))]
  BY DEF ExecuteStep
<1>3. PICK call : work' = [work EXCEPT !.steps = Append(@, call)]
  BY <1>2
<1>4. /\ Running /\ Progress /\ DOMAIN work = BundleFields /\ IsSeq(work.steps) /\ "bind" \notin Left
      /\ n \in Nat /\ "execute" \in Left
  BY <1>1, Heads, Flows DEF StageInv, Precedes
<1>5. /\ DOMAIN work' = BundleFields /\ (work.steps)' = Append(work.steps, call)
      /\ (work.verification)' = work.verification
  BY <1>3, <1>4 DEF BundleFields
<1>6. IsSeq((work.steps)') /\ Len((work.steps)') = Len(work.steps) + 1 /\ Len(work.steps) \in Nat
  BY <1>4, <1>5, Appended, Sequences
<1>7. Left' = Left /\ w' = w /\ n' = n /\ Running'
  BY <1>1, <1>4, Still DEF Left, Running
<1>8. Progress'
  BY <1>1, <1>4, <1>5, <1>6, <1>7 DEF Progress
<1>9. StageInv'
  BY <1>1, <1>4, <1>5, <1>6, <1>7, <1>8 DEF StageInv, IsSeq
<1> QED BY <1>2, <1>4, <1>9

LEMMA StageAgain ==
  ASSUME StageInv, AgainStep
  PROVE  /\ StageInv' /\ "bind" \notin Left /\ work' = work /\ w' = w /\ Len(again) < n
         /\ Verified(again) /\ todo # <<>> /\ Head(todo) \in {"rerun", "reproduce"}
         /\ \E flawed \in BOOLEAN : \E exec :
              /\ Occurs(flawed)
              /\ again' = Append(again, Called(again, exec, flawed))
              /\ Head(todo) = "reproduce" => exec = Identity(occurrence + 1)
              /\ Head(todo) = "rerun" => exec = Rerun.steps[Len(again) + 1].exec
<1>1. /\ todo # <<>> /\ Head(todo) \in {"rerun", "reproduce"} /\ Len(again) < n /\ work' = work
      /\ UNCHANGED <<kind, todo, outcome, sessions>> /\ Verified(again)
  BY DEF AgainStep, Stage, Occurs
<1>2. PICK flawed \in BOOLEAN :
        /\ Occurs(flawed)
        /\ again' = Append(again, Called(again, IF Stage("reproduce") THEN Identity(occurrence + 1)
                                               ELSE Rerun.steps[Len(again) + 1].exec, flawed))
  BY DEF AgainStep
<1>3. PICK exec : /\ again' = Append(again, Called(again, exec, flawed))
                  /\ Head(todo) = "reproduce" => exec = Identity(occurrence + 1)
                  /\ Head(todo) = "rerun" => exec = Rerun.steps[Len(again) + 1].exec
  BY <1>1, <1>2 DEF Stage
<1>4. PICK call : again' = Append(again, call)
  BY <1>2
<1>5. /\ Running /\ Progress /\ IsSeq(again) /\ "bind" \notin Left
      /\ n \in Nat /\ Head(todo) \in Left
  BY <1>1, Heads, Flows DEF StageInv, Precedes
<1>6. IsSeq(again') /\ Len(again') = Len(again) + 1 /\ Len(again) \in Nat
  BY <1>4, <1>5, Appended, Sequences
<1>7. Left' = Left /\ w' = w /\ n' = n /\ Running'
  BY <1>1, <1>5, Still DEF Left, Running
<1>8. Progress'
  BY <1>1, <1>5, <1>6, <1>7 DEF Progress
<1>9. StageInv'
  BY <1>1, <1>5, <1>6, <1>7, <1>8 DEF StageInv, IsSeq
<1> QED BY <1>1, <1>2, <1>3, <1>5, <1>7, <1>9

\* What Verify does to the bundle.
LEMMA Verifies ==
  ASSUME DOMAIN work = BundleFields, NEW steps, Verify(steps)
  PROVE  /\ DOMAIN work' = BundleFields /\ (work.steps)' = work.steps /\ (work.verification)' # None
         /\ (work.verification.again)' = steps
         /\ \A part \in BundleFields \ {"verification"} : work'[part] = work[part]
<1>1. [subject |-> Digest(work), again |-> steps] # None
  <2>1. DOMAIN [subject |-> Digest(work), again |-> steps] # DOMAIN None
    BY DEF None
  <2> QED BY <2>1
<1> QED BY <1>1 DEF Verify, BundleFields

LEMMA StageReturn ==
  ASSUME StageInv, Return
  PROVE  /\ StageInv' /\ ~Running' /\ Running /\ Progress /\ Left = {} /\ w' = w /\ n' = n
         /\ sessions' = Append(sessions, work) /\ Len(sessions) \in Nat
         /\ Len(sessions') = Len(sessions) + 1 /\ sessions'[Len(sessions) + 1] = work
         /\ \A k \in 1..Len(sessions) : sessions'[k] = sessions[k]
<1>1. /\ outcome = "running" /\ todo = <<>> /\ sessions' = Append(sessions, work) /\ outcome' = "returned"
      /\ work' = Blank /\ again' = <<>> /\ kind' = kind /\ todo' = <<>>
  BY DEF Return
<1>2. IsSeq(sessions') /\ Len(sessions) \in Nat
  BY <1>1, Appended, Sequences DEF StageInv
<1>3. StageInv' /\ ~Running'
  BY <1>1, <1>2, Blanks, Empty DEF StageInv, Running, IsSeq
<1>4. Running /\ Progress /\ Left = {} /\ w' = w /\ n' = n
  BY <1>1, Blanks, Still DEF StageInv, Running, Left
<1> QED BY <1>1, <1>2, <1>3, <1>4, Appended DEF StageInv

LEMMA StageUpgrade ==
  ASSUME StageInv, Upgrade
  PROVE  StageInv' /\ Left' = Left /\ w' = w /\ n' = n /\ Running' = Running
<1>1. UNCHANGED <<kind, todo, work, again, outcome, sessions>>
  BY DEF Upgrade, callVars
<1>2. Left' = Left /\ w' = w /\ n' = n /\ Running' = Running
  BY <1>1, Still DEF Left, Running
<1> QED BY <1>1, <1>2 DEF StageInv, Progress, IsSeq

LEMMA StageSame ==
  ASSUME StageInv, UNCHANGED vars
  PROVE  StageInv' /\ Left' = Left /\ w' = w /\ n' = n /\ Running' = Running
<1>1. UNCHANGED <<kind, todo, work, again, outcome, sessions>>
  BY DEF vars, callVars
<1>2. Left' = Left /\ w' = w /\ n' = n /\ Running' = Running
  BY <1>1, Still DEF Left, Running
<1> QED BY <1>1, <1>2 DEF StageInv, Progress, IsSeq

\* A call begins.
Begins ==
  /\ \E stages \in {w.create, w.replay} : \E source, up, b : Call(stages, source, up, b)
  /\ UNCHANGED <<kind, sessions, version, flaws>>
LEMMA Begun == (\E source, up : Create(source, up)) \/ ReplayRetained \/ ReplayMixed \/ ReplayEdited => Begins
<1>1. ASSUME NEW source, NEW up, Create(source, up)
      PROVE  Begins
  BY <1>1 DEF Create, Begins
<1>2. ASSUME NEW b, NEW cost, Replay(b, cost)
      PROVE  Begins
  BY <1>2 DEF Replay, Begins
<1>3. ASSUME ReplayMixed
      PROVE  \E b, cost : Replay(b, cost)
  BY <1>3 DEF ReplayMixed
<1>4. ASSUME ReplayEdited
      PROVE  \E b, cost : Replay(b, cost)
  BY <1>4 DEF ReplayEdited
<1> QED BY <1>1, <1>2, <1>3, <1>4 DEF ReplayRetained

LEMMA StageStep == StageInv /\ [Next]_vars => StageInv'
<1> SUFFICES ASSUME StageInv, [Next]_vars
             PROVE  StageInv'
  OBVIOUS
<1>1. CASE (\E source, up : Create(source, up)) \/ ReplayRetained \/ ReplayMixed \/ ReplayEdited
  BY <1>1, Begun, StageCall DEF Begins
<1>2. CASE Inspect \/ Select \/ Compare \/ Match \/ Validate
  BY <1>2, StageDecide DEF Inspect, Select, Compare, Match, Validate
<1>3. CASE ReplayUpstream
  <2>1. CASE Refuse("upstream")
    BY <1>3, <2>1, StageRefuse DEF ReplayUpstream
  <2>2. CASE work' = [work EXCEPT !.pair = work.up] /\ Done /\ UNCHANGED <<again, bound, replayed, outcome, occurrence>>
    <3>1. DOMAIN work' = BundleFields /\ (work.steps)' = work.steps /\ (work.verification)' = work.verification
      BY <2>2 DEF StageInv, BundleFields
    <3> QED BY <1>3, <2>2, <3>1, StageDone DEF ReplayUpstream, Stage
  <2> QED BY <1>3, <2>1, <2>2 DEF ReplayUpstream
<1>4. CASE Bind
  <2>1. CASE Refuse("runtime")
    BY <1>4, <2>1, StageRefuse DEF Bind
  <2>2. CASE Done /\ UNCHANGED <<work, again, replayed, outcome, occurrence>>
    <3>1. DOMAIN work = BundleFields
      BY DEF StageInv
    <3> QED BY <1>4, <2>2, <3>1, StageDone DEF Bind, Stage
  <2> QED BY <1>4, <2>1, <2>2 DEF Bind
<1>5. CASE ExecuteStep
  BY <1>5, StageExecute
<1>6. CASE ExecuteEnd
  <2>1. /\ todo # <<>> /\ Head(todo) = "execute" /\ Len(work.steps) = n
        /\ Done /\ UNCHANGED <<kind, again, outcome, sessions>>
    BY <1>6 DEF ExecuteEnd, Stage
  <2>2. DOMAIN work' = BundleFields /\ (work.steps)' = work.steps /\ (work.verification)' = work.verification
    BY <1>6 DEF ExecuteEnd, StageInv, BundleFields
  <2> QED BY <2>1, <2>2, StageDone DEF StageInv
<1>7. CASE AgainStep
  BY <1>7, StageAgain
<1>8. CASE AgainEnd
  BY <1>8, StageDone DEF AgainEnd, Stage, StageInv
<1>9. CASE ProviderChanged \/ Unreproduced
  BY <1>9, StageRefuse DEF ProviderChanged, Unreproduced
<1>10. ASSUME NEW steps, Verify(steps), Stage("verify") \/ Stage("attest")
       PROVE  StageInv'
  <2>1. DOMAIN work' = BundleFields /\ (work.steps)' = work.steps /\ (work.verification)' # None
    BY <1>10, Verifies DEF StageInv
  <2> QED BY <1>10, <2>1, StageDone DEF Verify, Stage, StageInv
<1>11. CASE VerifyRerun \/ VerifyReproduction
  BY <1>10, <1>11 DEF VerifyRerun, VerifyReproduction
<1>12. CASE AddReceipt
  <2>1. todo # <<>> /\ Head(todo) = "receipt" /\ Done /\ UNCHANGED <<kind, again, outcome, sessions>>
    BY <1>12 DEF AddReceipt, Stage
  <2>2. DOMAIN work' = BundleFields /\ (work.steps)' = work.steps /\ (work.verification)' = work.verification
    BY <1>12 DEF AddReceipt, StageInv, BundleFields
  <2> QED BY <2>1, <2>2, StageDone DEF StageInv
<1>13. CASE Return
  BY <1>13, StageReturn
<1>14. CASE Upgrade
  BY <1>14, StageUpgrade
<1>15. CASE UNCHANGED vars
  BY <1>15, StageSame
<1> QED
  BY <1>1, <1>2, <1>3, <1>4, <1>5, <1>6, <1>7, <1>8, <1>9, <1>11, <1>12, <1>13, <1>14, <1>15 DEF Next, Stages

-----------------------------------------------------------------------------
(* Proofs: what computed the results. *)

LEMMA RanCalled ==
  ASSUME kind \in DOMAIN Catalog, NEW done, IsSeq(done), Len(done) < n, Verified(done),
         \A r \in w.inprocess \cap Roles(w) : bound[r] = version[r],
         Ran(w, bound, done), NEW exec, NEW flawed
  PROVE  Ran(w, bound, Append(done, Called(done, exec, flawed)))
<1> DEFINE i == Len(done) + 1
           call == Called(done, exec, flawed)
<1>1. i \in 1..n /\ i # n + 1 /\ Index(w) = 1..n /\ Len(done) \in Nat
  BY Flows, Sequences
<1>2. w.steps[i].roles \subseteq Roles(w)
  BY <1>1 DEF Roles
<1>3. w.steps[i].roles \subseteq Asked(done)
  BY <1>1, <1>2 DEF Asked
<1>4. \A r \in w.steps[i].roles \cap w.verified : version[r] = bound[r]
  BY <1>3 DEF Verified, Unchanged
<1>5. \A r \in w.steps[i].roles \cap (w.verified \cup w.inprocess) : version[r] = bound[r]
  BY <1>2, <1>4
<1>6. \A r \in w.steps[i].roles : call.result.ran[r] = version[r]
  BY DEF Called
<1> HIDE DEF call
<1>7. /\ Len(Append(done, call)) = i /\ Append(done, call)[i] = call
      /\ \A j \in 1..Len(done) : Append(done, call)[j] = done[j]
  BY Appended
<1>8. \A j \in 1..i : j = i \/ j \in 1..Len(done)
  BY <1>1
<1> HIDE DEF i
<1>9. ASSUME NEW j \in 1..i, NEW r \in w.steps[j].roles \cap (w.verified \cup w.inprocess)
      PROVE  Append(done, call)[j].result.ran[r] = bound[r]
  <2>1. CASE j = i
    BY <1>5, <1>6, <1>7, <1>9, <2>1
  <2>2. CASE j \in 1..Len(done)
    BY <1>7, <1>9, <2>2 DEF Ran
  <2> QED BY <1>8, <2>1, <2>2
<1> QED BY <1>7, <1>9 DEF Ran, call

LEMMA RanNothing == \A flow, runtime : Ran(flow, runtime, <<>>) /\ Retains(flow, runtime, <<>>)
BY Empty DEF Ran, Retains

LEMMA KeptStill == RuntimeKept /\ kind' = kind /\ sessions' = sessions => RuntimeKept'
BY Still DEF RuntimeKept, IsSeq

LEMMA RuntimeDone ==
  ASSUME StageInv, RuntimeInv, todo # <<>>, Done, UNCHANGED <<kind, sessions, version, bound>>,
         Head(todo) # "bind", work.steps = (work.steps)',
         \/ Head(todo) = "execute" /\ (work.runtime)' = bound
         \/ Head(todo) # "execute" /\ (work.runtime)' = work.runtime,
         (work.verification)' = work.verification \/ Retains(w, bound, (work.verification.again)'),
         Ran(w, bound, again')
  PROVE  RuntimeInv'
<1>1. Running /\ RuntimeGoing /\ Left = {Head(todo)} \cup Range(Tail(todo))
  BY Heads DEF RuntimeInv
<1>2. Left' = Range(Tail(todo)) /\ w' = w
  BY Still DEF Left, Done
<1>3. RuntimeGoing'
  BY <1>1, <1>2 DEF RuntimeGoing
<1> QED BY <1>3, KeptStill DEF RuntimeInv

LEMMA RuntimeStill ==
  ASSUME RuntimeInv, ~Running', UNCHANGED <<kind, sessions>>
  PROVE  RuntimeInv'
BY KeptStill DEF RuntimeInv

LEMMA RuntimeDecide ==
  ASSUME StageInv, RuntimeInv, NEW name, name \notin {"verify", "attest", "execute", "bind"},
         NEW why, why # "running", NEW holds, Decide(name, holds, why)
  PROVE  RuntimeInv'
<1>1. CASE Refuse(why)
  BY <1>1, StageRefuse, RuntimeStill DEF Decide
<1>2. CASE Done /\ UNCHANGED <<work, again, bound, replayed, outcome, occurrence>>
  <2>1. todo # <<>> /\ Head(todo) = name /\ UNCHANGED <<kind, sessions, version>>
    BY DEF Decide, Stage, envVars
  <2>2. Ran(w, bound, again)
    BY <2>1, Heads DEF RuntimeInv, RuntimeGoing
  <2> QED BY <1>2, <2>1, <2>2, RuntimeDone
<1> QED BY <1>1, <1>2 DEF Decide

LEMMA RuntimeStep == StageInv /\ RuntimeInv /\ [Next]_vars => RuntimeInv'
<1> SUFFICES ASSUME StageInv, RuntimeInv, [Next]_vars
             PROVE  RuntimeInv'
  OBVIOUS
<1>1. CASE (\E source, up : Create(source, up)) \/ ReplayRetained \/ ReplayMixed \/ ReplayEdited
  <2>1. PICK stages \in {w.create, w.replay} : \E source, up, b : Call(stages, source, up, b)
    BY <1>1, Begun DEF Begins
  <2>2. PICK source, up, b : Call(stages, source, up, b)
    BY <2>1
  <2>3. UNCHANGED <<kind, sessions>>
    BY <1>1, Begun DEF Begins
  <2>4. Left' = Range(stages) /\ "bind" \in Left' /\ "execute" \in Left'
    BY <2>2, Flows DEF StageInv, Call, Left, Complete
  <2>5. (work.steps)' = <<>> /\ again' = <<>> /\ (work.verification)' = None
    BY <2>2, Blanks DEF Call, Blank
  <2>6. RuntimeGoing'
    BY <2>4, <2>5, RanNothing DEF RuntimeGoing
  <2> QED BY <2>3, <2>6, KeptStill DEF RuntimeInv
<1>2. CASE Inspect \/ Select \/ Compare \/ Match \/ Validate
  BY <1>2, RuntimeDecide DEF Inspect, Select, Compare, Match, Validate
<1>3. CASE ReplayUpstream
  <2>1. CASE Refuse("upstream")
    BY <1>3, <2>1, StageRefuse, RuntimeStill DEF ReplayUpstream
  <2>2. CASE work' = [work EXCEPT !.pair = work.up] /\ Done /\ UNCHANGED <<again, bound, replayed, outcome, occurrence>>
    <3>1. /\ (work.steps)' = work.steps /\ (work.verification)' = work.verification
          /\ (work.runtime)' = work.runtime
      BY <2>2 DEF StageInv, BundleFields
    <3>2. todo # <<>> /\ Head(todo) = "upstream" /\ UNCHANGED <<kind, sessions, version>>
      BY <1>3 DEF ReplayUpstream, Stage, envVars
    <3>3. Ran(w, bound, again)
      BY <3>2, Heads DEF RuntimeInv, RuntimeGoing
    <3> QED BY <2>2, <3>1, <3>2, <3>3, RuntimeDone
  <2> QED BY <1>3, <2>1, <2>2 DEF ReplayUpstream
<1>4. CASE Bind
  <2>1. CASE Refuse("runtime")
    BY <1>4, <2>1, StageRefuse, RuntimeStill DEF Bind
  <2>2. CASE bound' = version /\ Done /\ UNCHANGED <<work, again, replayed, outcome, occurrence>>
    <3>1. todo # <<>> /\ Head(todo) = "bind" /\ UNCHANGED <<kind, sessions, version>>
      BY <1>4 DEF Bind, Stage, envVars
    <3>2. /\ Running /\ Progress /\ Left = {Head(todo)} \cup Range(Tail(todo))
      BY <3>1, Heads
    <3>3. "execute" \in Left /\ again = <<>> /\ work.steps = <<>> /\ work.verification = None
      BY <3>1, <3>2 DEF Progress
    <3>4. Left' = Range(Tail(todo)) /\ w' = w /\ "execute" \in Left'
      BY <2>2, <3>1, <3>2, <3>3, Still DEF Left, Done
    <3>5. RuntimeGoing'
      BY <2>2, <3>1, <3>3, <3>4, RanNothing DEF RuntimeGoing
    <3> QED BY <3>1, <3>5, KeptStill DEF RuntimeInv
  <2> QED BY <1>4, <2>1, <2>2 DEF Bind
<1>5. CASE ExecuteStep
  <2>1. PICK flawed \in BOOLEAN :
          /\ Occurs(flawed)
          /\ work' = [work EXCEPT !.steps = Append(@, Called(@, Identity(occurrence + 1), flawed))]
    BY <1>5, StageExecute
  <2> DEFINE steps == Append(work.steps, Called(work.steps, Identity(occurrence + 1), flawed))
  <2>2. work' = [work EXCEPT !.steps = steps]
    BY <2>1
  <2>3. /\ todo # <<>> /\ Head(todo) = "execute" /\ again' = again /\ Len(work.steps) < n
        /\ UNCHANGED <<kind, todo, bound, outcome, sessions, version>> /\ Verified(work.steps)
    BY <1>5 DEF ExecuteStep, Stage, Occurs
  <2>4. Running /\ RuntimeGoing /\ "bind" \notin Left /\ "execute" \in Left /\ IsSeq(work.steps)
    BY <1>5, <2>3, StageExecute, Heads DEF RuntimeInv, StageInv
  <2>5. \A r \in w.inprocess \cap Roles(w) : bound[r] = version[r]
    BY <2>4 DEF RuntimeGoing
  <2>6. Ran(w, bound, steps)
    BY <2>3, <2>4, <2>5, RanCalled DEF RuntimeGoing, StageInv
  <2> HIDE DEF steps
  <2>7. (work.steps)' = steps /\ (work.verification)' = work.verification
    BY <2>2 DEF StageInv, BundleFields
  <2>8. Left' = Left /\ w' = w
    BY <2>3, Still DEF Left
  <2>9. RuntimeGoing'
    BY <2>3, <2>4, <2>6, <2>7, <2>8 DEF RuntimeGoing
  <2> QED BY <2>3, <2>9, KeptStill DEF RuntimeInv
<1>6. CASE ExecuteEnd
  <2>1. /\ todo # <<>> /\ Head(todo) = "execute" /\ Len(work.steps) = n
        /\ Done /\ UNCHANGED <<kind, again, bound, outcome, sessions, version>>
    BY <1>6 DEF ExecuteEnd, Stage, envVars
  <2>2. /\ (work.steps)' = work.steps /\ (work.verification)' = work.verification
        /\ (work.runtime)' = bound
    BY <1>6 DEF ExecuteEnd, StageInv, BundleFields
  <2>3. Ran(w, bound, again)
    BY <2>1, Heads DEF RuntimeInv, RuntimeGoing
  <2> QED BY <2>1, <2>2, <2>3, RuntimeDone
<1>7. CASE AgainStep
  <2>1. /\ "bind" \notin Left /\ work' = work /\ w' = w /\ Len(again) < n
        /\ Verified(again) /\ todo # <<>> /\ Head(todo) \in {"rerun", "reproduce"}
        /\ \E flawed \in BOOLEAN : \E exec :
             Occurs(flawed) /\ again' = Append(again, Called(again, exec, flawed))
    BY <1>7, StageAgain
  <2>2. PICK flawed \in BOOLEAN : \E exec : Occurs(flawed) /\ again' = Append(again, Called(again, exec, flawed))
    BY <2>1
  <2>3. PICK exec : Occurs(flawed) /\ again' = Append(again, Called(again, exec, flawed))
    BY <2>2
  <2>4. UNCHANGED <<kind, todo, bound, outcome, sessions, version>>
    BY <2>3 DEF Occurs
  <2>5. Running /\ RuntimeGoing /\ IsSeq(again)
    BY <2>1, Heads DEF RuntimeInv, StageInv
  <2>6. \A r \in w.inprocess \cap Roles(w) : bound[r] = version[r]
    BY <2>1, <2>5 DEF RuntimeGoing
  <2>7. Ran(w, bound, again')
    BY <2>1, <2>3, <2>5, <2>6, RanCalled DEF RuntimeGoing, StageInv
  <2>8. Left' = Left
    BY <2>4 DEF Left
  <2>9. RuntimeGoing'
    BY <2>1, <2>4, <2>5, <2>7, <2>8 DEF RuntimeGoing
  <2> QED BY <2>4, <2>9, KeptStill DEF RuntimeInv
<1>8. CASE AgainEnd
  <2>1. /\ todo # <<>> /\ Head(todo) \in {"rerun", "reproduce"} /\ Done
        /\ UNCHANGED <<kind, work, again, bound, outcome, sessions, version>>
    BY <1>8 DEF AgainEnd, Stage, envVars
  <2>2. Ran(w, bound, again)
    BY <2>1, Heads DEF RuntimeInv, RuntimeGoing
  <2> QED BY <2>1, <2>2, RuntimeDone
<1>9. CASE ProviderChanged \/ Unreproduced
  BY <1>9, StageRefuse, RuntimeStill DEF ProviderChanged, Unreproduced
<1>10. ASSUME NEW steps, Verify(steps), Stage("verify") \/ Stage("attest"), Retains(w, bound, steps)
       PROVE  RuntimeInv'
  <2>1. /\ (work.steps)' = work.steps /\ (work.verification.again)' = steps
        /\ (work.runtime)' = work.runtime
    BY <1>10, Verifies DEF StageInv, BundleFields
  <2>2. /\ todo # <<>> /\ Head(todo) \in {"verify", "attest"} /\ Done /\ again' = <<>>
        /\ UNCHANGED <<kind, bound, outcome, sessions, version>>
    BY <1>10 DEF Verify, Stage, envVars
  <2> QED BY <1>10, <2>1, <2>2, RuntimeDone, RanNothing
<1>11. CASE VerifyRerun
  BY <1>10, <1>11, RanNothing DEF VerifyRerun
<1>12. CASE VerifyReproduction
  <2>1. todo # <<>> /\ Head(todo) = "attest" /\ Verify(again)
    BY <1>12 DEF VerifyReproduction, Stage
  <2>2. Running /\ Progress /\ Left = {Head(todo)} \cup Range(Tail(todo)) /\ IsSeq(again) /\ RuntimeGoing
    BY <2>1, Heads DEF StageInv, RuntimeInv
  <2>3. "reproduce" \notin Left /\ "rerun" \notin Left
    BY <2>1, <2>2, Heads DEF Precedes
  <2>4. Len(again) = n
    BY <2>1, <2>2, <2>3 DEF Progress
  <2>5. Retains(w, bound, again)
    BY <2>2, <2>4 DEF Retains, RuntimeGoing, n
  <2> QED BY <1>10, <1>12, <2>1, <2>5 DEF VerifyReproduction
<1>13. CASE AddReceipt
  <2>1. /\ todo # <<>> /\ Head(todo) = "receipt" /\ Done
        /\ UNCHANGED <<kind, again, bound, outcome, sessions, version>>
    BY <1>13 DEF AddReceipt, Stage, envVars
  <2>2. /\ (work.steps)' = work.steps /\ (work.verification)' = work.verification
        /\ (work.runtime)' = work.runtime
    BY <1>13 DEF AddReceipt, StageInv, BundleFields
  <2>3. Ran(w, bound, again)
    BY <2>1, Heads DEF RuntimeInv, RuntimeGoing
  <2> QED BY <2>1, <2>2, <2>3, RuntimeDone
<1>14. CASE Return
  <2>1. /\ ~Running' /\ Running /\ Progress /\ Left = {} /\ w' = w /\ n' = n
        /\ Len(sessions) \in Nat
        /\ Len(sessions') = Len(sessions) + 1 /\ sessions'[Len(sessions) + 1] = work
        /\ \A k \in 1..Len(sessions) : sessions'[k] = sessions[k]
    BY <1>14, StageReturn
  <2>2. /\ IsSeq(work.steps) /\ Len(work.steps) = n /\ work.verification # None
        /\ RuntimeGoing /\ work.runtime = bound
    BY <2>1 DEF StageInv, Progress, RuntimeInv, RuntimeGoing
  <2>3. \A k \in 1..Len(sessions') : k \in 1..Len(sessions) \/ k = Len(sessions) + 1
    BY <2>1
  <2>4. ASSUME NEW k \in 1..Len(sessions')
        PROVE  /\ IsSeq(sessions'[k].steps) /\ Len(sessions'[k].steps) = n
               /\ Ran(w, sessions'[k].runtime, sessions'[k].steps)
               /\ sessions'[k].verification # None
               /\ Retains(w, sessions'[k].runtime, sessions'[k].verification.again)
    <3>1. CASE k \in 1..Len(sessions)
      BY <2>1, <3>1 DEF RuntimeInv, RuntimeKept
    <3>2. CASE k = Len(sessions) + 1
      BY <2>1, <2>2, <3>2 DEF RuntimeGoing
    <3> QED BY <2>3, <3>1, <3>2
  <2>5. RuntimeKept'
    BY <2>1, <2>4 DEF RuntimeKept, IsSeq
  <2> QED BY <2>1, <2>5 DEF RuntimeInv
<1>15. CASE Upgrade
  <2>1. /\ Left' = Left /\ w' = w /\ Running' = Running
        /\ UNCHANGED <<kind, work, again, bound, sessions>>
    BY <1>15, StageUpgrade DEF Upgrade, callVars
  <2>2. PICK r \in Roles(w) : /\ r \in w.inprocess => Idle
                             /\ version' = [version EXCEPT ![r] = 1]
    BY <1>15 DEF Upgrade
  <2>3. Running => \A q \in w.inprocess : version'[q] = version[q]
    BY <2>2 DEF Idle, Running
  <2>4. Running' => RuntimeGoing'
    BY <2>1, <2>3 DEF RuntimeInv, RuntimeGoing
  <2> QED BY <2>1, <2>4, KeptStill DEF RuntimeInv
<1>16. CASE UNCHANGED vars
  <2>1. UNCHANGED <<kind, callVars, sessions, version>>
    BY <1>16 DEF vars, envVars
  <2>2. Left' = Left /\ w' = w /\ Running' = Running
    BY <1>16, StageSame
  <2>3. Running' => RuntimeGoing'
    BY <2>1, <2>2 DEF RuntimeInv, RuntimeGoing, callVars
  <2> QED BY <2>1, <2>3, KeptStill DEF RuntimeInv
<1> QED
  BY <1>1, <1>2, <1>3, <1>4, <1>5, <1>6, <1>7, <1>8, <1>9, <1>11, <1>12, <1>13, <1>14, <1>15, <1>16
  DEF Next, Stages

LEMMA Initially == Init => StageInv /\ RuntimeInv /\ ~Running
<1> SUFFICES ASSUME Init
             PROVE  StageInv /\ RuntimeInv /\ ~Running
  OBVIOUS
<1>1. /\ kind \in DOMAIN Catalog /\ todo = <<>> /\ work = Blank /\ again = <<>> /\ sessions = <<>>
      /\ outcome = "idle"
  BY DEF Init
<1>2. ~Running /\ StageInv
  BY <1>1, Blanks, Empty DEF Running, StageInv, IsSeq
<1>3. 1..Len(sessions) = {}
  BY <1>1
<1> QED BY <1>2, <1>3 DEF RuntimeInv, RuntimeKept

LEMMA StageAlways == Spec => []StageInv
<1>1. Init => StageInv
  BY Initially
<1> QED BY <1>1, StageStep, PTL DEF Spec

LEMMA RuntimeAlways == Spec => []RuntimeInv
<1>1. Init => RuntimeInv
  BY Initially
<1>2. StageInv /\ StageInv' /\ RuntimeInv /\ [Next]_vars => RuntimeInv'
  BY RuntimeStep
<1> QED BY <1>1, <1>2, StageAlways, PTL DEF Spec

\* The runtime a session names computed its results, and those of the reproduction it
\* retains: a program asked around each call still had the identity bound to it, and one
\* that is code of this process cannot change during the call.
THEOREM RuntimeCorrect == Spec => []RuntimeNamed
<1>1. ASSUME StageInv, RuntimeInv
      PROVE  RuntimeNamed
  <2> SUFFICES ASSUME NEW k \in Returned, NEW i \in Index(w), NEW r \in w.verified \cup w.inprocess,
                      r \in w.steps[i].roles
               PROVE  /\ sessions[k].steps[i].result.ran[r] = sessions[k].runtime[r]
                      /\ sessions[k].verification.again # <<>> =>
                           sessions[k].verification.again[i].result.ran[r] = sessions[k].runtime[r]
    BY DEF RuntimeNamed
  <2>1. k \in 1..Len(sessions) /\ i \in 1..n /\ n = Len(w.steps)
    BY <1>1, Flows, Sequences DEF Returned, StageInv, n
  <2>2. r \in w.steps[i].roles \cap (w.verified \cup w.inprocess)
    OBVIOUS
  <2>3. /\ Len(sessions[k].steps) = n /\ Ran(w, sessions[k].runtime, sessions[k].steps)
        /\ Retains(w, sessions[k].runtime, sessions[k].verification.again)
    BY <1>1, <2>1 DEF RuntimeInv, RuntimeKept
  <2> QED BY <2>1, <2>2, <2>3 DEF Retains, Ran
<1> QED BY <1>1, StageAlways, RuntimeAlways, PTL

-----------------------------------------------------------------------------
(* Proofs: occurrences. *)

LEMMA NoneDrawn == \A c, k, steps : Drawn(c, k, <<>>) /\ Apart(steps, <<>>) /\ Apart(<<>>, steps)
<1>1. Occurrences(<<>>) = {}
  BY DEF Occurrences
<1> QED BY <1>1 DEF Drawn, Apart

LEMMA DrawnMore ==
  ASSUME NEW c, NEW k \in Nat, NEW m \in Nat, k <= m, NEW steps, Drawn(c, k, steps)
  PROVE  Drawn(c, m, steps)
BY DEF Drawn

LEMMA OccurrencesCalled ==
  ASSUME NEW done, IsSeq(done), NEW call, NEW o \in Occurrences(Append(done, call))
  PROVE  o \in Occurrences(done) \/ (o \in {call.exec, call.result.native} /\ o # None)
<1> DEFINE steps == Append(done, call)
<1>1. /\ IsSeq(steps) /\ Len(steps) = Len(done) + 1 /\ steps[Len(done) + 1] = call
      /\ \A i \in 1..Len(done) : steps[i] = done[i]
  BY Appended
<1>2. DOMAIN steps = 1..Len(done) + 1 /\ DOMAIN done = 1..Len(done) /\ Len(done) \in Nat
  BY <1>1, Sequences
<1> HIDE DEF steps
<1>3. PICK i \in DOMAIN steps : o \in {steps[i].exec, steps[i].result.native} /\ o # None
  <2>1. o \in Occurrences(steps)
    BY DEF steps
  <2> QED BY <2>1 DEF Occurrences
<1>4. CASE i = Len(done) + 1
  BY <1>1, <1>3, <1>4
<1>5. CASE i \in DOMAIN done
  <2>1. o \in {done[i].exec, done[i].result.native} /\ o # None
    BY <1>1, <1>2, <1>3, <1>5
  <2> QED BY <1>5, <2>1 DEF Occurrences
<1> QED BY <1>2, <1>4, <1>5

\* The identities of a call to a provider are not among those drawn before it.
LEMMA DrawnCalled ==
  ASSUME NEW c, NEW k \in Nat, NEW done, IsSeq(done), NEW call,
         call.exec = <<c, k + 1>>, call.result.native \in {<<c, k + 2>>, None},
         Drawn(c, k, done)
  PROVE  /\ Drawn(c, k + 2, Append(done, call))
         /\ \A others : Drawn(c, k, others) /\ Apart(done, others) => Apart(Append(done, call), others)
<1>1. ASSUME NEW o \in Occurrences(Append(done, call))
      PROVE  o \in Occurrences(done) \/ o = <<c, k + 1>> \/ o = <<c, k + 2>>
  BY <1>1, OccurrencesCalled
<1>2. Drawn(c, k + 2, Append(done, call))
  BY <1>1 DEF Drawn
<1>3. ASSUME NEW others, Drawn(c, k, others), Apart(done, others)
      PROVE  Apart(Append(done, call), others)
  <2>1. ASSUME NEW o \in Occurrences(others)
        PROVE  o # <<c, k + 1>> /\ o # <<c, k + 2>>
    BY <1>3, <2>1 DEF Drawn
  <2> QED BY <1>1, <1>3, <2>1 DEF Apart
<1> QED BY <1>2, <1>3

LEMMA OccurrenceStill ==
  ASSUME OccurrenceInv, sessions' = sessions, occurrence' \in Nat, ~Running'
  PROVE  OccurrenceInv'
BY DEF OccurrenceInv, OccurrenceKept

LEMMA OccurrenceDone ==
  ASSUME StageInv, OccurrenceInv, todo # <<>>, Done, sessions' = sessions,
         (work.steps)' = work.steps, occurrence' \in Nat, occurrence <= occurrence',
         \/ again' = again /\ (work.verification)' = work.verification
         \/ /\ again' = <<>>
            /\ \/ (work.verification.again)' = <<>>
               \/ "attest" \in Left /\ (work.verification.again)' = again
  PROVE  OccurrenceInv'
<1> DEFINE c == Len(sessions) + 1
<1>1. Running /\ OccurrenceGoing /\ Left = {Head(todo)} \cup Range(Tail(todo)) /\ occurrence \in Nat
  BY Heads DEF OccurrenceInv
<1>2. Left' \subseteq Left /\ c' = c
  BY <1>1 DEF Left, Done
<1>3. Drawn(c, occurrence', work.steps)
  BY <1>1, DrawnMore DEF OccurrenceGoing
<1>4. "attest" \in Left' => Drawn(c, occurrence', again') /\ Apart(work.steps, again')
  BY <1>1, <1>2, DrawnMore, NoneDrawn DEF OccurrenceGoing
<1>5. (work.verification)' # None =>
        Drawn(c, occurrence', (work.verification.again)') /\ Apart(work.steps, (work.verification.again)')
  BY <1>1, <1>2, DrawnMore, NoneDrawn DEF OccurrenceGoing
<1>6. OccurrenceGoing'
  BY <1>2, <1>3, <1>4, <1>5 DEF OccurrenceGoing
<1> QED BY <1>6 DEF OccurrenceInv, OccurrenceKept

LEMMA OccurrenceDecide ==
  ASSUME StageInv, OccurrenceInv, NEW name, NEW why, why # "running", NEW holds, Decide(name, holds, why)
  PROVE  OccurrenceInv'
<1>1. CASE Refuse(why)
  BY <1>1, StageRefuse, OccurrenceStill DEF Decide, Refuse
<1>2. CASE Done /\ UNCHANGED <<work, again, bound, replayed, outcome, occurrence>>
  BY <1>2, OccurrenceDone DEF Decide, Stage, OccurrenceInv
<1> QED BY <1>1, <1>2 DEF Decide

\* The identities that Called draws.
LEMMA CalledDraws ==
  ASSUME NEW done, NEW flawed, NEW exec
  PROVE  /\ Called(done, exec, flawed).exec = exec
         /\ Called(done, exec, flawed).result.native \in {<<Len(sessions) + 1, occurrence + 2>>, None}
BY DEF Called, Identity

LEMMA OccurrenceStep == StageInv /\ OccurrenceInv /\ [Next]_vars => OccurrenceInv'
<1> SUFFICES ASSUME StageInv, OccurrenceInv, [Next]_vars
             PROVE  OccurrenceInv'
  OBVIOUS
<1> DEFINE c == Len(sessions) + 1
<1>1. CASE (\E source, up : Create(source, up)) \/ ReplayRetained \/ ReplayMixed \/ ReplayEdited
  <2>1. PICK stages \in {w.create, w.replay} : \E source, up, b : Call(stages, source, up, b)
    BY <1>1, Begun DEF Begins
  <2>2. PICK source, up, b : Call(stages, source, up, b)
    BY <2>1
  <2>3. sessions' = sessions /\ occurrence' = 0
    BY <1>1, <2>2, Begun DEF Begins, Call
  <2>4. (work.steps)' = <<>> /\ again' = <<>> /\ (work.verification)' = None
    BY <2>2, Blanks DEF Call, Blank
  <2>5. OccurrenceGoing'
    BY <2>4, NoneDrawn DEF OccurrenceGoing
  <2> QED BY <2>3, <2>5 DEF OccurrenceInv, OccurrenceKept
<1>2. CASE Inspect \/ Select \/ Compare \/ Match \/ Validate
  BY <1>2, OccurrenceDecide DEF Inspect, Select, Compare, Match, Validate
<1>3. CASE ReplayUpstream
  <2>1. CASE Refuse("upstream")
    BY <1>3, <2>1, StageRefuse, OccurrenceStill DEF ReplayUpstream, Refuse
  <2>2. CASE work' = [work EXCEPT !.pair = work.up] /\ Done /\ UNCHANGED <<again, bound, replayed, outcome, occurrence>>
    <3>1. (work.steps)' = work.steps /\ (work.verification)' = work.verification
      BY <2>2 DEF StageInv, BundleFields
    <3>2. todo # <<>> /\ sessions' = sessions
      BY <1>3 DEF ReplayUpstream, Stage
    <3> QED BY <2>2, <3>1, <3>2, OccurrenceDone DEF OccurrenceInv
  <2> QED BY <1>3, <2>1, <2>2 DEF ReplayUpstream
<1>4. CASE Bind
  <2>1. CASE Refuse("runtime")
    BY <1>4, <2>1, StageRefuse, OccurrenceStill DEF Bind, Refuse
  <2>2. CASE Done /\ UNCHANGED <<work, again, replayed, outcome, occurrence>>
    BY <1>4, <2>2, OccurrenceDone DEF Bind, Stage, OccurrenceInv
  <2> QED BY <1>4, <2>1, <2>2 DEF Bind
<1>5. CASE ExecuteStep
  <2>1. PICK flawed \in BOOLEAN :
          /\ Occurs(flawed)
          /\ work' = [work EXCEPT !.steps = Append(@, Called(@, Identity(occurrence + 1), flawed))]
    BY <1>5, StageExecute
  <2> DEFINE call == Called(work.steps, Identity(occurrence + 1), flawed)
  <2>2. /\ todo # <<>> /\ Head(todo) = "execute" /\ again' = again
        /\ UNCHANGED <<todo, outcome, sessions>> /\ occurrence' = occurrence + 2
    BY <1>5, <2>1 DEF ExecuteStep, Stage, Occurs
  <2>3. /\ Running /\ OccurrenceGoing /\ IsSeq(work.steps) /\ "execute" \in Left /\ Progress
        /\ occurrence \in Nat
    BY <2>2, Heads DEF OccurrenceInv, StageInv
  <2>4. call.exec = <<c, occurrence + 1>> /\ call.result.native \in {<<c, occurrence + 2>>, None}
    BY CalledDraws DEF Identity
  <2>5. work' = [work EXCEPT !.steps = Append(@, call)]
    BY <2>1
  <2> HIDE DEF call
  <2>6. (work.steps)' = Append(work.steps, call) /\ (work.verification)' = work.verification
    BY <2>5 DEF StageInv, BundleFields
  <2>7. /\ Drawn(c, occurrence + 2, Append(work.steps, call))
        /\ \A others : Drawn(c, occurrence, others) /\ Apart(work.steps, others) =>
             Apart(Append(work.steps, call), others)
    BY <2>3, <2>4, DrawnCalled DEF OccurrenceGoing
  <2>8. "attest" \in Left => Drawn(c, occurrence + 2, again) /\ Apart(Append(work.steps, call), again)
    BY <2>3, <2>7, DrawnMore DEF OccurrenceGoing
  <2>9. (work.verification)' = None
    BY <2>3, <2>6 DEF Progress
  <2>10. Left' = Left
    BY <2>2 DEF Left
  <2>11. OccurrenceGoing'
    BY <2>2, <2>6, <2>7, <2>8, <2>9, <2>10 DEF OccurrenceGoing
  <2> QED BY <2>2, <2>3, <2>11 DEF OccurrenceInv, OccurrenceKept
<1>6. CASE ExecuteEnd
  <2>1. todo # <<>> /\ Done /\ again' = again /\ sessions' = sessions /\ occurrence' = occurrence + 1
    BY <1>6 DEF ExecuteEnd, Stage
  <2>2. (work.steps)' = work.steps /\ (work.verification)' = work.verification
    BY <1>6 DEF ExecuteEnd, StageInv, BundleFields
  <2>3. occurrence' \in Nat /\ occurrence <= occurrence'
    BY <2>1 DEF OccurrenceInv
  <2> QED BY <2>1, <2>2, <2>3, OccurrenceDone
<1>7. CASE AgainStep
  <2>1. /\ work' = work /\ todo # <<>> /\ Head(todo) \in {"rerun", "reproduce"}
        /\ \E flawed \in BOOLEAN : \E exec :
             /\ Occurs(flawed) /\ again' = Append(again, Called(again, exec, flawed))
             /\ Head(todo) = "reproduce" => exec = Identity(occurrence + 1)
    BY <1>7, StageAgain
  <2>2. PICK flawed \in BOOLEAN :
          \E exec : /\ Occurs(flawed) /\ again' = Append(again, Called(again, exec, flawed))
                    /\ Head(todo) = "reproduce" => exec = Identity(occurrence + 1)
    BY <2>1
  <2>3. PICK exec : /\ Occurs(flawed) /\ again' = Append(again, Called(again, exec, flawed))
                    /\ Head(todo) = "reproduce" => exec = Identity(occurrence + 1)
    BY <2>2
  <2> DEFINE call == Called(again, exec, flawed)
  <2>4. UNCHANGED <<todo, outcome, sessions>> /\ occurrence' = occurrence + 2 /\ again' = Append(again, call)
    BY <2>3 DEF Occurs
  <2>5. /\ Running /\ OccurrenceGoing /\ IsSeq(again) /\ Head(todo) \in Left /\ occurrence \in Nat
        /\ {"rerun", "compare", "verify"} \cap Left = {} \/ {"reproduce", "attest"} \cap Left = {}
    BY <2>1, Heads DEF OccurrenceInv, StageInv
  <2>6. "attest" \in Left => Head(todo) = "reproduce"
    BY <2>1, <2>5
  <2>7. "attest" \in Left =>
          call.exec = <<c, occurrence + 1>> /\ call.result.native \in {<<c, occurrence + 2>>, None}
    BY <2>3, <2>6, CalledDraws DEF Identity
  <2> HIDE DEF call
  <2>8. Drawn(c, occurrence + 2, work.steps)
    BY <2>5, DrawnMore DEF OccurrenceGoing
  <2>9. ASSUME "attest" \in Left
        PROVE  Drawn(c, occurrence + 2, Append(again, call)) /\ Apart(work.steps, Append(again, call))
    <3>1. Drawn(c, occurrence, again) /\ Apart(work.steps, again) /\ Apart(again, work.steps)
      BY <2>5, <2>9 DEF OccurrenceGoing, Apart
    <3>2. Drawn(c, occurrence, work.steps)
      BY <2>5 DEF OccurrenceGoing
    <3>3. Drawn(c, occurrence + 2, Append(again, call)) /\ Apart(Append(again, call), work.steps)
      BY <2>5, <2>7, <2>9, <3>1, <3>2, DrawnCalled
    <3> QED BY <3>3 DEF Apart
  <2>10. work.verification # None =>
           /\ Drawn(c, occurrence + 2, work.verification.again)
           /\ Apart(work.steps, work.verification.again)
    BY <2>5, DrawnMore DEF OccurrenceGoing
  <2>11. Left' = Left
    BY <2>4 DEF Left
  <2>12. OccurrenceGoing'
    BY <2>1, <2>4, <2>8, <2>9, <2>10, <2>11 DEF OccurrenceGoing
  <2> QED BY <2>4, <2>5, <2>12 DEF OccurrenceInv, OccurrenceKept
<1>8. CASE AgainEnd
  BY <1>8, OccurrenceDone DEF AgainEnd, Stage, OccurrenceInv
<1>9. CASE ProviderChanged \/ Unreproduced
  BY <1>9, StageRefuse, OccurrenceStill DEF ProviderChanged, Unreproduced, Refuse
<1>10. ASSUME NEW steps, Verify(steps), todo # <<>>, steps = <<>> \/ ("attest" \in Left /\ steps = again)
       PROVE  OccurrenceInv'
  <2>1. (work.steps)' = work.steps /\ (work.verification.again)' = steps
    BY <1>10, Verifies DEF StageInv
  <2>2. Done /\ again' = <<>> /\ sessions' = sessions /\ occurrence' = occurrence
    BY <1>10 DEF Verify
  <2> QED BY <1>10, <2>1, <2>2, OccurrenceDone DEF OccurrenceInv
<1>11. CASE VerifyRerun
  BY <1>10, <1>11 DEF VerifyRerun, Stage
<1>12. CASE VerifyReproduction
  <2>1. todo # <<>> /\ Head(todo) = "attest" /\ Verify(again)
    BY <1>12 DEF VerifyReproduction, Stage
  <2>2. "attest" \in Left
    BY <2>1, Heads
  <2> QED BY <1>10, <2>1, <2>2
<1>13. CASE AddReceipt
  <2>1. todo # <<>> /\ Done /\ UNCHANGED <<again, occurrence, sessions>>
    BY <1>13 DEF AddReceipt, Stage
  <2>2. (work.steps)' = work.steps /\ (work.verification)' = work.verification
    BY <1>13 DEF AddReceipt, StageInv, BundleFields
  <2> QED BY <2>1, <2>2, OccurrenceDone DEF OccurrenceInv
<1>14. CASE Return
  <2>1. /\ ~Running' /\ Running /\ Progress /\ Left = {} /\ Len(sessions) \in Nat
        /\ Len(sessions') = Len(sessions) + 1 /\ sessions'[Len(sessions) + 1] = work
        /\ \A k \in 1..Len(sessions) : sessions'[k] = sessions[k]
    BY <1>14, StageReturn
  <2>2. OccurrenceGoing /\ work.verification # None /\ occurrence \in Nat /\ occurrence' = 0
    BY <1>14, <2>1 DEF Progress, OccurrenceInv, Return
  <2>3. \A k \in 1..Len(sessions') : k \in 1..Len(sessions) \/ k = Len(sessions) + 1
    BY <2>1
  <2>4. ASSUME NEW k \in 1..Len(sessions')
        PROVE  /\ \E x \in Nat : Drawn(k, x, sessions'[k].steps) /\ Drawn(k, x, sessions'[k].verification.again)
               /\ Apart(sessions'[k].steps, sessions'[k].verification.again)
    <3>1. CASE k \in 1..Len(sessions)
      BY <2>1, <3>1 DEF OccurrenceInv, OccurrenceKept
    <3>2. CASE k = Len(sessions) + 1
      BY <2>1, <2>2, <3>2 DEF OccurrenceGoing
    <3> QED BY <2>3, <3>1, <3>2
  <2>5. OccurrenceKept'
    BY <2>4 DEF OccurrenceKept
  <2> QED BY <2>1, <2>2, <2>5 DEF OccurrenceInv
<1>15. CASE Upgrade
  <2>1. UNCHANGED <<work, again, sessions, occurrence>> /\ Left' = Left /\ Running' = Running
    BY <1>15, StageUpgrade DEF Upgrade, callVars
  <2> QED BY <2>1 DEF OccurrenceInv, OccurrenceGoing, OccurrenceKept
<1>16. CASE UNCHANGED vars
  <2>1. UNCHANGED <<work, again, sessions, occurrence>> /\ Left' = Left /\ Running' = Running
    BY <1>16, StageSame DEF vars, callVars
  <2> QED BY <2>1 DEF OccurrenceInv, OccurrenceGoing, OccurrenceKept
<1> QED
  BY <1>1, <1>2, <1>3, <1>4, <1>5, <1>6, <1>7, <1>8, <1>9, <1>11, <1>12, <1>13, <1>14, <1>15, <1>16
  DEF Next, Stages

LEMMA OccurrenceAlways == Spec => []OccurrenceInv
<1>1. Init => OccurrenceInv
  <2> SUFFICES ASSUME Init
               PROVE  OccurrenceInv
    OBVIOUS
  <2>1. 1..Len(sessions) = {} /\ occurrence = 0 /\ ~Running
    BY Initially DEF Init
  <2> QED BY <2>1 DEF OccurrenceInv, OccurrenceKept
<1>2. StageInv /\ OccurrenceInv /\ [Next]_vars => OccurrenceInv'
  BY OccurrenceStep
<1> QED BY <1>1, <1>2, StageAlways, PTL DEF Spec

\* No returned session shares an execution or a native occurrence with another session or
\* with the reproduction it retains: all of them are drawn by the call that returns it, and
\* _execute draws new ones for each chain it runs.
THEOREM OccurrencesCorrect == Spec => []OccurrencesFresh
<1>1. ASSUME StageInv, OccurrenceInv
      PROVE  OccurrencesFresh
  <2>1. ASSUME NEW k \in Returned
        PROVE  /\ k \in 1..Len(sessions)
               /\ Retained(sessions[k]) \subseteq Occurrences(sessions[k].verification.again)
               /\ \A o \in Occurrences(sessions[k].steps) \cup Retained(sessions[k]) : \E x : o = <<k, x>>
    <3>1. k \in 1..Len(sessions)
      BY <1>1, <2>1, Sequences DEF Returned, StageInv
    <3>2. Retained(sessions[k]) \subseteq Occurrences(sessions[k].verification.again)
      BY DEF Retained
    <3>3. PICK x \in Nat : Drawn(k, x, sessions[k].steps) /\ Drawn(k, x, sessions[k].verification.again)
      BY <1>1, <3>1 DEF OccurrenceInv, OccurrenceKept
    <3> QED BY <3>1, <3>2, <3>3 DEF Drawn
  <2>2. ASSUME NEW k \in Returned
        PROVE  Occurrences(sessions[k].steps) \cap Retained(sessions[k]) = {}
    BY <1>1, <2>1, <2>2 DEF OccurrenceInv, OccurrenceKept, Apart
  <2>3. ASSUME NEW k \in Returned, NEW l \in Returned, k # l
        PROVE  (Occurrences(sessions[k].steps) \cup Retained(sessions[k]))
                 \cap (Occurrences(sessions[l].steps) \cup Retained(sessions[l])) = {}
    BY <2>1, <2>3
  <2> QED BY <2>2, <2>3 DEF OccurrencesFresh
<1> QED BY <1>1, StageAlways, OccurrenceAlways, PTL

-----------------------------------------------------------------------------
(* Proofs: what was computed. *)

LEMMA Indices ==
  ASSUME kind \in DOMAIN Catalog, NEW i \in 1..n
  PROVE  /\ w.steps[i].data \ {Up} \subseteq 1..i - 1 /\ w.steps[i].cites \subseteq 1..i - 1
         /\ w.upstream = "none" => Up \notin w.steps[i].data
BY Flows DEF WellFormed

\* A request is about the steps before its own.
LEMMA RequestOf ==
  ASSUME kind \in DOMAIN Catalog, NEW i \in 1..n, NEW source, NEW up, NEW exec, NEW s, NEW t,
         \A j \in 1..i - 1 : s[j] = t[j]
  PROVE  Request(w, i, source, up, s, exec) = Request(w, i, source, up, t, exec)
<1>1. /\ [j \in w.steps[i].data \ {Up} |-> s[j].result.data] = [j \in w.steps[i].data \ {Up} |-> t[j].result.data]
  BY Indices
<1>2. [j \in w.steps[i].cites |-> ResultId(s[j])] = [j \in w.steps[i].cites |-> ResultId(t[j])]
  BY Indices
<1> QED BY <1>1, <1>2 DEF Request

LEMMA AsksCalled ==
  ASSUME kind \in DOMAIN Catalog, NEW done, IsSeq(done), Len(done) < n, NEW call, NEW exec,
         NEW source, NEW up, Asks(w, source, up, done),
         call.request = Request(w, Len(done) + 1, source, up, done, exec)
  PROVE  Asks(w, source, up, Append(done, call))
<1> DEFINE steps == Append(done, call)
<1>1. /\ Len(steps) = Len(done) + 1 /\ steps[Len(done) + 1] = call
      /\ \A i \in 1..Len(done) : steps[i] = done[i]
  BY Appended
<1>2. Len(done) \in Nat /\ n \in Nat
  BY Sequences, Flows
<1> HIDE DEF steps
<1>3. ASSUME NEW i \in 1..Len(steps)
      PROVE  \E e : steps[i].request = Request(w, i, source, up, steps, e)
  <2>1. i \in 1..n /\ \A j \in 1..i - 1 : j \in 1..Len(done)
    BY <1>1, <1>2
  <2>2. \A j \in 1..i - 1 : done[j] = steps[j]
    BY <1>1, <2>1
  <2>3. \A e : Request(w, i, source, up, done, e) = Request(w, i, source, up, steps, e)
    BY <2>1, <2>2, RequestOf
  <2>4. CASE i = Len(done) + 1
    BY <1>1, <2>3, <2>4
  <2>5. CASE i \in 1..Len(done)
    <3>1. PICK e : done[i].request = Request(w, i, source, up, done, e)
      BY <2>5 DEF Asks
    <3> QED BY <1>1, <2>3, <2>5, <3>1
  <2> QED BY <1>1, <1>2, <2>4, <2>5
<1> QED BY <1>3 DEF Asks, steps

LEMMA AsksNothing == \A flow, source, up : Asks(flow, source, up, <<>>)
BY DEF Asks

LEMMA NothingFlawed == ~Flawed(<<>>)
BY DEF Flawed

LEMMA FlawedCalled ==
  ASSUME NEW done, IsSeq(done), NEW call, Flawed(Append(done, call)), call.result.data = Computed(call.request)
  PROVE  Flawed(done)
<1> DEFINE steps == Append(done, call)
<1>1. /\ Len(steps) = Len(done) + 1 /\ steps[Len(done) + 1] = call
      /\ \A i \in 1..Len(done) : steps[i] = done[i]
  BY Appended
<1>2. Len(done) \in Nat
  BY Sequences
<1>3. PICK i \in 1..Len(steps) : steps[i].result.data # Computed(steps[i].request)
  BY DEF Flawed
<1> HIDE DEF steps
<1>4. i \in 1..Len(done)
  BY <1>1, <1>2, <1>3
<1> QED BY <1>1, <1>3, <1>4 DEF Flawed

\* What a result is computed from does not depend on the execution identity, nor on the
\* identities of the results the request cites.
LEMMA ComputedAlike ==
  ASSUME NEW i, NEW source, NEW up, NEW s, NEW t, NEW d, NEW e,
         \A j \in w.steps[i].data \ {Up} : s[j].result.data = t[j].result.data
  PROVE  Computed(Request(w, i, source, up, s, d)) = Computed(Request(w, i, source, up, t, e))
<1>1. [j \in w.steps[i].data \ {Up} |-> s[j].result.data] = [j \in w.steps[i].data \ {Up} |-> t[j].result.data]
  OBVIOUS
<1> DEFINE q == Request(w, i, source, up, s, d)
           r == Request(w, i, source, up, t, e)
<1>2. q.source = r.source /\ q.up = r.up /\ q.data = r.data
  BY <1>1 DEF Request
<1> HIDE DEF q, r
<1>3. Computed(q) = Computed(r)
  BY <1>2 DEF Computed
<1> QED BY <1>3 DEF q, r

\* A run with the numbers of a flawed one, about the same source and upstream, is flawed.
LEMMA FlawedAlike ==
  ASSUME kind \in DOMAIN Catalog, NEW source, NEW up, NEW s, NEW t, IsSeq(s), IsSeq(t), Len(s) = n,
         Asks(w, source, up, s), Asks(w, source, up, t), SameNumbers(s, t), Flawed(s)
  PROVE  Flawed(t)
<1>1. DOMAIN s = 1..n /\ DOMAIN t = 1..Len(t) /\ n \in Nat /\ Len(t) \in Nat
  BY Sequences, Flows
<1>2. Numbers(s) = Numbers(t)
  BY DEF SameNumbers
<1>3. DOMAIN t = 1..n
  BY <1>1, <1>2 DEF Numbers
<1>4. \A j \in 1..n : s[j].result.data = t[j].result.data
  <2> SUFFICES ASSUME NEW j \in 1..n
               PROVE  s[j].result.data = t[j].result.data
    OBVIOUS
  <2>1. Numbers(s)[j] = s[j].result.data /\ Numbers(t)[j] = t[j].result.data
    BY <1>1, <1>3 DEF Numbers
  <2> QED BY <1>2, <2>1
<1>5. Len(t) = n
  <2>1. 1..Len(t) = 1..n
    BY <1>1, <1>3
  <2>2. Len(t) \in Nat /\ n \in Nat
    BY <1>1
  <2> QED BY <2>1, <2>2, Intervals
<1>6. PICK i \in 1..n : s[i].result.data # Computed(s[i].request)
  BY DEF Flawed
<1>7. PICK d : s[i].request = Request(w, i, source, up, s, d)
  BY DEF Asks
<1>8. PICK e : t[i].request = Request(w, i, source, up, t, e)
  BY <1>5 DEF Asks
<1>9. \A j \in w.steps[i].data \ {Up} : s[j].result.data = t[j].result.data
  <2>1. \A j \in w.steps[i].data \ {Up} : j \in 1..n
    BY <1>1, Indices
  <2> QED BY <1>4, <2>1
<1>10. Computed(s[i].request) = Computed(t[i].request)
  BY <1>7, <1>8, <1>9, ComputedAlike
<1> QED BY <1>4, <1>5, <1>6, <1>10 DEF Flawed

LEMMA FlawsKept ==
  ASSUME FlawInv, UNCHANGED <<kind, sessions>>, flaws' \in Nat, flaws <= flaws'
  PROVE  FlawKept' /\ w' = w /\ n' = n
<1>1. flaws \in Nat /\ FlawKept /\ w' = w /\ n' = n
  BY Still DEF FlawInv
<1>2. \A k \in 1..Len(sessions) :
        LET b == sessions[k]
        IN  /\ DOMAIN b = BundleFields /\ DOMAIN b.steps = 1..n
            /\ w.upstream # "none" => b.up # 0
            /\ Asks(w, b.source, b.up, b.steps)
            /\ flaws' < 2 => ~Flawed(b.steps)
  BY <1>1 DEF FlawKept
<1> QED BY <1>1, <1>2 DEF FlawKept

LEMMA FlawStill ==
  ASSUME FlawInv, ~Running', UNCHANGED <<kind, sessions, flaws>>
  PROVE  FlawInv'
BY FlawsKept DEF FlawInv

LEMMA FlawDone ==
  ASSUME StageInv, FlawInv, todo # <<>>, Done, UNCHANGED <<kind, sessions, flaws, replayed>>,
         (work.steps)' = work.steps, (work.source)' = work.source, (work.up)' = work.up,
         again' = again \/ (again' = <<>> /\ Head(todo) \in {"verify", "attest"}),
         Head(todo) \in {"compare", "attest", "match"} => Settled'
  PROVE  FlawInv'
<1>1. /\ Running /\ FlawGoing /\ IsSeq(todo) /\ Ordered(todo) /\ Left = {Head(todo)} \cup Range(Tail(todo))
      /\ flaws \in Nat
  BY Heads DEF FlawInv
<1>2. Left' = Range(Tail(todo)) /\ w' = w /\ n' = n /\ Left' \subseteq Left
  BY <1>1, Still DEF Left, Done
<1>3. Settled'
  <2> SUFFICES ASSUME Head(todo) \notin {"compare", "attest", "match"}
               PROVE  Settled'
    OBVIOUS
  <2> SUFFICES ASSUME {"compare", "attest"} \cap Left' = {}
               PROVE  Pending' \/ ("execute" \notin Left' /\ (flaws < 2 => ~Flawed(work.steps)))
    BY DEF Settled
  <2>1. {"compare", "attest"} \cap Left = {}
    BY <1>1, <1>2
  <2>2. CASE Pending
    <3>1. Matches(Tail(todo)) /\ Head(todo) # "verify"
      BY <1>1, <2>2, MatchesStill DEF Pending
    <3>2. again' = again /\ todo' = Tail(todo)
      BY <3>1 DEF Done
    <3> QED BY <1>2, <2>2, <3>1, <3>2 DEF Pending
  <2>3. CASE "execute" \notin Left /\ (flaws < 2 => ~Flawed(work.steps))
    BY <1>2, <2>3
  <2> QED BY <1>1, <2>1, <2>2, <2>3 DEF FlawGoing, Settled
<1>4. ~Flawed(<<>>) /\ Asks(w, work.source, work.up, <<>>)
  BY NothingFlawed, AsksNothing
<1>5. FlawGoing'
  BY <1>1, <1>2, <1>3, <1>4 DEF FlawGoing
<1> QED BY <1>1, <1>5, FlawsKept DEF FlawInv

LEMMA FlawDecide ==
  ASSUME StageInv, FlawInv, NEW name, NEW why, why # "running", NEW holds, Decide(name, holds, why),
         name \in {"compare", "attest", "match"} =>
           (holds /\ Done /\ UNCHANGED <<kind, work, again, replayed, outcome, flaws>> => Settled')
  PROVE  FlawInv'
<1>1. UNCHANGED <<kind, sessions, flaws>>
  BY DEF Decide, envVars
<1>2. CASE Refuse(why)
  BY <1>1, <1>2, StageRefuse, FlawStill
<1>3. CASE holds /\ Done /\ UNCHANGED <<work, again, bound, replayed, outcome, occurrence>>
  <2>1. todo # <<>> /\ Head(todo) = name
    BY DEF Decide, Stage
  <2>2. name \in {"compare", "attest", "match"} => Settled'
    BY <1>1, <1>3
  <2> QED BY <1>1, <1>3, <2>1, <2>2, FlawDone
<1> QED BY <1>2, <1>3 DEF Decide

\* A rerun that has the contents it is compared with.
LEMMA ComparedSettles ==
  ASSUME StageInv, FlawInv, Stage("compare"), SameContents(Rerun.steps, again), Done,
         UNCHANGED <<kind, work, again, replayed, outcome, flaws>>
  PROVE  Settled'
<1>1. /\ todo # <<>> /\ Head(todo) = "compare" /\ IsSeq(todo) /\ Ordered(todo) /\ Running /\ Progress /\ FlawGoing
      /\ Left = {Head(todo)} \cup Range(Tail(todo)) /\ IsSeq(again) /\ IsSeq(work.steps) /\ n \in Nat \ {0}
      /\ {"rerun", "compare", "verify"} \cap Left = {} \/ {"reproduce", "attest"} \cap Left = {}
  BY Heads, Flows DEF Stage, FlawInv, StageInv
<1>2. Left' = Range(Tail(todo)) /\ w' = w /\ n' = n /\ todo' = Tail(todo)
  BY Still DEF Left, Done
<1>3. "rerun" \notin Left /\ "reproduce" \notin Left /\ "compare" \in Left
  BY <1>1, Heads DEF Precedes
<1>4. Len(again) = n /\ DOMAIN again = 1..n
  BY <1>1, <1>3, Sequences DEF Progress
<1>5. CASE "execute" \in Left'
  <2>1. "execute" \in Left /\ work.steps = <<>> /\ Matches(Tail(todo))
    BY <1>1, <1>2, <1>5, MatchesStill DEF Progress
  <2>2. SameContents(replayed.steps, again)
    BY <2>1 DEF Rerun
  <2>3. "match" \in Left
    <3>1. IsSeq(Tail(todo))
      BY <1>1, Heads
    <3>2. DOMAIN Tail(todo) = 1..Len(Tail(todo))
      BY <3>1, Sequences
    <3>3. PICK i, j \in 1..Len(Tail(todo)) : Tail(todo)[i] = "match"
      BY <2>1 DEF Matches
    <3> QED BY <1>1, <3>2, <3>3 DEF Range
  <2>4. DOMAIN replayed.steps = 1..n
    BY <1>1, <2>3 DEF FlawGoing
  <2>5. \A i \in 1..n : replayed.steps[i].result.data = again[i].result.data
    BY <2>2, <2>4 DEF SameContents, ResultId
  <2>6. SameNumbers(replayed.steps, again)
    BY <1>4, <2>4, <2>5 DEF SameNumbers, Numbers
  <2>7. Pending'
    BY <1>2, <1>4, <2>1, <2>6 DEF Pending
  <2> QED BY <2>7 DEF Settled
<1>6. CASE "execute" \notin Left'
  <2>1. "execute" \notin Left /\ Len(work.steps) = n
    BY <1>1, <1>2, <1>6 DEF Progress
  <2>2. work.steps # <<>> /\ DOMAIN work.steps = 1..n
    BY <1>1, <2>1, Sequences
  <2>3. SameContents(work.steps, again)
    BY <2>2 DEF Rerun
  <2>4. \A i \in 1..n : work.steps[i].request = again[i].request /\ work.steps[i].result.data = again[i].result.data
    BY <2>2, <2>3 DEF SameContents, ResultId
  <2>5. Flawed(work.steps) => Flawed(again)
    BY <1>4, <2>1, <2>4 DEF Flawed
  <2>6. flaws < 2 => ~Flawed(work.steps)
    BY <1>1, <2>5 DEF FlawGoing, FlawInv
  <2> QED BY <1>6, <2>6 DEF Settled
<1> QED BY <1>5, <1>6

\* A session with the numbers of its reproduction, or of a rerun.
LEMMA AlikeSettles ==
  ASSUME StageInv, FlawInv, Running, Len(work.steps) = n,
         SameNumbers(work.steps, again), flaws < 2
  PROVE  ~Flawed(work.steps)
<1>1. FlawGoing /\ flaws \in Nat /\ IsSeq(work.steps) /\ IsSeq(again) /\ kind \in DOMAIN Catalog
  BY DEF FlawInv, StageInv
<1>2. Asks(w, work.source, work.up, work.steps) /\ Asks(w, work.source, work.up, again)
  BY <1>1 DEF FlawGoing
<1>3. Flawed(work.steps) => Flawed(again)
  BY <1>1, <1>2, FlawedAlike
<1>4. Flawed(work.steps) /\ Flawed(again) => flaws >= 2
  BY <1>1 DEF FlawGoing
<1> QED BY <1>1, <1>3, <1>4

LEMMA MatchedSettles ==
  ASSUME StageInv, FlawInv, Stage("match"), SameNumbers(replayed.steps, work.steps), Done,
         UNCHANGED <<kind, work, again, replayed, outcome, flaws>>
  PROVE  Settled'
<1>1. /\ todo # <<>> /\ Head(todo) = "match" /\ Running /\ Progress /\ FlawGoing
      /\ Left = {Head(todo)} \cup Range(Tail(todo))
  BY Heads DEF Stage, FlawInv
<1>2. Left' = Range(Tail(todo)) /\ w' = w /\ n' = n
  BY Still DEF Left, Done
<1>3. "execute" \notin Left
  BY <1>1, Heads DEF Precedes
<1>4. Len(work.steps) = n
  BY <1>1, <1>3 DEF Progress
<1> SUFFICES ASSUME {"compare", "attest"} \cap Left' = {}, flaws < 2
             PROVE  ~Flawed(work.steps)
  BY <1>1, <1>2, <1>3 DEF Settled
<1>5. {"compare", "attest"} \cap Left = {}
  BY <1>1, <1>2
<1>6. CASE Pending
  BY <1>1, <1>4, <1>6, AlikeSettles DEF Pending, SameNumbers
<1> QED BY <1>1, <1>5, <1>6 DEF FlawGoing, Settled

\* What a call begins with: a replay, a bundle with the upstream session of a retained one
\* and steps for the same indices.
LEMMA MixedParts ==
  ASSUME NEW b, NEW c, NEW units, DOMAIN b = BundleFields, <<0, "steps">> \notin units
  PROVE  /\ \A part \in {"session", "source", "up"} : Mixed(b, c, units)[part] \in {b[part], c[part]}
         /\ DOMAIN Mixed(b, c, units).steps = DOMAIN b.steps
         /\ DOMAIN Mixed(b, c, units) = BundleFields
<1>1. /\ \A part \in {"session", "source", "up"} : part \in DOMAIN b /\ part # "steps" /\ part # "verification"
      /\ "steps" \in DOMAIN b
  BY DEF BundleFields
<1>2. DOMAIN Mixed(b, c, units) = DOMAIN b
  BY DEF Mixed
<1>3. ASSUME NEW part \in {"session", "source", "up"}
      PROVE  Mixed(b, c, units)[part] = IF <<0, part>> \in units THEN c[part] ELSE b[part]
  BY <1>1 DEF Mixed
<1>4. Mixed(b, c, units)["steps"] =
        [i \in DOMAIN b.steps |->
           IF <<i, "step">> \in units THEN c.steps[i]
           ELSE [f \in DOMAIN b.steps[i] |->
                   IF <<i, f>> \in units THEN c.steps[i][f] ELSE b.steps[i][f]]]
  BY <1>1 DEF Mixed
<1>5. DOMAIN Mixed(b, c, units)["steps"] = DOMAIN b.steps
  BY <1>4
<1> QED BY <1>2, <1>3, <1>5

LEMMA SealedParts ==
  ASSUME NEW b, DOMAIN b = BundleFields
  PROVE  /\ Sealed(b).up = b.up /\ Sealed(b).steps = b.steps /\ Sealed(b).session = b.session
         /\ Sealed(b).source = b.source
BY DEF Sealed, BundleFields

LEMMA Costs == ASSUME NEW u, NEW v PROVE Cardinality({u, v}) \in Nat \ {0}
<1>1. IsFiniteSet({u}) /\ Cardinality({u}) = 1
  BY FS_Singleton
<1>2. {u, v} = {u} \cup {v}
  OBVIOUS
<1>3. CASE v = u
  <2>1. {u, v} = {u}
    BY <1>3
  <2> QED BY <2>1, <1>1
<1>4. CASE v # u
  <2>1. v \notin {u}
    BY <1>4
  <2>2. Cardinality({u} \cup {v}) = Cardinality({u}) + 1
    BY <1>1, <2>1, FS_AddElement
  <2> QED BY <2>2, <1>1, <1>2
<1> QED BY <1>3, <1>4

\* How a call begins.
Starts ==
  /\ ~Running /\ UNCHANGED <<kind, sessions, version, flaws>>
  /\ \E source, up, b :
       /\ w.upstream # "none" => up # 0
       /\ \/ Call(w.create, source, up, Blank) /\ changes' = changes
          \/ /\ Call(w.replay, source, up, b) /\ source = b.source /\ up = b.up /\ DOMAIN b.steps = 1..n
             /\ \E k \in 1..Len(sessions), cost \in Nat :
                  b.session = sessions[k].session /\ changes' = changes + cost /\ (cost = 0 => b = sessions[k])

LEMMA Started ==
  ASSUME StageInv, FlawInv,
         \/ \E source \in Sources, up \in IF w.upstream = "none" THEN {0} ELSE Sources : Create(source, up)
         \/ ReplayRetained \/ ReplayMixed \/ ReplayEdited
  PROVE  Starts
<1> DEFINE Goes(b, k) == /\ (w.upstream # "none" => b.up # 0) /\ DOMAIN b.steps = 1..n
                         /\ b.session = sessions[k].session
<1>1. /\ DOMAIN sessions = 1..Len(sessions)
      /\ \A k \in DOMAIN sessions : Goes(sessions[k], k) /\ DOMAIN sessions[k] = BundleFields
  BY Sequences DEF FlawInv, FlawKept, StageInv
<1>2. ASSUME NEW k \in DOMAIN sessions, NEW b, NEW cost \in Nat, cost = 0 => b = sessions[k],
             Replay(b, cost), Goes(b, k)
      PROVE  Starts
  BY <1>1, <1>2 DEF Replay, Starts, Idle, Running
<1>3. CASE \E source \in Sources, up \in IF w.upstream = "none" THEN {0} ELSE Sources : Create(source, up)
  <2>1. PICK source \in Sources, up \in IF w.upstream = "none" THEN {0} ELSE Sources : Create(source, up)
    BY <1>3
  <2>2. w.upstream # "none" => up # 0
    BY <2>1, RunsAssumption
  <2> QED BY <2>1, <2>2 DEF Create, Starts, Idle, Running
<1>4. CASE ReplayRetained
  <2>1. PICK k \in DOMAIN sessions : Replay(sessions[k], 0)
    BY <1>4 DEF ReplayRetained
  <2> HIDE DEF Goes
  <2>2. Goes(sessions[k], k) /\ 0 \in Nat
    BY <1>1
  <2> QED BY <1>2, <2>1, <2>2
<1>5. CASE ReplayMixed
  <2>0. PICK k, l \in DOMAIN sessions, u, v \in Parts \cup StepParts, sealed \in BOOLEAN :
          LET mixed == Mixed(sessions[k], sessions[l], {u, v})
              b == IF sealed THEN Sealed(mixed) ELSE mixed
          IN  /\ k # l /\ b # sessions[k] /\ b # sessions[l]
              /\ Replay(b, Cardinality({u, v}))
    BY <1>5 DEF ReplayMixed
  <2>1. LET mixed == Mixed(sessions[k], sessions[l], {u, v})
        IN  Replay(IF sealed THEN Sealed(mixed) ELSE mixed, Cardinality({u, v}))
    BY <2>0
  <2> DEFINE mixed == Mixed(sessions[k], sessions[l], {u, v})
             b == IF sealed THEN Sealed(mixed) ELSE mixed
             cost == Cardinality({u, v})
  <2>2. /\ mixed.up \in {sessions[k].up, sessions[l].up} /\ DOMAIN mixed.steps = 1..n
        /\ mixed.session \in {sessions[k].session, sessions[l].session}
        /\ DOMAIN mixed = BundleFields
    <3>1. <<0, "steps">> \notin Parts \cup StepParts
      BY DEF Parts, StepParts
    <3> QED BY <1>1, <3>1, MixedParts
  <2>3. Replay(b, cost) /\ cost \in Nat /\ cost # 0
    BY <2>1, Costs
  <2> HIDE DEF mixed, cost
  <2>4. b.up = mixed.up /\ b.steps = mixed.steps /\ b.session = mixed.session
    BY <2>2, SealedParts
  <2>5. Goes(b, k) \/ Goes(b, l)
    BY <1>1, <2>2, <2>4
  <2> HIDE DEF b, Goes
  <2> QED BY <1>2, <2>3, <2>5
<1>6. CASE ReplayEdited
  <2>1. PICK k \in DOMAIN sessions, i \in Index(w), sealed \in BOOLEAN :
          LET edited == [sessions[k] EXCEPT !.steps[i].result.data = @ \cup {Flaw}]
          IN  Replay(IF sealed THEN Sealed(edited) ELSE edited, 1)
    BY <1>6 DEF ReplayEdited
  <2> DEFINE edited == [sessions[k] EXCEPT !.steps[i].result.data = @ \cup {Flaw}]
             b == IF sealed THEN Sealed(edited) ELSE edited
  <2>2. /\ edited.up = sessions[k].up /\ DOMAIN edited.steps = 1..n /\ DOMAIN edited = BundleFields
        /\ edited.session = sessions[k].session
    BY <1>1 DEF BundleFields
  <2>3. Replay(b, 1) /\ 1 \in Nat /\ 1 # 0
    BY <2>1
  <2> HIDE DEF edited
  <2>4. b.up = edited.up /\ b.steps = edited.steps /\ b.session = edited.session
    BY <2>2, SealedParts
  <2>5. Goes(b, k)
    BY <1>1, <2>2, <2>4
  <2> HIDE DEF b, Goes
  <2> QED BY <1>2, <2>3, <2>5
<1> QED BY <1>3, <1>4, <1>5, <1>6

\* What Called returns.
LEMMA CalledAsks ==
  ASSUME NEW done, NEW exec, NEW flawed
  PROVE  LET call == Called(done, exec, flawed)
         IN  /\ call.request = Request(w, Len(done) + 1, work.source, work.up, done, exec)
             /\ ~flawed => call.result.data = Computed(call.request)
BY DEF Called

LEMMA FlawStep == StageInv /\ FlawInv /\ [Next]_vars => FlawInv'
<1> SUFFICES ASSUME StageInv, FlawInv, [Next]_vars
             PROVE  FlawInv'
  OBVIOUS
<1>1. CASE \/ \E source \in Sources, up \in IF w.upstream = "none" THEN {0} ELSE Sources : Create(source, up)
           \/ ReplayRetained \/ ReplayMixed \/ ReplayEdited
  <2>1. PICK source, up, b :
          /\ Call(w.create, source, up, b) \/ (Call(w.replay, source, up, b) /\ DOMAIN b.steps = 1..n)
          /\ w.upstream # "none" => up # 0
    BY <1>1, Started DEF Starts
  <2>2. UNCHANGED <<kind, sessions, flaws>>
    BY <1>1, Started DEF Starts
  <2>3. /\ (work.steps)' = <<>> /\ (work.up)' = up /\ again' = <<>> /\ replayed' = b
        /\ Left' = Range(w.create) \/ (Left' = Range(w.replay) /\ DOMAIN b.steps = 1..n)
        /\ "match" \notin Range(w.create)
    BY <2>1, Blanks, Flows DEF Call, Blank, Left, StageInv, WellFormed
  <2>4. {"compare", "attest"} \cap Left' # {}
    BY <2>3, Flows DEF StageInv, Complete
  <2>5. FlawKept' /\ w' = w /\ n' = n /\ flaws \in Nat /\ flaws' = flaws
    BY <2>2, FlawsKept DEF FlawInv
  <2>6. FlawGoing'
    BY <2>1, <2>3, <2>4, <2>5, AsksNothing, NothingFlawed DEF FlawGoing, Settled
  <2> QED BY <2>5, <2>6 DEF FlawInv
<1>2. CASE Inspect \/ Select \/ Validate
  BY <1>2, FlawDecide DEF Inspect, Select, Validate
<1>3. CASE Compare
  <2>1. Stage("compare")
    BY <1>3 DEF Compare, Decide
  <2>2. SameContents(Rerun.steps, again) /\ Done /\ UNCHANGED <<kind, work, again, replayed, outcome, flaws>> => Settled'
    BY <2>1, ComparedSettles
  <2> QED BY <1>3, <2>2, FlawDecide DEF Compare
<1>4. CASE Match
  <2>1. Stage("match")
    BY <1>4 DEF Match, Decide
  <2>2. SameNumbers(replayed.steps, work.steps) /\ Done /\ UNCHANGED <<kind, work, again, replayed, outcome, flaws>> => Settled'
    BY <2>1, MatchedSettles
  <2> QED BY <1>4, <2>2, FlawDecide DEF Match
<1>5. CASE ReplayUpstream
  <2>1. todo # <<>> /\ Head(todo) = "upstream" /\ UNCHANGED <<kind, sessions, flaws>>
    BY <1>5 DEF ReplayUpstream, Stage, envVars
  <2>2. CASE Refuse("upstream")
    BY <2>1, <2>2, StageRefuse, FlawStill
  <2>3. CASE work' = [work EXCEPT !.pair = work.up] /\ Done /\ UNCHANGED <<again, bound, replayed, outcome, occurrence>>
    <3>1. (work.steps)' = work.steps /\ (work.source)' = work.source /\ (work.up)' = work.up
      BY <2>3 DEF StageInv, BundleFields
    <3> QED BY <2>1, <2>3, <3>1, FlawDone
  <2> QED BY <1>5, <2>2, <2>3 DEF ReplayUpstream
<1>6. CASE Bind
  <2>1. todo # <<>> /\ Head(todo) = "bind" /\ UNCHANGED <<kind, sessions, flaws>>
    BY <1>6 DEF Bind, Stage, envVars
  <2>2. CASE Refuse("runtime")
    BY <2>1, <2>2, StageRefuse, FlawStill
  <2>3. CASE Done /\ UNCHANGED <<work, again, replayed, outcome, occurrence>>
    BY <2>1, <2>3, FlawDone
  <2> QED BY <1>6, <2>2, <2>3 DEF Bind
<1>7. CASE ExecuteStep
  <2>1. PICK flawed \in BOOLEAN :
          /\ Occurs(flawed)
          /\ work' = [work EXCEPT !.steps = Append(@, Called(@, Identity(occurrence + 1), flawed))]
    BY <1>7, StageExecute
  <2> DEFINE call == Called(work.steps, Identity(occurrence + 1), flawed)
             flaws1 == flaws + (IF flawed THEN 1 ELSE 0)
  <2>2. /\ todo # <<>> /\ Head(todo) = "execute" /\ again' = again /\ Len(work.steps) < n
        /\ UNCHANGED <<kind, todo, replayed, outcome, sessions>> /\ flaws' = flaws1
    BY <1>7, <2>1 DEF ExecuteStep, Stage, Occurs
  <2>3. /\ Running /\ FlawGoing /\ IsSeq(work.steps) /\ "execute" \in Left /\ flaws \in Nat
        /\ kind \in DOMAIN Catalog
    BY <2>2, Heads DEF FlawInv, StageInv
  <2>4. /\ call.request = Request(w, Len(work.steps) + 1, work.source, work.up, work.steps, Identity(occurrence + 1))
        /\ ~flawed => call.result.data = Computed(call.request)
    BY CalledAsks
  <2>5. work' = [work EXCEPT !.steps = Append(@, call)]
    BY <2>1
  <2> HIDE DEF call
  <2>6. /\ (work.steps)' = Append(work.steps, call) /\ (work.source)' = work.source
        /\ (work.up)' = work.up
    BY <2>5 DEF StageInv, BundleFields
  <2>7. Asks(w, work.source, work.up, Append(work.steps, call))
    BY <2>2, <2>3, <2>4, AsksCalled DEF FlawGoing
  <2>8. flawed \/ (Flawed(Append(work.steps, call)) => Flawed(work.steps))
    BY <2>3, <2>4, FlawedCalled
  <2>9. flaws1 \in Nat /\ flaws <= flaws1 /\ (flawed => flaws1 = flaws + 1)
    BY <2>3
  <2>10. Left' = Left /\ w' = w /\ n' = n /\ FlawKept'
    BY <2>2, <2>9, FlawsKept DEF Left
  <2> HIDE DEF flaws1
  <2>11. /\ Flawed(Append(work.steps, call)) \/ Flawed(again) => flaws1 >= 1
         /\ Flawed(Append(work.steps, call)) /\ Flawed(again) => flaws1 >= 2
    BY <2>3, <2>8, <2>9 DEF FlawGoing
  <2>12. Settled'
    <3> SUFFICES ASSUME {"compare", "attest"} \cap Left = {}
                 PROVE  Pending'
      BY <2>10 DEF Settled
    <3>1. Pending
      BY <2>3 DEF FlawGoing, Settled
    <3> QED BY <2>2, <2>10, <3>1 DEF Pending
  <2>13. FlawGoing'
    BY <2>2, <2>3, <2>6, <2>7, <2>10, <2>11, <2>12 DEF FlawGoing
  <2> QED BY <2>2, <2>9, <2>10, <2>13 DEF FlawInv
<1>8. CASE ExecuteEnd
  <2>1. /\ todo # <<>> /\ Head(todo) = "execute" /\ Done
        /\ UNCHANGED <<kind, again, replayed, outcome, sessions, flaws>>
    BY <1>8 DEF ExecuteEnd, Stage, envVars
  <2>2. (work.steps)' = work.steps /\ (work.source)' = work.source /\ (work.up)' = work.up
    BY <1>8 DEF ExecuteEnd, StageInv, BundleFields
  <2> QED BY <2>1, <2>2, FlawDone
<1>9. CASE AgainStep
  <2>1. /\ work' = work /\ todo # <<>> /\ Head(todo) \in {"rerun", "reproduce"} /\ Len(again) < n
        /\ \E flawed \in BOOLEAN : \E exec :
             /\ Occurs(flawed) /\ again' = Append(again, Called(again, exec, flawed))
             /\ Head(todo) = "reproduce" => exec = Identity(occurrence + 1)
    BY <1>9, StageAgain
  <2>2. PICK flawed \in BOOLEAN : \E exec : Occurs(flawed) /\ again' = Append(again, Called(again, exec, flawed))
    BY <2>1
  <2>3. PICK exec : Occurs(flawed) /\ again' = Append(again, Called(again, exec, flawed))
    BY <2>2
  <2> DEFINE call == Called(again, exec, flawed)
             flaws1 == flaws + (IF flawed THEN 1 ELSE 0)
  <2>4. /\ UNCHANGED <<kind, todo, replayed, outcome, sessions>> /\ flaws' = flaws1
        /\ again' = Append(again, call)
    BY <2>3 DEF Occurs
  <2>5. /\ Running /\ FlawGoing /\ IsSeq(again) /\ Head(todo) \in Left /\ flaws \in Nat /\ n \in Nat
        /\ kind \in DOMAIN Catalog
    BY <2>1, Heads, Flows DEF FlawInv, StageInv
  <2>6. /\ call.request = Request(w, Len(again) + 1, work.source, work.up, again, exec)
        /\ ~flawed => call.result.data = Computed(call.request)
    BY CalledAsks
  <2> HIDE DEF call
  <2>7. Asks(w, work.source, work.up, Append(again, call))
    BY <2>1, <2>5, <2>6, AsksCalled DEF FlawGoing
  <2>8. flawed \/ (Flawed(Append(again, call)) => Flawed(again))
    BY <2>5, <2>6, FlawedCalled
  <2>9. flaws1 \in Nat /\ flaws <= flaws1 /\ (flawed => flaws1 = flaws + 1)
    BY <2>5
  <2>10. Left' = Left /\ w' = w /\ n' = n /\ FlawKept'
    BY <2>4, <2>9, FlawsKept DEF Left
  <2> HIDE DEF flaws1
  <2>11. /\ Flawed(work.steps) \/ Flawed(Append(again, call)) => flaws1 >= 1
         /\ Flawed(work.steps) /\ Flawed(Append(again, call)) => flaws1 >= 2
    BY <2>5, <2>8, <2>9 DEF FlawGoing
  <2>12. Settled'
    <3> SUFFICES ASSUME {"compare", "attest"} \cap Left = {}
                 PROVE  "execute" \notin Left /\ (flaws1 < 2 => ~Flawed(work.steps))
      BY <2>1, <2>4, <2>10 DEF Settled
    <3>1. ~Pending
      BY <2>1, <2>5 DEF Pending
    <3>2. "execute" \notin Left /\ (flaws < 2 => ~Flawed(work.steps))
      BY <2>5, <3>1 DEF FlawGoing, Settled
    <3> QED BY <2>5, <2>9, <3>2
  <2>13. FlawGoing'
    BY <2>1, <2>4, <2>5, <2>7, <2>10, <2>11, <2>12 DEF FlawGoing
  <2> QED BY <2>4, <2>9, <2>10, <2>13 DEF FlawInv
<1>10. CASE AgainEnd
  <2>1. /\ todo # <<>> /\ Head(todo) \in {"rerun", "reproduce"} /\ Done
        /\ UNCHANGED <<kind, work, again, replayed, outcome, sessions, flaws>>
    BY <1>10 DEF AgainEnd, Stage, envVars
  <2> QED BY <2>1, FlawDone
<1>11. CASE ProviderChanged \/ Unreproduced
  <2>1. UNCHANGED <<kind, sessions, flaws>>
    BY <1>11 DEF ProviderChanged, Unreproduced, envVars
  <2> QED BY <1>11, <2>1, StageRefuse, FlawStill DEF ProviderChanged, Unreproduced
<1>12. ASSUME NEW steps, Verify(steps), Stage("verify") \/ Stage("attest"), Stage("attest") => Settled'
       PROVE  FlawInv'
  <2>1. (work.steps)' = work.steps /\ (work.source)' = work.source /\ (work.up)' = work.up
    BY <1>12, Verifies DEF StageInv, BundleFields
  <2>2. /\ todo # <<>> /\ Head(todo) \in {"verify", "attest"} /\ Done /\ again' = <<>>
        /\ UNCHANGED <<kind, replayed, outcome, sessions, flaws>>
    BY <1>12 DEF Verify, Stage, envVars
  <2>3. Head(todo) = "attest" => Settled'
    BY <1>12, <2>2 DEF Stage
  <2> QED BY <2>1, <2>2, <2>3, FlawDone
<1>13. CASE VerifyRerun
  BY <1>12, <1>13 DEF VerifyRerun, Stage
<1>14. CASE VerifyReproduction
  <2>1. todo # <<>> /\ Head(todo) = "attest" /\ SameNumbers(work.steps, again) /\ Verify(again)
    BY <1>14 DEF VerifyReproduction, Stage
  <2>2. Running /\ Progress /\ "execute" \notin Left /\ Left = {Head(todo)} \cup Range(Tail(todo))
    BY <2>1, Heads DEF Precedes
  <2>3. flaws < 2 => ~Flawed(work.steps)
    BY <2>1, <2>2, AlikeSettles DEF Progress
  <2>4. Left' = Range(Tail(todo)) /\ (work.steps)' = work.steps /\ flaws' = flaws
    BY <2>1, Verifies DEF StageInv, Left, Verify, Done, envVars
  <2>5. Settled'
    BY <2>2, <2>3, <2>4 DEF Settled
  <2> QED BY <1>12, <1>14, <2>1, <2>5 DEF VerifyReproduction
<1>15. CASE AddReceipt
  <2>1. /\ todo # <<>> /\ Head(todo) = "receipt" /\ Done
        /\ UNCHANGED <<kind, again, replayed, outcome, sessions, flaws>>
    BY <1>15 DEF AddReceipt, Stage, envVars
  <2>2. (work.steps)' = work.steps /\ (work.source)' = work.source /\ (work.up)' = work.up
    BY <1>15 DEF AddReceipt, StageInv, BundleFields
  <2> QED BY <2>1, <2>2, FlawDone
<1>16. CASE Return
  <2>1. /\ ~Running' /\ Running /\ Progress /\ Left = {} /\ w' = w /\ n' = n /\ Len(sessions) \in Nat
        /\ Len(sessions') = Len(sessions) + 1 /\ sessions'[Len(sessions) + 1] = work
        /\ \A k \in 1..Len(sessions) : sessions'[k] = sessions[k]
    BY <1>16, StageReturn
  <2>2. FlawGoing /\ flaws \in Nat /\ flaws' = flaws /\ todo = <<>>
    BY <1>16, <2>1 DEF FlawInv, Return, envVars
  <2>3. /\ DOMAIN work = BundleFields /\ DOMAIN work.steps = 1..n
    BY <2>1, Sequences DEF StageInv, Progress
  <2>4. ~Pending
    BY <2>2, Empty DEF Pending, Matches
  <2>5. flaws < 2 => ~Flawed(work.steps)
    BY <2>1, <2>2, <2>4 DEF FlawGoing, Settled
  <2>6. \A k \in 1..Len(sessions') : k \in 1..Len(sessions) \/ k = Len(sessions) + 1
    BY <2>1
  <2>7. ASSUME NEW k \in 1..Len(sessions')
        PROVE  /\ DOMAIN sessions'[k] = BundleFields /\ DOMAIN sessions'[k].steps = 1..n
               /\ w.upstream # "none" => sessions'[k].up # 0
               /\ Asks(w, sessions'[k].source, sessions'[k].up, sessions'[k].steps)
               /\ flaws < 2 => ~Flawed(sessions'[k].steps)
    <3>1. CASE k \in 1..Len(sessions)
      BY <2>1, <3>1 DEF FlawInv, FlawKept
    <3>2. CASE k = Len(sessions) + 1
      BY <2>1, <2>2, <2>3, <2>5, <3>2 DEF FlawGoing
    <3> QED BY <2>6, <3>1, <3>2
  <2>8. FlawKept'
    BY <2>1, <2>2, <2>7 DEF FlawKept
  <2> QED BY <2>1, <2>2, <2>8 DEF FlawInv
<1>17. CASE Upgrade \/ UNCHANGED vars
  <2>1. /\ UNCHANGED <<kind, todo, work, again, replayed, sessions, flaws>> /\ Left' = Left /\ w' = w /\ n' = n
        /\ Running' = Running
    BY <1>17, StageUpgrade, StageSame DEF Upgrade, callVars, vars, envVars
  <2>2. Running => FlawGoing'
    BY <2>1 DEF FlawInv, FlawGoing, Settled, Pending
  <2>3. flaws \in Nat
    BY DEF FlawInv
  <2> QED BY <2>1, <2>2, <2>3, FlawsKept DEF FlawInv
<1> QED
  BY <1>1, <1>2, <1>3, <1>4, <1>5, <1>6, <1>7, <1>8, <1>9, <1>10, <1>11, <1>13, <1>14, <1>15, <1>16, <1>17
  DEF Next, Stages

LEMMA FlawAlways == Spec => []FlawInv
<1>1. Init => FlawInv
  <2> SUFFICES ASSUME Init
               PROVE  FlawInv
    OBVIOUS
  <2>1. 1..Len(sessions) = {} /\ flaws = 0 /\ ~Running
    BY Initially DEF Init
  <2> QED BY <2>1 DEF FlawInv, FlawKept
<1>2. StageInv /\ FlawInv /\ [Next]_vars => FlawInv'
  BY FlawStep
<1> QED BY <1>1, <1>2, StageAlways, PTL DEF Spec

\* One result that would not come out again reaches no returned session: every chain is
\* run twice over the same requests, and the comparison of the two runs, or of both with
\* the session replayed, fails unless the other run holds such a result too.
THEOREM ReproductionCorrect == Spec => []ReturnedReproduced
<1>1. ASSUME StageInv, RuntimeInv, FlawInv
      PROVE  ReturnedReproduced
  <2> SUFFICES ASSUME flaws < 2, NEW k \in Returned, NEW i \in Index(w)
               PROVE  sessions[k].steps[i].result.data = Genuine(w, i, sessions[k])
    BY DEF ReturnedReproduced
  <2> DEFINE b == sessions[k]
             r == b.steps[i].request
  <2>1. k \in 1..Len(sessions) /\ i \in 1..n /\ n \in Nat /\ kind \in DOMAIN Catalog
    BY <1>1, Flows, Sequences DEF Returned, StageInv
  <2>2. /\ DOMAIN b.steps = 1..n /\ (w.upstream # "none" => b.up # 0)
        /\ Asks(w, b.source, b.up, b.steps) /\ ~Flawed(b.steps) /\ Len(b.steps) = n
    <3>1. /\ DOMAIN b.steps = 1..n /\ (w.upstream # "none" => b.up # 0)
          /\ Asks(w, b.source, b.up, b.steps) /\ ~Flawed(b.steps)
      BY <1>1, <2>1 DEF FlawInv, FlawKept
    <3>2. Len(b.steps) = n
      BY <1>1, <2>1 DEF RuntimeInv, RuntimeKept
    <3> QED BY <3>1, <3>2
  <2>3. b.steps[i].result.data = Computed(r)
    BY <2>1, <2>2 DEF Flawed
  <2>4. PICK e : r = Request(w, i, b.source, b.up, b.steps, e)
    BY <2>1, <2>2 DEF Asks
  <2>5. /\ r.source = b.source /\ r.up = (IF Up \in w.steps[i].data THEN b.up ELSE 0)
        /\ r.data = [j \in w.steps[i].data \ {Up} |-> b.steps[j].result.data]
    BY <2>4 DEF Request
  <2>6. Up \in w.steps[i].data => b.up # 0
    BY <2>1, <2>2, Indices
  <2>7. UNION {r.data[j] : j \in DOMAIN r.data} = UNION {b.steps[j].result.data : j \in w.steps[i].data \ {Up}}
    BY <2>5
  <2> HIDE DEF b, r
  <2>8. Computed(r) = Genuine(w, i, b)
    BY <2>5, <2>6, <2>7 DEF Computed, Genuine
  <2> QED BY <2>3, <2>8 DEF b
<1> QED BY <1>1, StageAlways, RuntimeAlways, FlawAlways, PTL

-----------------------------------------------------------------------------
(* Proofs: the kinds of steps. *)

\* A stage is taken: what it has found, and what it changes of the bundle.
Found ==
  /\ Head(todo) = "inspect" => Accepts(w, replayed)
  /\ Head(todo) = "select" => Selected(work)
  /\ Head(todo) = "validate" => Accepts(w, work)
  /\ Head(todo) = "bind" => replayed = Blank \/ version = replayed.runtime
  /\ Head(todo) = "match" => SameNumbers(replayed.steps, work.steps)
  /\ Head(todo) = "attest" => SameNumbers(work.steps, again)
Changes(parts) ==
  DOMAIN work' = BundleFields /\ \A part \in BundleFields \ parts : work'[part] = work[part]
Makes ==
  \/ Head(todo) \notin {"upstream", "execute", "verify", "attest", "receipt"} /\ work' = work
  \/ Head(todo) = "upstream" /\ Changes({"pair"}) /\ (work.pair)' = work.up
  \/ /\ Head(todo) = "execute" /\ Changes({"session", "runtime"}) /\ Len(work.steps) = n
     /\ (work.session)' = <<Len(sessions) + 1, occurrence'>> /\ (work.runtime)' = bound
  \/ /\ Head(todo) \in {"verify", "attest"} /\ Changes({"verification"})
     /\ (work.verification)' =
          [subject |-> Digest(work), again |-> IF Head(todo) = "verify" THEN <<>> ELSE again]
  \/ Head(todo) = "receipt" /\ Changes({"receipt"}) /\ (work.receipt)' = ReceiptOf(work, replayed)
Takes ==
  /\ todo # <<>> /\ Done /\ UNCHANGED <<kind, replayed, outcome, sessions, version, flaws, changes>>
  /\ bound' = (IF Head(todo) = "bind" THEN version ELSE bound)
  /\ again' = (IF Head(todo) \in {"verify", "attest"} THEN <<>> ELSE again)
  /\ Found /\ Makes

LEMMA TakesDecide ==
  ASSUME StageInv, NEW name, name \notin {"upstream", "execute", "verify", "attest", "receipt", "bind"},
         Stage(name), Done,
         UNCHANGED <<work, again, bound, replayed, outcome, kind, sessions, envVars>>,
         Found
  PROVE  Takes
BY DEF Takes, Makes, Stage, envVars

LEMMA Decides ==
  ASSUME StageInv, NEW name, name \in {"inspect", "validate", "select", "compare", "match"},
         NEW why, why # "running", NEW holds, Decide(name, holds, why),
         Stage(name) /\ holds => Found
  PROVE  Takes \/ (~holds /\ Stage(name) /\ Refuse(why) /\ UNCHANGED <<kind, sessions, envVars>>)
<1>1. CASE holds /\ Done /\ UNCHANGED <<work, again, bound, replayed, outcome, occurrence>>
  BY <1>1, TakesDecide DEF Decide
<1>2. CASE ~holds /\ Refuse(why)
  BY <1>2 DEF Decide
<1> QED BY <1>1, <1>2 DEF Decide

\* Why a call is refused.
Refused ==
  \/ Head(todo) = "inspect" /\ ~Accepts(w, replayed) /\ outcome' = "rejected"
  \/ Head(todo) = "validate" /\ ~Accepts(w, work) /\ outcome' = "invalid"
  \/ Head(todo) = "select" /\ outcome' = "unselected"
  \/ Head(todo) = "compare" /\ ~SameContents(Rerun.steps, again) /\ outcome' = "unreproduced"
  \/ Head(todo) = "match" /\ ~SameNumbers(replayed.steps, work.steps) /\ outcome' = "unmatched"
  \/ Head(todo) = "attest" /\ ~SameNumbers(work.steps, again) /\ outcome' = "unreproduced"
  \/ Head(todo) = "upstream" /\ flaws + changes > 0 /\ outcome' = "upstream"
  \/ Head(todo) = "bind" /\ replayed # Blank /\ version # replayed.runtime /\ outcome' = "runtime"
  \/ Head(todo) = "execute" /\ ~Verified(work.steps) /\ outcome' = "runtime"
  \/ Head(todo) \in {"rerun", "reproduce"} /\ ~Verified(again) /\ outcome' = "runtime"
  \/ Head(todo) = "verify" /\ ~Unchanged(w.verifier) /\ outcome' = "runtime"
Stops == todo # <<>> /\ Refused /\ ~Running' /\ UNCHANGED <<kind, sessions, envVars>>

LEMMA Decided ==
  ASSUME StageInv, Inspect \/ Validate \/ Select \/ Compare \/ Match
  PROVE  Takes \/ Stops
<1>1. CASE Inspect
  <2>1. Takes \/ (~Accepts(w, replayed) /\ Stage("inspect") /\ Refuse("rejected") /\ UNCHANGED <<kind, sessions, envVars>>)
    BY <1>1, Decides DEF Inspect, Found, Stage
  <2> QED BY <2>1 DEF Stops, Refused, Stage, Refuse, Running
<1>2. CASE Validate
  <2>1. Takes \/ (~Accepts(w, work) /\ Stage("validate") /\ Refuse("invalid") /\ UNCHANGED <<kind, sessions, envVars>>)
    BY <1>2, Decides DEF Validate, Found, Stage
  <2> QED BY <2>1 DEF Stops, Refused, Stage, Refuse, Running
<1>3. CASE Select
  <2>1. Takes \/ (~Selected(work) /\ Stage("select") /\ Refuse("unselected") /\ UNCHANGED <<kind, sessions, envVars>>)
    BY <1>3, Decides DEF Select, Found, Stage
  <2> QED BY <2>1 DEF Stops, Refused, Stage, Refuse, Running
<1>4. CASE Compare
  <2>1. \/ Takes
        \/ ~SameContents(Rerun.steps, again) /\ Stage("compare") /\ Refuse("unreproduced") /\ UNCHANGED <<kind, sessions, envVars>>
    BY <1>4, Decides DEF Compare, Found, Stage
  <2> QED BY <2>1 DEF Stops, Refused, Stage, Refuse, Running
<1>5. CASE Match
  <2>1. \/ Takes
        \/ ~SameNumbers(replayed.steps, work.steps) /\ Stage("match") /\ Refuse("unmatched") /\ UNCHANGED <<kind, sessions, envVars>>
    BY <1>5, Decides DEF Match, Found, Stage
  <2> QED BY <2>1 DEF Stops, Refused, Stage, Refuse, Running
<1> QED BY <1>1, <1>2, <1>3, <1>4, <1>5

LEMMA Taken ==
  ASSUME StageInv, ReplayUpstream \/ Bind
  PROVE  Takes \/ Stops
<1>1. CASE ReplayUpstream
  <2>1. todo # <<>> /\ Head(todo) = "upstream" /\ UNCHANGED <<kind, sessions, envVars>> /\ DOMAIN work = BundleFields
    BY <1>1 DEF ReplayUpstream, Stage, StageInv
  <2>2. CASE work' = [work EXCEPT !.pair = work.up] /\ Done /\ UNCHANGED <<again, bound, replayed, outcome, occurrence>>
    <3>1. Changes({"pair"}) /\ (work.pair)' = work.up
      BY <2>1, <2>2 DEF Changes, BundleFields
    <3> QED BY <2>1, <2>2, <3>1 DEF Takes, Makes, Found, envVars
  <2>3. CASE flaws + changes > 0 /\ Refuse("upstream")
    BY <2>1, <2>3 DEF Stops, Refused, Refuse, Running
  <2> QED BY <1>1, <2>2, <2>3 DEF ReplayUpstream
<1>2. CASE Bind
  <2>1. todo # <<>> /\ Head(todo) = "bind" /\ UNCHANGED <<kind, sessions, envVars>>
    BY <1>2 DEF Bind, Stage
  <2>2. CASE replayed # Blank /\ version # replayed.runtime /\ Refuse("runtime")
    BY <2>1, <2>2 DEF Stops, Refused, Refuse, Running
  <2>3. CASE /\ replayed = Blank \/ version = replayed.runtime
             /\ bound' = version /\ Done /\ UNCHANGED <<work, again, replayed, outcome, occurrence>>
    BY <2>1, <2>3 DEF Takes, Makes, Found, envVars
  <2> QED BY <1>2, <2>2, <2>3 DEF Bind
<1> QED BY <1>1, <1>2

LEMMA Ended ==
  ASSUME StageInv, ExecuteEnd \/ AgainEnd \/ VerifyRerun \/ VerifyReproduction \/ AddReceipt
  PROVE  Takes
<1> USE DEF StageInv
<1>1. CASE ExecuteEnd
  <2>1. /\ todo # <<>> /\ Head(todo) = "execute" /\ Len(work.steps) = n /\ Done
        /\ UNCHANGED <<kind, again, bound, replayed, outcome, sessions, envVars>>
        /\ work' = [work EXCEPT !.session = Identity(occurrence'), !.runtime = bound]
    BY <1>1 DEF ExecuteEnd, Stage
  <2>2. Changes({"session", "runtime"}) /\ (work.runtime)' = bound /\ (work.session)' = Identity(occurrence')
    BY <2>1 DEF Changes, BundleFields
  <2> QED BY <2>1, <2>2 DEF Takes, Makes, Found, envVars, Identity
<1>2. CASE AgainEnd
  BY <1>2 DEF AgainEnd, Takes, Makes, Found, Stage, envVars
<1>3. ASSUME NEW steps, Verify(steps), todo # <<>>, Head(todo) \in {"verify", "attest"},
             steps = (IF Head(todo) = "verify" THEN <<>> ELSE again),
             Head(todo) = "attest" => SameNumbers(work.steps, again)
      PROVE  Takes
  <2>1. Changes({"verification"}) /\ (work.verification)' = [subject |-> Digest(work), again |-> steps]
    BY <1>3 DEF Verify, Changes, BundleFields
  <2> QED BY <1>3, <2>1 DEF Takes, Makes, Found, Verify, envVars
<1>4. CASE VerifyRerun
  BY <1>3, <1>4 DEF VerifyRerun, Stage
<1>5. CASE VerifyReproduction
  BY <1>3, <1>5 DEF VerifyReproduction, Stage
<1>6. CASE AddReceipt
  <2>1. /\ todo # <<>> /\ Head(todo) = "receipt" /\ Done
        /\ UNCHANGED <<kind, again, bound, replayed, outcome, sessions, envVars>>
        /\ work' = [work EXCEPT !.receipt = ReceiptOf(work, replayed)]
    BY <1>6 DEF AddReceipt, Stage, ReceiptOf
  <2>2. Changes({"receipt"}) /\ (work.receipt)' = ReceiptOf(work, replayed)
    BY <2>1 DEF Changes, BundleFields
  <2> QED BY <2>1, <2>2 DEF Takes, Makes, Found, envVars
<1> QED BY <1>1, <1>2, <1>4, <1>5, <1>6

LEMMA Stopped ==
  ASSUME StageInv, ProviderChanged \/ Unreproduced
  PROVE  Stops
BY DEF ProviderChanged, Unreproduced, Stage, Stops, Refused, Refuse, Running

LEMMA Steps ==
  StageInv /\ FlawInv /\ [Next]_vars =>
    \/ Starts \/ Takes \/ Stops \/ ExecuteStep \/ AgainStep \/ Return
    \/ Upgrade \/ UNCHANGED vars
BY Started, Decided, Taken, Ended, Stopped DEF Next, Stages

\* What a stage that is taken leaves alone, and what is left after it.
LEMMA TakenParts ==
  ASSUME StageInv, Takes
  PROVE  /\ DOMAIN work' = BundleFields
         /\ (work.steps)' = work.steps /\ (work.source)' = work.source /\ (work.up)' = work.up
         /\ Head(todo) \notin {"verify", "attest"} => (work.verification)' = work.verification
         /\ Head(todo) # "upstream" => (work.pair)' = work.pair
         /\ Head(todo) # "execute" => (work.session)' = work.session /\ (work.runtime)' = work.runtime
         /\ Head(todo) # "receipt" => (work.receipt)' = work.receipt
<1>1. DOMAIN work = BundleFields
  BY DEF StageInv
<1>2. CASE Head(todo) \notin {"upstream", "execute", "verify", "attest", "receipt"} /\ work' = work
  BY <1>1, <1>2
<1>3. CASE Head(todo) = "upstream" /\ Changes({"pair"})
  BY <1>3 DEF Changes, BundleFields
<1>4. CASE Head(todo) = "execute" /\ Changes({"session", "runtime"})
  BY <1>4 DEF Changes, BundleFields
<1>5. CASE Head(todo) \in {"verify", "attest"} /\ Changes({"verification"})
  BY <1>5 DEF Changes, BundleFields
<1>6. CASE Head(todo) = "receipt" /\ Changes({"receipt"})
  BY <1>6 DEF Changes, BundleFields
<1> QED BY <1>2, <1>3, <1>4, <1>5, <1>6 DEF Takes, Makes

LEMMA TakenStages ==
  ASSUME StageInv, Takes
  PROVE  /\ Running /\ Running' /\ Progress /\ Left = {Head(todo)} \cup Left' /\ w' = w /\ n' = n
         /\ Head(todo) # "validate" => Head(todo) \notin Left'
         /\ \A name : <<name, Head(todo)>> \in Precedes => name \notin Left
         /\ {"rerun", "compare", "verify"} \cap Left = {} \/ {"reproduce", "attest"} \cap Left = {}
<1>1. todo # <<>> /\ Done /\ UNCHANGED <<kind, outcome>>
  BY DEF Takes
<1> QED BY <1>1, Heads, Still DEF Left, Done, Running

\* The verification that a stage adds.
LEMMA TakenVerification ==
  ASSUME StageInv, Takes, Head(todo) \in {"verify", "attest"}
  PROVE  /\ (work.verification)' # None /\ (work.verification.subject)' = Digest(work)
         /\ (work.verification.again)' = (IF Head(todo) = "verify" THEN <<>> ELSE again)
<1>1. (work.verification)' = [subject |-> Digest(work), again |-> IF Head(todo) = "verify" THEN <<>> ELSE again]
  BY DEF Takes, Makes
<1>2. \A s, t : [subject |-> s, again |-> t] # None
  <2> SUFFICES ASSUME NEW s, NEW t
               PROVE  [subject |-> s, again |-> t] # None
    OBVIOUS
  <2>1. DOMAIN [subject |-> s, again |-> t] # DOMAIN None
    BY DEF None
  <2> QED BY <2>1
<1> QED BY <1>1, <1>2

-----------------------------------------------------------------------------
(* Proofs: what the steps are made of. *)

LEMMA InputRefsOf ==
  ASSUME kind \in DOMAIN Catalog, NEW i \in 1..n, NEW source, NEW up, NEW s, NEW t,
         \A j \in 1..i - 1 : s[j] = t[j]
  PROVE  InputRefs(w, i, source, up, s) = InputRefs(w, i, source, up, t)
<1>1. \A j \in w.steps[i].refs : j = 0 \/ j = Up \/ j \in 1..i - 1
  BY Flows DEF WellFormed
<1>2. \A j \in w.steps[i].refs :
        (CASE j = 0 -> source [] j = Up -> up [] OTHER -> ResultId(s[j]))
          = (CASE j = 0 -> source [] j = Up -> up [] OTHER -> ResultId(t[j]))
  BY <1>1
<1> QED BY <1>2 DEF InputRefs

\* What Called makes.
LEMMA CalledMakes ==
  ASSUME NEW done, NEW exec, NEW flawed
  PROVE  LET call == Called(done, exec, flawed)
             i == Len(done) + 1
         IN  /\ call.exec = exec
             /\ call.request = Request(w, i, work.source, work.up, done, exec)
             /\ call.refs = InputRefs(w, i, work.source, work.up, done)
             /\ call.runtime = (IF "declared" \in w.checks THEN bound ELSE <<>>)
             /\ call.result.exec = Carried(w, i, {"result", "unbound"}, exec)
             /\ call.result.refs = (IF "refs" \in w.steps[i].carries THEN call.refs ELSE <<>>)
             /\ Computed(call.request) \subseteq call.result.data
             /\ ~w.native => call.result.native = None
             /\ w.native => call.result.native # None
BY DEF Called, Identity, None

LEMMA BuiltNothing ==
  \A flow, runtime, source, up : Built(flow, runtime, source, up, <<>>) /\ Named(flow, <<>>)
BY Empty DEF Built, Named

LEMMA BuiltCalled ==
  ASSUME kind \in DOMAIN Catalog, NEW done, IsSeq(done), Len(done) < n, NEW exec, NEW flawed,
         Built(w, bound, work.source, work.up, done)
  PROVE  Built(w, bound, work.source, work.up, Append(done, Called(done, exec, flawed)))
<1> DEFINE call == Called(done, exec, flawed)
           steps == Append(done, call)
<1>1. /\ Len(steps) = Len(done) + 1 /\ steps[Len(done) + 1] = call
      /\ \A i \in 1..Len(done) : steps[i] = done[i]
  BY Appended
<1>2. Len(done) \in Nat /\ n \in Nat
  BY Sequences, Flows
<1>3. /\ call.exec = exec
      /\ call.request = Request(w, Len(done) + 1, work.source, work.up, done, exec)
      /\ call.refs = InputRefs(w, Len(done) + 1, work.source, work.up, done)
      /\ call.runtime = (IF "declared" \in w.checks THEN bound ELSE <<>>)
      /\ call.result.exec = Carried(w, Len(done) + 1, {"result", "unbound"}, exec)
      /\ call.result.refs = (IF "refs" \in w.steps[Len(done) + 1].carries THEN call.refs ELSE <<>>)
      /\ Computed(call.request) \subseteq call.result.data
      /\ ~w.native => call.result.native = None
  BY CalledMakes
<1> HIDE DEF steps, call
<1>4. ASSUME NEW i \in 1..Len(steps)
      PROVE  /\ steps[i].request = Request(w, i, work.source, work.up, steps, steps[i].exec)
             /\ steps[i].refs = InputRefs(w, i, work.source, work.up, steps)
             /\ steps[i].runtime = (IF "declared" \in w.checks THEN bound ELSE <<>>)
             /\ steps[i].result.exec = Carried(w, i, {"result", "unbound"}, steps[i].exec)
             /\ steps[i].result.refs = (IF "refs" \in w.steps[i].carries THEN steps[i].refs ELSE <<>>)
             /\ Computed(steps[i].request) \subseteq steps[i].result.data
             /\ ~w.native => steps[i].result.native = None
  <2>1. i \in 1..n /\ \A j \in 1..i - 1 : j \in 1..Len(done)
    BY <1>1, <1>2
  <2>2. \A j \in 1..i - 1 : done[j] = steps[j]
    BY <1>1, <2>1
  <2>3. /\ \A e : Request(w, i, work.source, work.up, done, e) = Request(w, i, work.source, work.up, steps, e)
        /\ InputRefs(w, i, work.source, work.up, done) = InputRefs(w, i, work.source, work.up, steps)
    BY <2>1, <2>2, RequestOf, InputRefsOf
  <2>4. CASE i = Len(done) + 1
    BY <1>1, <1>3, <2>3, <2>4
  <2>5. CASE i \in 1..Len(done)
    <3>1. /\ done[i].request = Request(w, i, work.source, work.up, done, done[i].exec)
          /\ done[i].refs = InputRefs(w, i, work.source, work.up, done)
          /\ done[i].runtime = (IF "declared" \in w.checks THEN bound ELSE <<>>)
          /\ done[i].result.exec = Carried(w, i, {"result", "unbound"}, done[i].exec)
          /\ done[i].result.refs = (IF "refs" \in w.steps[i].carries THEN done[i].refs ELSE <<>>)
          /\ Computed(done[i].request) \subseteq done[i].result.data
          /\ ~w.native => done[i].result.native = None
      BY <2>5 DEF Built
    <3> QED BY <1>1, <2>3, <2>5, <3>1
  <2> QED BY <1>1, <1>2, <2>4, <2>5
<1> QED BY <1>4 DEF Built, steps, call

LEMMA NamedCalled ==
  ASSUME kind \in DOMAIN Catalog, NEW done, IsSeq(done), Named(w, done), NEW call,
         call.exec # None, w.native => call.result.native # None
  PROVE  Named(w, Append(done, call))
<1> DEFINE steps == Append(done, call)
<1>1. /\ Len(steps) = Len(done) + 1 /\ steps[Len(done) + 1] = call /\ Len(done) \in Nat
      /\ \A i \in 1..Len(done) : steps[i] = done[i]
  BY Appended, Sequences
<1> HIDE DEF steps
<1>2. \A i \in 1..Len(steps) : i = Len(done) + 1 \/ i \in 1..Len(done)
  BY <1>1
<1> QED BY <1>1, <1>2 DEF Named, steps

\* An execution just drawn is no other one of this call.
Differ(steps) == \A i, j \in DOMAIN steps : steps[i].exec = steps[j].exec => i = j
LEMMA DiffersCalled ==
  ASSUME NEW c, NEW k \in Nat, NEW done, IsSeq(done), Named(w, done), NEW call, call.exec = <<c, k + 1>>,
         Drawn(c, k, done), Differ(done)
  PROVE  Differ(Append(done, call))
<1> DEFINE steps == Append(done, call)
<1>1. /\ Len(steps) = Len(done) + 1 /\ steps[Len(done) + 1] = call /\ Len(done) \in Nat
      /\ \A i \in 1..Len(done) : steps[i] = done[i]
      /\ DOMAIN steps = 1..Len(done) + 1 /\ DOMAIN done = 1..Len(done)
  BY Appended, Sequences
<1> HIDE DEF steps
<1>2. ASSUME NEW i \in 1..Len(done)
      PROVE  steps[i].exec # call.exec
  <2>1. done[i].exec # None
    BY DEF Named
  <2>2. done[i].exec \in Occurrences(done)
    BY <1>1, <2>1 DEF Occurrences
  <2> QED BY <1>1, <2>2 DEF Drawn
<1>3. ASSUME NEW i \in DOMAIN steps, NEW j \in DOMAIN steps, steps[i].exec = steps[j].exec
      PROVE  i = j
  <2>1. /\ i = Len(done) + 1 \/ i \in 1..Len(done)
        /\ j = Len(done) + 1 \/ j \in 1..Len(done)
    BY <1>1
  <2>2. i \in 1..Len(done) /\ j \in 1..Len(done) => done[i].exec = done[j].exec
    BY <1>1, <1>3
  <2> QED BY <1>1, <1>2, <1>3, <2>1, <2>2 DEF Differ
<1> QED BY <1>3 DEF steps, Differ

LEMMA BuiltTaken ==
  ASSUME StageInv, BuiltInv, Takes
  PROVE  BuiltInv'
<1>1. /\ Running /\ BuiltGoing /\ Progress /\ Left = {Head(todo)} \cup Left' /\ w' = w
      /\ \A name : <<name, Head(todo)>> \in Precedes => name \notin Left
  BY TakenStages DEF BuiltInv
<1>2. /\ (work.steps)' = work.steps /\ (work.source)' = work.source /\ (work.up)' = work.up
      /\ Head(todo) \notin {"verify", "attest"} => (work.verification)' = work.verification
  BY TakenParts
<1>3. CASE Head(todo) = "bind"
  <2>1. again = <<>> /\ work.steps = <<>> /\ work.verification = None /\ again' = again
    BY <1>1, <1>3 DEF Progress, Takes
  <2>2. (work.steps)' = <<>> /\ again' = <<>> /\ (work.verification)' = None
    BY <1>2, <1>3, <2>1
  <2>3. ExecutionsDiffer(work)'
    BY <2>2 DEF ExecutionsDiffer
  <2> QED BY <2>2, <2>3, BuiltNothing DEF BuiltGoing, BuiltInv, BuiltKept, Takes, w
<1>4. CASE Head(todo) # "bind"
  <2>1. bound' = bound /\ (again' = again \/ again' = <<>>)
    BY <1>4 DEF Takes
  <2>2. /\ Built(w, bound, work.source, work.up, again') /\ ExecutionsDiffer(work)'
        /\ "attest" \in Left' => Named(w, again')
    BY <1>1, <1>2, <2>1, BuiltNothing DEF BuiltGoing, ExecutionsDiffer
  <2>3. (work.verification)' # None =>
          /\ Built(w, bound, work.source, work.up, (work.verification.again)')
          /\ Named(w, (work.verification.again)')
    <3>1. CASE Head(todo) \in {"verify", "attest"}
      BY <1>1, <3>1, TakenVerification, BuiltNothing DEF BuiltGoing
    <3>2. CASE Head(todo) \notin {"verify", "attest"}
      BY <1>1, <1>2, <3>2 DEF BuiltGoing
    <3> QED BY <3>1, <3>2
  <2>4. BuiltGoing'
    BY <1>1, <1>2, <2>1, <2>2, <2>3 DEF BuiltGoing
  <2> QED BY <2>4 DEF BuiltInv, BuiltKept, Takes, w
<1> QED BY <1>3, <1>4

LEMMA BuiltStep == StageInv /\ RuntimeInv /\ OccurrenceInv /\ FlawInv /\ BuiltInv /\ [Next]_vars => BuiltInv'
<1> SUFFICES ASSUME StageInv, RuntimeInv, OccurrenceInv, FlawInv, BuiltInv, [Next]_vars
             PROVE  BuiltInv'
  OBVIOUS
<1>1. ASSUME UNCHANGED <<kind, sessions>>
      PROVE  BuiltKept' /\ w' = w
  BY <1>1, Still DEF BuiltInv, BuiltKept
<1>2. CASE Starts
  <2>1. (work.steps)' = <<>> /\ again' = <<>> /\ (work.verification)' = None
    BY <1>2, Blanks DEF Starts, Call, Blank
  <2>2. ExecutionsDiffer(work)'
    BY <2>1 DEF ExecutionsDiffer
  <2>3. BuiltGoing'
    BY <2>1, <2>2, BuiltNothing DEF BuiltGoing
  <2> QED BY <1>1, <1>2, <2>3 DEF Starts, BuiltInv
<1>3. CASE Takes
  BY <1>3, BuiltTaken
<1>4. CASE Stops
  BY <1>1, <1>4 DEF Stops, BuiltInv
<1>5. CASE ExecuteStep
  <2>1. PICK flawed \in BOOLEAN :
          /\ Occurs(flawed)
          /\ work' = [work EXCEPT !.steps = Append(@, Called(@, Identity(occurrence + 1), flawed))]
    BY <1>5, StageExecute
  <2> DEFINE call == Called(work.steps, Identity(occurrence + 1), flawed)
  <2>2. /\ todo # <<>> /\ Head(todo) = "execute" /\ again' = again /\ Len(work.steps) < n
        /\ UNCHANGED <<kind, todo, bound, outcome, sessions>>
    BY <1>5, <2>1 DEF ExecuteStep, Stage, Occurs
  <2>3. /\ Running /\ BuiltGoing /\ Progress /\ IsSeq(work.steps) /\ "execute" \in Left
        /\ kind \in DOMAIN Catalog /\ OccurrenceGoing /\ occurrence \in Nat
    BY <2>2, Heads DEF BuiltInv, StageInv, OccurrenceInv
  <2>4. /\ call.exec = <<Len(sessions) + 1, occurrence + 1>> /\ call.exec # None
        /\ w.native => call.result.native # None
    BY CalledMakes DEF Identity, None
  <2>5. work' = [work EXCEPT !.steps = Append(@, call)]
    BY <2>1
  <2>6. Built(w, bound, work.source, work.up, Append(work.steps, call))
    BY <2>2, <2>3, BuiltCalled DEF BuiltGoing
  <2> HIDE DEF call
  <2>7. /\ (work.steps)' = Append(work.steps, call) /\ (work.source)' = work.source
        /\ (work.up)' = work.up /\ (work.verification)' = None
    BY <2>3, <2>5 DEF StageInv, BundleFields, Progress
  <2>8. Named(w, Append(work.steps, call))
    BY <2>3, <2>4, NamedCalled DEF BuiltGoing
  <2>9. ExecutionsDiffer(work)'
    <3>1. Differ(work.steps)
      BY <2>3 DEF BuiltGoing, ExecutionsDiffer, Differ
    <3>2. Differ(Append(work.steps, call))
      <4>1. Named(w, work.steps) /\ Drawn(Len(sessions) + 1, occurrence, work.steps)
        BY <2>3 DEF BuiltGoing, OccurrenceGoing
      <4>2. call.exec = <<Len(sessions) + 1, occurrence + 1>> /\ IsSeq(work.steps) /\ occurrence \in Nat
        BY <2>3, <2>4
      <4> QED BY <3>1, <4>1, <4>2, DiffersCalled
    <3> QED BY <2>7, <3>2 DEF ExecutionsDiffer, Differ
  <2>10. Left' = Left /\ w' = w
    BY <2>2, Still DEF Left
  <2>11. BuiltGoing'
    BY <2>2, <2>3, <2>6, <2>7, <2>8, <2>9, <2>10 DEF BuiltGoing
  <2> QED BY <1>1, <2>2, <2>11 DEF BuiltInv
<1>6. CASE AgainStep
  <2>1. /\ work' = work /\ todo # <<>> /\ Head(todo) \in {"rerun", "reproduce"} /\ Len(again) < n
        /\ \E flawed \in BOOLEAN : \E exec :
             /\ Occurs(flawed) /\ again' = Append(again, Called(again, exec, flawed))
             /\ Head(todo) = "reproduce" => exec = Identity(occurrence + 1)
    BY <1>6, StageAgain
  <2>2. PICK flawed \in BOOLEAN :
          \E exec : /\ Occurs(flawed) /\ again' = Append(again, Called(again, exec, flawed))
                    /\ Head(todo) = "reproduce" => exec = Identity(occurrence + 1)
    BY <2>1
  <2>3. PICK exec : /\ Occurs(flawed) /\ again' = Append(again, Called(again, exec, flawed))
                    /\ Head(todo) = "reproduce" => exec = Identity(occurrence + 1)
    BY <2>2
  <2> DEFINE call == Called(again, exec, flawed)
  <2>4. UNCHANGED <<kind, todo, bound, outcome, sessions>> /\ again' = Append(again, call)
    BY <2>3 DEF Occurs
  <2>5. /\ Running /\ BuiltGoing /\ IsSeq(again) /\ Head(todo) \in Left /\ kind \in DOMAIN Catalog
        /\ {"rerun", "compare", "verify"} \cap Left = {} \/ {"reproduce", "attest"} \cap Left = {}
    BY <2>1, Heads DEF BuiltInv, StageInv
  <2>6. "attest" \in Left => call.exec # None /\ (w.native => call.result.native # None)
    <3>1. call.exec = exec /\ (w.native => call.result.native # None)
      BY CalledMakes
    <3>2. "attest" \in Left => exec = Identity(occurrence + 1)
      BY <2>1, <2>3, <2>5
    <3>3. Identity(occurrence + 1) # None
      BY DEF Identity, None
    <3> HIDE DEF call
    <3> QED BY <3>1, <3>2, <3>3
  <2>7. Built(w, bound, work.source, work.up, again')
    BY <2>1, <2>4, <2>5, BuiltCalled DEF BuiltGoing
  <2> HIDE DEF call
  <2>8. "attest" \in Left => Named(w, again')
    BY <2>4, <2>5, <2>6, NamedCalled DEF BuiltGoing
  <2>9. Left' = Left /\ w' = w
    BY <2>4, Still DEF Left
  <2>10. BuiltGoing'
    BY <2>1, <2>4, <2>5, <2>7, <2>8, <2>9 DEF BuiltGoing, ExecutionsDiffer
  <2> QED BY <1>1, <2>4, <2>10 DEF BuiltInv
<1>7. CASE Return
  <2>1. /\ ~Running' /\ Running /\ Progress /\ Left = {} /\ w' = w /\ Len(sessions) \in Nat
        /\ Len(sessions') = Len(sessions) + 1 /\ sessions'[Len(sessions) + 1] = work
        /\ \A k \in 1..Len(sessions) : sessions'[k] = sessions[k]
    BY <1>7, StageReturn
  <2>2. Built(w, work.runtime, work.source, work.up, work.steps)
    BY <2>1 DEF BuiltInv, BuiltGoing, RuntimeInv, RuntimeGoing
  <2>3. \A k \in 1..Len(sessions') : k \in 1..Len(sessions) \/ k = Len(sessions) + 1
    BY <2>1
  <2>4. ASSUME NEW k \in 1..Len(sessions')
        PROVE  Built(w, sessions'[k].runtime, sessions'[k].source, sessions'[k].up, sessions'[k].steps)
    <3>1. CASE k \in 1..Len(sessions)
      BY <2>1, <3>1 DEF BuiltInv, BuiltKept
    <3>2. CASE k = Len(sessions) + 1
      BY <2>1, <2>2, <3>2
    <3> QED BY <2>3, <3>1, <3>2
  <2>5. BuiltKept'
    BY <2>1, <2>4 DEF BuiltKept
  <2> QED BY <2>1, <2>5 DEF BuiltInv
<1>8. CASE Upgrade \/ UNCHANGED vars
  <2>1. UNCHANGED <<kind, work, again, bound, sessions>> /\ Left' = Left /\ w' = w /\ Running' = Running
    BY <1>8, StageUpgrade, StageSame DEF Upgrade, callVars, vars
  <2>2. Running => BuiltGoing'
    BY <2>1 DEF BuiltInv, BuiltGoing, ExecutionsDiffer
  <2> QED BY <1>1, <2>1, <2>2 DEF BuiltInv
<1> QED BY <1>2, <1>3, <1>4, <1>5, <1>6, <1>7, <1>8, Steps

LEMMA BuiltAlways == Spec => []BuiltInv
<1>1. Init => BuiltInv
  <2> SUFFICES ASSUME Init
               PROVE  BuiltInv
    OBVIOUS
  <2>1. 1..Len(sessions) = {} /\ ~Running
    BY Initially DEF Init
  <2> QED BY <2>1 DEF BuiltInv, BuiltKept
<1>2. StageInv /\ RuntimeInv /\ OccurrenceInv /\ FlawInv /\ BuiltInv /\ [Next]_vars => BuiltInv'
  BY BuiltStep
<1> QED BY <1>1, <1>2, StageAlways, RuntimeAlways, OccurrenceAlways, FlawAlways, PTL DEF Spec

-----------------------------------------------------------------------------
(* Proofs: what a call is about. *)

\* What the stages of a call provide for the comparisons of its workflow.
LEMMA Provided ==
  ASSUME kind \in DOMAIN Catalog
  PROVE  /\ Comparable(w)
         /\ \A stages \in {w.create, w.replay} :
              /\ Ordered(stages) /\ Complete(stages) /\ Provides(w, stages)
              /\ Reproduces(w) => "verify" \notin Range(stages)
         /\ {"inspect", "match", "receipt"} \cap Range(w.create) = {}
<1>1. WellFormed(w)
  BY Flows
<1>2. ASSUME NEW stages \in {w.create, w.replay}
      PROVE  /\ Ordered(stages) /\ Complete(stages) /\ Provides(w, stages)
             /\ Reproduces(w) => "verify" \notin Range(stages)
  <2>1. Ordered(stages) /\ Complete(stages) /\ Provides(w, stages)
    BY <1>1, <1>2 DEF WellFormed
  <2> QED BY <2>1 DEF Provides, Ordered
<1> QED BY <1>1, <1>2 DEF WellFormed

LEMMA OriginTaken ==
  ASSUME StageInv, OriginInv, Takes
  PROVE  OriginInv'
<1>1. /\ Running /\ OriginGoing /\ Left = {Head(todo)} \cup Left' /\ w' = w /\ n' = n
      /\ Head(todo) # "validate" => Head(todo) \notin Left'
      /\ \A name : <<name, Head(todo)>> \in Precedes => name \notin Left
  BY TakenStages DEF OriginInv
<1>2. /\ (work.steps)' = work.steps /\ (work.source)' = work.source /\ (work.up)' = work.up
      /\ Head(todo) # "upstream" => (work.pair)' = work.pair
      /\ Head(todo) # "execute" => (work.session)' = work.session
  BY TakenParts
<1>3. /\ UNCHANGED <<kind, sessions, replayed>> /\ Gate' = Gate /\ Found /\ Makes
      /\ bound' = (IF Head(todo) = "bind" THEN version ELSE bound)
  BY DEF Takes, Gate
<1>4. {"inspect", "match", "receipt"} \cap Left' # {} => replayed # Blank
  BY <1>1 DEF OriginGoing
<1>5. replayed # Blank =>
        /\ DOMAIN replayed.steps = 1..n /\ work.source = replayed.source /\ work.up = replayed.up
        /\ \E k \in 1..Len(sessions) : replayed.session = sessions[k].session
        /\ "bind" \notin Left' => bound' = replayed.runtime
  BY <1>1, <1>3 DEF OriginGoing, Found
<1>6. "selected" \in w.checks /\ Gate \notin Left' => Selected(work)'
  <2> SUFFICES ASSUME "selected" \in w.checks, Gate \notin Left'
               PROVE  work.up = work.source
    BY <1>2 DEF Selected
  <2>1. CASE Gate \notin Left
    BY <1>1, <2>1 DEF OriginGoing, Selected
  <2>2. CASE Head(todo) = "select"
    BY <1>3, <2>2 DEF Found, Selected
  <2>3. CASE Head(todo) = "inspect"
    <3>1. Compared(w, replayed, "selected")
      BY <1>3, <2>3 DEF Found, Accepts
    <3>2. replayed.up = replayed.source
      BY <3>1 DEF Compared, StepChecks, Selected
    <3>3. replayed # Blank
      BY <1>1, <2>3 DEF OriginGoing
    <3> QED BY <1>5, <3>2, <3>3
  <2> QED BY <1>1, <2>1, <2>2, <2>3 DEF Gate
<1>7. "paired" \in w.checks /\ "upstream" \notin Left' => Paired(work)'
  BY <1>1, <1>2, <1>3 DEF OriginGoing, Paired, Makes
<1>8. "upstream" \in Left' => "execute" \in Left'
  BY <1>1 DEF OriginGoing, Precedes
<1>9. "execute" \notin Left' => \E x : (work.session)' = <<Len(sessions) + 1, x>>
  BY <1>1, <1>2, <1>3 DEF OriginGoing, Makes
<1>10. OriginGoing'
  BY <1>1, <1>2, <1>3, <1>4, <1>5, <1>6, <1>7, <1>8, <1>9 DEF OriginGoing
<1> QED BY <1>3, <1>10 DEF OriginInv, OriginKept

LEMMA OriginStep == StageInv /\ FlawInv /\ OriginInv /\ [Next]_vars => OriginInv'
<1> SUFFICES ASSUME StageInv, FlawInv, OriginInv, [Next]_vars
             PROVE  OriginInv'
  OBVIOUS
<1>1. ASSUME sessions' = sessions
      PROVE  OriginKept'
  BY <1>1 DEF OriginInv, OriginKept
<1>2. CASE Starts
  <2>1. PICK source, up, b :
          \/ Call(w.create, source, up, Blank)
          \/ /\ Call(w.replay, source, up, b) /\ source = b.source /\ up = b.up /\ DOMAIN b.steps = 1..n
             /\ \E k \in 1..Len(sessions) : b.session = sessions[k].session
    BY <1>2 DEF Starts
  <2>2. w' = w /\ n' = n /\ kind \in DOMAIN Catalog /\ sessions' = sessions /\ n \in Nat \ {0}
    BY <1>2, Still, Flows DEF Starts, StageInv
  <2>3. (work.source)' = source /\ (work.up)' = up
    BY <2>1 DEF Call, Blank
  <2>4. CASE Call(w.create, source, up, Blank)
    <3>1. Left' = Range(w.create) /\ replayed' = Blank /\ Gate' = "select"
      BY <2>4 DEF Call, Left, Gate
    <3>2. OriginGoing'
      BY <2>2, <3>1, Provided DEF OriginGoing, Provides, Comparable, Complete
    <3> QED BY <1>1, <2>2, <3>2 DEF OriginInv
  <2>5. CASE /\ Call(w.replay, source, up, b) /\ source = b.source /\ up = b.up /\ DOMAIN b.steps = 1..n
             /\ \E k \in 1..Len(sessions) : b.session = sessions[k].session
    <3>1. b # Blank
      <4>1. 1 \in 1..n /\ 1 \notin DOMAIN Blank.steps
        BY <2>2, Blanks
      <4> QED BY <2>5, <4>1
    <3>2. Left' = Range(w.replay) /\ replayed' = b /\ Gate' = "inspect"
      BY <2>5, <3>1 DEF Call, Left, Gate
    <3>3. OriginGoing'
      BY <2>2, <2>3, <2>5, <3>1, <3>2, Provided DEF OriginGoing, Provides, Comparable, Complete
    <3> QED BY <1>1, <2>2, <3>3 DEF OriginInv
  <2> QED BY <2>1, <2>4, <2>5
<1>3. CASE Takes
  BY <1>3, OriginTaken
<1>4. CASE Stops
  BY <1>1, <1>4 DEF Stops, OriginInv
<1>5. ASSUME Left' = Left, w' = w, n' = n, UNCHANGED <<replayed, bound, sessions>>,
             UNCHANGED <<work.source, work.up, work.pair, work.session>>, Running' = Running
      PROVE  OriginInv'
  <2>1. Running => OriginGoing'
    BY <1>5 DEF OriginInv, OriginGoing, Gate, Selected, Paired
  <2> QED BY <1>1, <1>5, <2>1 DEF OriginInv
<1>6. CASE ExecuteStep
  <2>1. PICK flawed \in BOOLEAN :
          /\ Occurs(flawed)
          /\ work' = [work EXCEPT !.steps = Append(@, Called(@, Identity(occurrence + 1), flawed))]
    BY <1>6, StageExecute
  <2>2. UNCHANGED <<work.source, work.up, work.pair, work.session>>
    BY <2>1 DEF StageInv, BundleFields
  <2>3. UNCHANGED <<kind, todo, replayed, bound, sessions, outcome>>
    BY <2>1 DEF Occurs
  <2> QED BY <1>5, <2>2, <2>3, Still DEF Left, Running
<1>7. CASE AgainStep
  <2>1. work' = work /\ \E flawed \in BOOLEAN : Occurs(flawed)
    BY <1>7, StageAgain
  <2>2. UNCHANGED <<kind, todo, replayed, bound, sessions, outcome>>
    BY <2>1 DEF Occurs
  <2> QED BY <1>5, <2>1, <2>2, Still DEF Left, Running
<1>8. CASE Return
  <2>1. /\ ~Running' /\ Running /\ Left = {} /\ Len(sessions) \in Nat
        /\ Len(sessions') = Len(sessions) + 1 /\ sessions'[Len(sessions) + 1] = work
        /\ \A k \in 1..Len(sessions) : sessions'[k] = sessions[k]
    BY <1>8, StageReturn
  <2>2. \E x : work.session = <<Len(sessions) + 1, x>>
    BY <2>1 DEF OriginInv, OriginGoing
  <2>3. \A k \in 1..Len(sessions') : k \in 1..Len(sessions) \/ k = Len(sessions) + 1
    BY <2>1
  <2>4. ASSUME NEW k \in 1..Len(sessions')
        PROVE  \E x : sessions'[k].session = <<k, x>>
    BY <2>1, <2>2, <2>3 DEF OriginInv, OriginKept
  <2>5. OriginKept'
    BY <2>1, <2>4 DEF OriginKept
  <2> QED BY <2>1, <2>5 DEF OriginInv
<1>9. CASE Upgrade \/ UNCHANGED vars
  <2>1. UNCHANGED <<work, replayed, bound, sessions>> /\ Left' = Left /\ w' = w /\ n' = n /\ Running' = Running
    BY <1>9, StageUpgrade, StageSame DEF Upgrade, callVars, vars
  <2> QED BY <1>5, <2>1
<1> QED BY <1>2, <1>3, <1>4, <1>6, <1>7, <1>8, <1>9, Steps

LEMMA OriginAlways == Spec => []OriginInv
<1>1. Init => OriginInv
  <2> SUFFICES ASSUME Init
               PROVE  OriginInv
    OBVIOUS
  <2>1. 1..Len(sessions) = {} /\ ~Running
    BY Initially DEF Init
  <2> QED BY <2>1 DEF OriginInv, OriginKept
<1>2. StageInv /\ FlawInv /\ OriginInv /\ [Next]_vars => OriginInv'
  BY OriginStep
<1> QED BY <1>1, <1>2, StageAlways, FlawAlways, PTL DEF Spec

-----------------------------------------------------------------------------
(* Proofs: what was compared. *)

LEMMA RecomputedSteps ==
  ASSUME kind \in DOMAIN Catalog, NEW b, NEW steps, Len(steps) = n
  PROVE  Recomputed(w, b, steps) <=> ~Flawed(steps)
BY Flows DEF Recomputed, Flawed

\* A run made as its workflow says passes the comparisons on its steps.
LEMMA StepsHold ==
  ASSUME kind \in DOMAIN Catalog, NEW b, NEW steps, Len(steps) = n,
         Built(w, b.runtime, b.source, b.up, steps), Ran(w, b.runtime, steps),
         "recomputed" \in w.checks => ~Flawed(steps)
  PROVE  RunHolds(w, b, steps)
<1>1. Index(w) = 1..n /\ Comparable(w)
  BY Flows, Provided
<1>2. \A i \in 1..n :
        /\ steps[i].request = Request(w, i, b.source, b.up, steps, steps[i].exec)
        /\ steps[i].refs = InputRefs(w, i, b.source, b.up, steps)
        /\ "declared" \in w.checks => steps[i].runtime = b.runtime
        /\ steps[i].result.exec = Carried(w, i, {"result", "unbound"}, steps[i].exec)
        /\ steps[i].result.refs = (IF "refs" \in w.steps[i].carries THEN steps[i].refs ELSE <<>>)
        /\ Computed(steps[i].request) \subseteq steps[i].result.data
  BY DEF Built
<1>3. Requests(w, b, steps) /\ Refs(w, b, steps) /\ About(w, b, steps)
  BY <1>1, <1>2 DEF Requests, Refs, About
<1>4. Envelopes(w, b, steps)
  BY <1>1, <1>2 DEF Envelopes, Carried
<1>5. "ran" \in w.checks => RanAsBound(w, b, steps)
  BY <1>1 DEF RanAsBound, Ran, Comparable
<1>6. "declared" \in w.checks => Declared(w, b, steps)
  BY <1>1, <1>2 DEF Declared
<1>7. "recomputed" \in w.checks => Recomputed(w, b, steps)
  BY RecomputedSteps
<1>8. ASSUME NEW name \in w.checks \cap StepChecks
      PROVE  OnSteps(w, b, steps, name)
  <2>1. name \in {"requests", "refs", "envelopes", "ran", "declared", "about", "recomputed"}
    BY DEF StepChecks
  <2>2. CASE name = "requests"
    BY <1>3, <2>2 DEF OnSteps
  <2>3. CASE name = "refs"
    BY <1>3, <2>3 DEF OnSteps
  <2>4. CASE name = "envelopes"
    BY <1>4, <2>4 DEF OnSteps
  <2>5. CASE name = "ran"
    BY <1>5, <2>5 DEF OnSteps
  <2>6. CASE name = "declared"
    BY <1>6, <2>6 DEF OnSteps
  <2>7. CASE name = "about"
    BY <1>3, <2>7 DEF OnSteps
  <2>8. CASE name = "recomputed"
    BY <1>7, <2>8 DEF OnSteps
  <2> QED BY <2>1, <2>2, <2>3, <2>4, <2>5, <2>6, <2>7, <2>8
<1> QED BY <1>8 DEF RunHolds

LEMMA BuiltAsks ==
  ASSUME NEW flow, NEW runtime, NEW source, NEW up, NEW steps, Built(flow, runtime, source, up, steps)
  PROVE  Asks(flow, source, up, steps)
BY DEF Built, Asks

\* The reproduction that a bundle retains is a run of its own with the same numbers.
LEMMA ReproductionHolds ==
  ASSUME kind \in DOMAIN Catalog, NEW b, IsSeq(b.steps), Len(b.steps) = n,
         Built(w, b.runtime, b.source, b.up, b.steps),
         b.verification # None, b.verification.again # <<>>,
         Retains(w, b.runtime, b.verification.again),
         Built(w, b.runtime, b.source, b.up, b.verification.again),
         SameNumbers(b.steps, b.verification.again),
         "recomputed" \in w.checks => ~Flawed(b.steps)
  PROVE  Reproduced(w, b) /\ Len(b.verification.again) = n /\ IsSeq(b.verification.again)
<1> DEFINE more == b.verification.again
<1>1. IsSeq(more) /\ Len(more) = n /\ Ran(w, b.runtime, more)
  BY DEF Retains, n
<1>2. Asks(w, b.source, b.up, b.steps) /\ Asks(w, b.source, b.up, more)
  BY BuiltAsks
<1>3. SameNumbers(more, b.steps)
  BY DEF SameNumbers
<1>4. Flawed(more) => Flawed(b.steps)
  <2> HIDE DEF more
  <2> QED BY <1>1, <1>2, <1>3, FlawedAlike
<1>5. RunHolds(w, b, more)
  BY <1>1, <1>4, StepsHold
<1> QED BY <1>1, <1>5 DEF Reproduced

\* Identities that two runs do not share.
LEMMA ApartSteps ==
  \A s, t : Apart(s, t) => \A i \in DOMAIN s \cap DOMAIN t :
    /\ s[i].exec # None => s[i].exec # t[i].exec
    /\ s[i].result.native # None => s[i].result.native # t[i].result.native
<1> SUFFICES ASSUME NEW s, NEW t, Apart(s, t), NEW i \in DOMAIN s \cap DOMAIN t
             PROVE  /\ s[i].exec # None => s[i].exec # t[i].exec
                    /\ s[i].result.native # None => s[i].result.native # t[i].result.native
  OBVIOUS
<1>1. \A o : o # None /\ o \in {s[i].exec, s[i].result.native} => o \in Occurrences(s)
  BY DEF Occurrences
<1>2. \A o : o # None /\ o \in {t[i].exec, t[i].result.native} => o \in Occurrences(t)
  BY DEF Occurrences
<1> QED BY <1>1, <1>2 DEF Apart

LEMMA FreshRuns ==
  ASSUME kind \in DOMAIN Catalog, NEW b, IsSeq(b.steps), Len(b.steps) = n,
         Len(b.verification.again) = n, IsSeq(b.verification.again),
         Built(w, b.runtime, b.source, b.up, b.steps),
         Built(w, b.runtime, b.source, b.up, b.verification.again),
         Named(w, b.steps), Apart(b.steps, b.verification.again)
  PROVE  /\ "fresh" \in w.checks => Fresh(b)
         /\ "native" \in w.checks => NativeFresh(b)
<1> DEFINE more == b.verification.again
<1>1. Comparable(w) /\ DOMAIN b.steps = 1..n /\ DOMAIN more = 1..n /\ Index(w) = 1..n
  BY Provided, Sequences, Flows
<1>2. ASSUME NEW i \in DOMAIN b.steps
      PROVE  /\ b.steps[i].exec # more[i].exec
             /\ "fresh" \in w.checks => ResultId(b.steps[i]) # ResultId(more[i])
             /\ "native" \in w.checks => b.steps[i].result.native # more[i].result.native
  <2>1. b.steps[i].exec # None /\ (w.native => b.steps[i].result.native # None)
    BY <1>1 DEF Named
  <2>2. i \in DOMAIN b.steps /\ i \in DOMAIN more
    BY <1>1
  <2>3. /\ b.steps[i].exec # None => b.steps[i].exec # more[i].exec
        /\ b.steps[i].result.native # None => b.steps[i].result.native # more[i].result.native
    <3> DEFINE own == b.steps
    <3>1. Apart(own, more) /\ i \in DOMAIN own /\ i \in DOMAIN more
      BY <2>2
    <3>2. /\ own[i].exec # None => own[i].exec # more[i].exec
          /\ own[i].result.native # None => own[i].result.native # more[i].result.native
      <4> HIDE DEF own, more
      <4> QED BY <3>1, ApartSteps
    <3> QED BY <3>2
  <2>4. "fresh" \in w.checks => "result" \in w.steps[i].carries
    BY <1>1 DEF Comparable
  <2>5. "fresh" \in w.checks => b.steps[i].result.exec = b.steps[i].exec /\ more[i].result.exec = more[i].exec
    BY <1>1, <2>4 DEF Built, Carried
  <2>6. "native" \in w.checks => w.native
    BY <1>1 DEF Comparable
  <2> QED BY <2>1, <2>3, <2>5, <2>6 DEF ResultId
<1> QED BY <1>2 DEF Fresh, NativeFresh
\* What a call has built passes every comparison of its workflow when it is validated, and
\* when it is returned.
Finished ==
  /\ Running /\ "execute" \notin Left /\ "bind" \notin Left
  /\ Reproduces(w) => work.verification # None
  /\ "selected" \in w.checks => Gate \notin Left
  /\ "paired" \in w.checks => "upstream" \notin Left
  /\ "recomputed" \in w.checks => ~Flawed(work.steps)

LEMMA OriginalDiffers ==
  ASSUME StageInv, OriginInv, Running, "execute" \notin Left, replayed # Blank
  PROVE  replayed.session # work.session
<1>1. PICK k \in 1..Len(sessions) : replayed.session = sessions[k].session
  BY DEF OriginInv, OriginGoing
<1>2. PICK x : sessions[k].session = <<k, x>>
  BY DEF OriginInv, OriginKept
<1>3. PICK y : work.session = <<Len(sessions) + 1, y>>
  BY DEF OriginInv, OriginGoing
<1>4. k # Len(sessions) + 1
  BY Sequences DEF StageInv
<1> QED BY <1>1, <1>2, <1>3, <1>4

LEMMA DigestParts ==
  \A b : \A part \in {"session", "source", "up", "pair", "runtime", "steps"} : Digest(b)[part] = b[part]
BY DEF Digest

LEMMA ReceiptAccepted ==
  ASSUME StageInv, OriginInv, ProofInv, Finished, work.receipt # None
  PROVE  ReceiptNames(work) /\ ReceiptSubject(work) /\ ReceiptProves(work) /\ work.receipt.again = work.steps
<1>1. replayed # Blank /\ work.receipt = ReceiptOf(work, replayed)
  BY DEF ProofInv, ProofGoing, Finished
<1>2. replayed.session # work.session
  BY <1>1, OriginalDiffers DEF Finished
<1>3. Digest(replayed) # Digest(work)
  <2>1. Digest(replayed)["session"] = replayed["session"] /\ Digest(work)["session"] = work["session"]
    BY DigestParts
  <2> QED BY <1>2, <2>1
<1>4. /\ work.receipt.original = Digest(replayed) /\ work.receipt.replayed = Digest(work)
      /\ work.receipt.subject = Digest(replayed) /\ work.receipt.again = work.steps
  BY <1>1 DEF ReceiptOf
<1> QED BY <1>3, <1>4 DEF ReceiptNames, ReceiptSubject, ReceiptProves

LEMMA Accepted ==
  ASSUME StageInv, RuntimeInv, OccurrenceInv, BuiltInv, OriginInv, ProofInv, Finished
  PROVE  Accepts(w, work)
<1>1. /\ kind \in DOMAIN Catalog /\ IsSeq(work.steps) /\ Len(work.steps) = n /\ Comparable(w)
      /\ "recomputed" \in w.checks => ~Flawed(work.steps)
      /\ n \in Nat \ {0}
  BY Provided, Flows DEF StageInv, Finished, Progress
<1>2. /\ work.runtime = bound /\ Ran(w, bound, work.steps) /\ Built(w, bound, work.source, work.up, work.steps)
      /\ Named(w, work.steps) /\ ExecutionsDiffer(work)
  BY DEF RuntimeInv, RuntimeGoing, BuiltInv, BuiltGoing, Finished
<1>3. RunHolds(w, work, work.steps)
  BY <1>1, <1>2, StepsHold
<1>4. Reproduces(w) =>
        /\ Reproduced(w, work)
        /\ "fresh" \in w.checks => Fresh(work)
        /\ "native" \in w.checks => NativeFresh(work)
  <2> SUFFICES ASSUME Reproduces(w)
               PROVE  /\ Reproduced(w, work)
                      /\ "fresh" \in w.checks => Fresh(work)
                      /\ "native" \in w.checks => NativeFresh(work)
    OBVIOUS
  <2>1. /\ work.verification # None /\ work.verification.again # <<>>
        /\ SameNumbers(work.steps, work.verification.again)
    BY DEF ProofInv, ProofGoing, Finished
  <2>2. /\ Retains(w, work.runtime, work.verification.again)
        /\ Built(w, work.runtime, work.source, work.up, work.verification.again)
        /\ Built(w, work.runtime, work.source, work.up, work.steps)
    BY <1>2, <2>1 DEF RuntimeInv, RuntimeGoing, BuiltInv, BuiltGoing, Finished
  <2>3. Apart(work.steps, work.verification.again)
    BY <2>1 DEF OccurrenceInv, OccurrenceGoing, Finished
  <2>4. Reproduced(w, work) /\ Len(work.verification.again) = n /\ IsSeq(work.verification.again)
    BY <1>1, <2>1, <2>2, ReproductionHolds
  <2>5. /\ "fresh" \in w.checks => Fresh(work)
        /\ "native" \in w.checks => NativeFresh(work)
    BY <1>1, <1>2, <2>2, <2>3, <2>4, FreshRuns
  <2> QED BY <2>4, <2>5
<1>5. Subject(work)
  BY DEF ProofInv, ProofGoing, Finished, Subject
<1>6. /\ "selected" \in w.checks => Selected(work)
      /\ "paired" \in w.checks => Paired(work)
  BY DEF OriginInv, OriginGoing, Finished
<1>7. work.receipt # None =>
        ReceiptNames(work) /\ ReceiptSubject(work) /\ ReceiptProves(work) /\ ReceiptRun(w, work)
  BY <1>3, ReceiptAccepted DEF ReceiptRun
<1>8. ASSUME NEW name \in w.checks
      PROVE  Compared(w, work, name)
  <2>0. name \in StepChecks \/ name \in BundleChecks
    BY <1>1, <1>8 DEF Comparable
  <2>1. CASE name \in StepChecks
    <3>1. OnSteps(w, work, work.steps, name)
      BY <1>3, <1>8, <2>1 DEF RunHolds
    <3>2. name \in {"requests", "refs", "envelopes", "ran", "declared", "about", "recomputed"}
      BY <2>1 DEF StepChecks
    <3> QED BY <3>1, <3>2 DEF Compared, StepChecks
  <2>2. name \in BundleChecks => name \notin StepChecks
    BY DEF BundleChecks, StepChecks
  <2>3. CASE name = "executions"
    BY <1>2, <2>2, <2>3 DEF Compared, BundleChecks
  <2>4. CASE name = "subject"
    BY <1>5, <2>2, <2>4 DEF Compared, BundleChecks
  <2>5. CASE name = "reproduced"
    BY <1>4, <1>8, <2>2, <2>5 DEF Compared, BundleChecks, Reproduces
  <2>6. CASE name = "fresh"
    BY <1>4, <1>8, <2>2, <2>6 DEF Compared, BundleChecks, Reproduces
  <2>7. CASE name = "native"
    BY <1>4, <1>8, <2>2, <2>7 DEF Compared, BundleChecks, Reproduces
  <2>8. CASE name = "selected"
    BY <1>6, <1>8, <2>2, <2>8 DEF Compared, BundleChecks
  <2>9. CASE name = "paired"
    BY <1>6, <1>8, <2>2, <2>9 DEF Compared, BundleChecks
  <2>10. CASE name \in {"receipt", "receipt_subject", "receipt_run", "receipt_proof"}
    BY <1>7, <2>2, <2>10 DEF Compared, BundleChecks
  <2> QED BY <2>0, <2>1, <2>3, <2>4, <2>5, <2>6, <2>7, <2>8, <2>9, <2>10 DEF BundleChecks
<1> QED BY <1>8 DEF Accepts
\* Nothing that is verified or named by a receipt is added to the bundle afterwards.
LEMMA DigestStays ==
  ASSUME StageInv, Takes, Head(todo) \notin {"upstream", "execute"}
  PROVE  Digest(work)' = Digest(work) /\ ReceiptOf(work, replayed)' = ReceiptOf(work, replayed)
<1>1. \A part \in {"session", "source", "up", "pair", "runtime", "steps"} : work'[part] = work[part]
  BY TakenParts
<1>2. Digest(work)' = Digest(work)
  BY <1>1 DEF Digest
<1>3. replayed' = replayed
  BY DEF Takes
<1> QED BY <1>1, <1>2, <1>3 DEF ReceiptOf

LEMMA ProofTaken ==
  ASSUME StageInv, OriginInv, ProofInv, Takes
  PROVE  ProofInv'
<1>1. /\ Running /\ ProofGoing /\ OriginGoing /\ Progress /\ Left = {Head(todo)} \cup Left' /\ w' = w /\ n' = n
      /\ Head(todo) # "validate" => Head(todo) \notin Left'
      /\ \A name : <<name, Head(todo)>> \in Precedes => name \notin Left
      /\ {"rerun", "compare", "verify"} \cap Left = {} \/ {"reproduce", "attest"} \cap Left = {}
  BY TakenStages DEF ProofInv, OriginInv
<1>2. /\ (work.steps)' = work.steps
      /\ Head(todo) \notin {"verify", "attest"} => (work.verification)' = work.verification
      /\ Head(todo) # "receipt" => (work.receipt)' = work.receipt
  BY TakenParts
<1>3. UNCHANGED <<kind, sessions, replayed>> /\ Found /\ Makes
  BY DEF Takes
<1>4. Recomputed(w, work, work.steps)' <=> Recomputed(w, work, work.steps)
  BY <1>1, <1>2 DEF Recomputed
<1>5. ProofKept'
  BY <1>1, <1>3 DEF ProofInv, ProofKept, Acceptable
<1>6. CASE Head(todo) \in {"upstream", "execute"}
  <2>1. "execute" \in Left
    BY <1>1, <1>6 DEF OriginGoing
  <2>2. (work.verification)' = None /\ (work.receipt)' = None
    BY <1>1, <1>2, <1>6, <2>1 DEF Progress, ProofGoing
  <2>3. /\ "receipt" \in Left' => "match" \in Left'
        /\ "recomputed" \in w.checks => "validate" \in Left'
    BY <1>1, <1>6, <2>1 DEF ProofGoing
  <2>4. ProofGoing'
    BY <1>1, <2>2, <2>3 DEF ProofGoing
  <2> QED BY <1>5, <2>4 DEF ProofInv
<1>7. CASE Head(todo) \notin {"upstream", "execute"}
  <2>1. Digest(work)' = Digest(work) /\ ReceiptOf(work, replayed)' = ReceiptOf(work, replayed)
    BY <1>7, DigestStays
  <2>2. "execute" \in Left' <=> "execute" \in Left
    BY <1>1, <1>7
  <2>3. (work.verification)' # None =>
          /\ (work.verification.subject)' = Digest(work)
          /\ (work.verification.again)' # <<>> => SameNumbers(work.steps, (work.verification.again)')
          /\ Reproduces(w) => (work.verification.again)' # <<>>
    <3>1. CASE Head(todo) = "verify"
      BY <1>1, <3>1, TakenVerification DEF OriginGoing
    <3>2. CASE Head(todo) = "attest"
      <4>1. {"rerun", "reproduce"} \cap Left = {} /\ "attest" \in Left
        BY <1>1, <3>2 DEF Precedes
      <4>2. Len(again) = n /\ n \in Nat \ {0}
        BY <1>1, <4>1, Flows DEF Progress, StageInv
      <4>3. again # <<>>
        BY <4>2, Empty
      <4> QED BY <1>3, <3>2, <4>3, TakenVerification DEF Found
    <3>3. CASE Head(todo) \notin {"verify", "attest"}
      BY <1>1, <1>2, <3>3 DEF ProofGoing
    <3> QED BY <3>1, <3>2, <3>3
  <2>4. "execute" \in Left' => (work.receipt)' = None
    BY <1>1, <1>2, <2>2 DEF ProofGoing, Precedes
  <2>5. (work.receipt)' # None => replayed # Blank /\ (work.receipt)' = ReceiptOf(work, replayed)
    BY <1>1, <1>2, <1>3 DEF ProofGoing, OriginGoing, Makes
  <2>6. "receipt" \in Left' \/ (work.receipt)' # None =>
          "match" \in Left' \/ ("execute" \notin Left' /\ SameNumbers(replayed.steps, work.steps))
    <3> SUFFICES ASSUME "receipt" \in Left' \/ (work.receipt)' # None, "match" \notin Left'
                 PROVE  "execute" \notin Left /\ SameNumbers(replayed.steps, work.steps)
      BY <2>2
    <3>1. CASE Head(todo) = "match"
      BY <1>1, <1>3, <3>1 DEF Found, Precedes
    <3>2. CASE Head(todo) # "match"
      BY <1>1, <1>2, <3>2 DEF ProofGoing
    <3> QED BY <3>1, <3>2
  <2>7. "recomputed" \in w.checks =>
          "validate" \in Left' \/ ("execute" \notin Left' /\ Recomputed(w, work, work.steps))
    <3> SUFFICES ASSUME "recomputed" \in w.checks, "validate" \notin Left'
                 PROVE  "execute" \notin Left /\ Recomputed(w, work, work.steps)
      BY <2>2
    <3>1. CASE Head(todo) = "validate"
      <4>1. Compared(w, work, "recomputed")
        BY <1>3, <3>1 DEF Found, Accepts
      <4>2. OnSteps(w, work, work.steps, "recomputed")
        BY <4>1 DEF Compared, StepChecks
      <4> QED BY <1>1, <3>1, <4>2 DEF OnSteps, Precedes
    <3>2. CASE Head(todo) # "validate"
      BY <1>1, <3>2 DEF ProofGoing
    <3> QED BY <3>1, <3>2
  <2>8. ProofGoing'
    BY <1>1, <1>2, <1>3, <1>4, <2>1, <2>3, <2>4, <2>5, <2>6, <2>7 DEF ProofGoing
  <2> QED BY <1>5, <2>8 DEF ProofInv
<1> QED BY <1>6, <1>7

\* What is returned is accepted, and its receipt is about the session replayed.
LEMMA ReturnedAcceptable ==
  ASSUME StageInv, RuntimeInv, OccurrenceInv, BuiltInv, OriginInv, ProofInv, Running, Left = {}
  PROVE  Acceptable(work)
<1>1. Progress /\ ProofGoing /\ OriginGoing /\ RuntimeGoing /\ kind \in DOMAIN Catalog
  BY DEF StageInv, ProofInv, OriginInv, RuntimeInv
<1>2. work.verification # None /\ Len(work.steps) = n /\ work.runtime = bound
  BY <1>1 DEF Progress, RuntimeGoing
<1>3. "recomputed" \in w.checks => ~Flawed(work.steps)
  BY <1>1, <1>2, RecomputedSteps DEF ProofGoing
<1>4. Accepts(w, work)
  BY <1>2, <1>3, Accepted DEF Finished
<1>5. ASSUME work.receipt # None
      PROVE  /\ work.receipt.original.session # work.session
             /\ work.receipt.original.source = work.source /\ work.receipt.original.up = work.up
             /\ SameNumbers(work.receipt.original.steps, work.steps)
             /\ work.receipt.original.runtime = work.runtime
  <2>1. /\ replayed # Blank /\ work.receipt.original = Digest(replayed)
        /\ SameNumbers(replayed.steps, work.steps)
    BY <1>1, <1>5 DEF ProofGoing, ReceiptOf
  <2>2. /\ replayed.session # work.session /\ work.source = replayed.source /\ work.up = replayed.up
        /\ bound = replayed.runtime
    BY <1>1, <2>1, OriginalDiffers DEF OriginGoing
  <2>3. \A part \in {"session", "source", "up", "pair", "runtime", "steps"} :
          (work.receipt.original)[part] = replayed[part]
    BY <2>1, DigestParts
  <2> QED BY <1>2, <2>1, <2>2, <2>3
<1> QED BY <1>4, <1>5 DEF Acceptable
ComparedInv == StageInv /\ RuntimeInv /\ OccurrenceInv /\ FlawInv /\ BuiltInv /\ OriginInv

LEMMA ProofStep == ComparedInv /\ ProofInv /\ [Next]_vars => ProofInv'
<1> SUFFICES ASSUME ComparedInv, ProofInv, [Next]_vars
             PROVE  ProofInv'
  OBVIOUS
<1> USE DEF ComparedInv
<1>1. ASSUME UNCHANGED <<kind, sessions>>
      PROVE  ProofKept' /\ w' = w
  BY <1>1, Still DEF ProofInv, ProofKept, Acceptable
<1>2. CASE Starts
  <2>1. PICK source, up, b : Call(w.create, source, up, b) \/ Call(w.replay, source, up, b)
    BY <1>2 DEF Starts
  <2>2. PICK stages \in {w.create, w.replay} : Call(stages, source, up, b)
    BY <2>1
  <2>3. (work.steps)' = <<>> /\ (work.verification)' = None /\ (work.receipt)' = None /\ Left' = Range(stages)
    BY <2>2, Blanks DEF Call, Blank, Left
  <2>4. /\ "receipt" \in Left' => "match" \in Left'
        /\ "recomputed" \in w.checks => "validate" \in Left'
    BY <2>3, Provided DEF Provides, StageInv
  <2>5. w' = w /\ ProofKept'
    BY <1>1, <1>2 DEF Starts
  <2>6. ProofGoing'
    BY <2>3, <2>4, <2>5 DEF ProofGoing
  <2> QED BY <2>5, <2>6 DEF ProofInv
<1>3. CASE Takes
  BY <1>3, ProofTaken
<1>4. CASE Stops
  BY <1>1, <1>4 DEF Stops, ProofInv
<1>5. CASE ExecuteStep
  <2>1. PICK flawed \in BOOLEAN :
          /\ Occurs(flawed)
          /\ work' = [work EXCEPT !.steps = Append(@, Called(@, Identity(occurrence + 1), flawed))]
    BY <1>5, StageExecute
  <2>2. /\ (work.verification)' = work.verification /\ (work.receipt)' = work.receipt
    BY <2>1 DEF StageInv, BundleFields
  <2>3. /\ todo # <<>> /\ Head(todo) = "execute" /\ UNCHANGED <<kind, todo, replayed, outcome, sessions>>
    BY <1>5, <2>1 DEF ExecuteStep, Stage, Occurs
  <2>4. Running /\ ProofGoing /\ Progress /\ "execute" \in Left
    BY <2>3, Heads DEF ProofInv
  <2>5. work.verification = None /\ work.receipt = None
    BY <2>4 DEF Progress, ProofGoing
  <2>6. Left' = Left /\ w' = w /\ ProofKept'
    BY <1>1, <2>3 DEF Left
  <2>7. ProofGoing'
    BY <2>2, <2>4, <2>5, <2>6 DEF ProofGoing
  <2> QED BY <2>6, <2>7 DEF ProofInv
<1>6. ASSUME Left' = Left, Running' = Running, UNCHANGED <<kind, work, replayed, sessions>>
      PROVE  ProofInv'
  <2>1. w' = w /\ ProofKept'
    BY <1>1, <1>6
  <2>2. Digest(work)' = Digest(work) /\ ReceiptOf(work, replayed)' = ReceiptOf(work, replayed)
    BY <1>6 DEF Digest, ReceiptOf
  <2>3. Recomputed(w, work, work.steps)' <=> Recomputed(w, work, work.steps)
    BY <1>6, <2>1 DEF Recomputed
  <2>4. Running => ProofGoing'
    BY <1>6, <2>1, <2>2, <2>3 DEF ProofInv, ProofGoing
  <2> QED BY <1>6, <2>1, <2>4 DEF ProofInv
<1>7. CASE AgainStep
  <2>1. work' = work /\ \E flawed \in BOOLEAN : Occurs(flawed)
    BY <1>7, StageAgain
  <2> QED BY <1>6, <2>1 DEF Occurs, Left, Running
<1>8. CASE Return
  <2>1. /\ ~Running' /\ Running /\ Left = {} /\ w' = w /\ Len(sessions) \in Nat
        /\ Len(sessions') = Len(sessions) + 1 /\ sessions'[Len(sessions) + 1] = work
        /\ \A k \in 1..Len(sessions) : sessions'[k] = sessions[k]
    BY <1>8, StageReturn
  <2>2. Acceptable(work)
    BY <2>1, ReturnedAcceptable
  <2>3. \A k \in 1..Len(sessions') : k \in 1..Len(sessions) \/ k = Len(sessions) + 1
    BY <2>1
  <2>4. ASSUME NEW k \in 1..Len(sessions')
        PROVE  Acceptable(sessions'[k])
    BY <2>1, <2>2, <2>3 DEF ProofInv, ProofKept
  <2>5. ProofKept'
    BY <2>1, <2>4 DEF ProofKept, Acceptable
  <2> QED BY <2>1, <2>5 DEF ProofInv
<1>9. CASE Upgrade \/ UNCHANGED vars
  <2>1. UNCHANGED <<kind, work, replayed, sessions>> /\ Left' = Left /\ Running' = Running
    BY <1>9, StageUpgrade, StageSame DEF Upgrade, callVars, vars
  <2> QED BY <1>6, <2>1
<1> QED BY <1>2, <1>3, <1>4, <1>5, <1>7, <1>8, <1>9, Steps

LEMMA ProofAlways == Spec => []ProofInv
<1>1. Init => ProofInv
  <2> SUFFICES ASSUME Init
               PROVE  ProofInv
    OBVIOUS
  <2>1. 1..Len(sessions) = {} /\ ~Running
    BY Initially DEF Init
  <2> QED BY <2>1 DEF ProofInv, ProofKept
<1>2. StageInv /\ RuntimeInv /\ OccurrenceInv /\ FlawInv /\ BuiltInv /\ OriginInv /\ ProofInv /\ [Next]_vars => ProofInv'
  BY ProofStep DEF ComparedInv
<1> QED BY <1>1, <1>2, StageAlways, RuntimeAlways, OccurrenceAlways, FlawAlways, BuiltAlways, OriginAlways, PTL DEF Spec

\* What a call returns passes, when it is read back, every comparison its workflow makes,
\* and a receipt is about another session, with the source, upstream, numbers and runtimes
\* of the one that holds it: what _validate, the reproduction and the match have found is
\* not disturbed by the stages that come after them.
THEOREM ReceiptsCorrect == Spec => []ReceiptsMatch
<1>1. ASSUME StageInv, ProofInv
      PROVE  ReceiptsMatch
  <2>1. ASSUME NEW k \in Returned
        PROVE  Acceptable(sessions[k])
    BY <1>1, <2>1, Sequences DEF Returned, StageInv, ProofInv, ProofKept
  <2> QED BY <2>1 DEF ReceiptsMatch, Acceptable
<1> QED BY <1>1, StageAlways, ProofAlways, PTL
-----------------------------------------------------------------------------
(* Proofs: while nothing goes wrong. *)

\* A provider asked as it was asked in a run that holds no flaw answers as it did then.
LEMMA Repeats ==
  ASSUME kind \in DOMAIN Catalog, NEW done, IsSeq(done), Len(done) < n, NEW exec, NEW flawed, ~flawed,
         NEW base, NEW runtime, Len(base) = n, Built(w, runtime, work.source, work.up, base), ~Flawed(base),
         \A i \in 1..Len(done) : done[i].result.data = base[i].result.data
  PROVE  LET call == Called(done, exec, flawed)
             j == Len(done) + 1
         IN  /\ call.result.data = base[j].result.data
             /\ /\ \A i \in 1..Len(done) : Alike(done[i], base[i])
                /\ exec = base[j].exec /\ ~w.native
                => Alike(call, base[j])
<1> DEFINE call == Called(done, exec, flawed)
           j == Len(done) + 1
<1>1. j \in 1..n /\ Len(done) \in Nat /\ n \in Nat /\ \A i \in 1..j - 1 : i \in 1..Len(done)
  BY Sequences, Flows
<1>2. /\ call.request = Request(w, j, work.source, work.up, done, exec)
      /\ call.result.exec = Carried(w, j, {"result", "unbound"}, exec)
      /\ ~w.native => call.result.native = None
  BY CalledMakes
<1>3. call.result.data = Computed(call.request)
  BY CalledAsks
<1> HIDE DEF call
<1> HIDE DEF j
<1>4. /\ base[j].request = Request(w, j, work.source, work.up, base, base[j].exec)
      /\ base[j].result.exec = Carried(w, j, {"result", "unbound"}, base[j].exec)
      /\ ~w.native => base[j].result.native = None
      /\ base[j].result.data = Computed(base[j].request)
  BY <1>1 DEF Built, Flawed
<1>5. /\ w.steps[j].data \ {Up} \subseteq 1..j - 1 /\ w.steps[j].cites \subseteq 1..j - 1
  BY <1>1, Indices
<1>6. \A i \in w.steps[j].data \ {Up} : done[i].result.data = base[i].result.data
  BY <1>1, <1>5
<1>7. call.result.data = base[j].result.data
  BY <1>2, <1>3, <1>4, <1>6, ComputedAlike
<1>8. ASSUME \A i \in 1..Len(done) : Alike(done[i], base[i]), exec = base[j].exec, ~w.native
      PROVE  Alike(call, base[j])
  <2>1. [i \in w.steps[j].cites |-> ResultId(done[i])] = [i \in w.steps[j].cites |-> ResultId(base[i])]
    BY <1>1, <1>5, <1>8 DEF Alike
  <2>2. [i \in w.steps[j].data \ {Up} |-> done[i].result.data] = [i \in w.steps[j].data \ {Up} |-> base[i].result.data]
    BY <1>6
  <2>3. call.request = base[j].request
    BY <1>2, <1>4, <1>8, <2>1, <2>2 DEF Request
  <2>4. ResultId(call) = ResultId(base[j])
    BY <1>2, <1>4, <1>7, <1>8 DEF ResultId
  <2> QED BY <2>3, <2>4 DEF Alike
<1> QED BY <1>7, <1>8 DEF call, j

\* The session a replay is of, while no file is read back as anything else.
LEMMA SteadyReplayed ==
  ASSUME ComparedInv, SteadyInv, flaws + changes = 0, Running, replayed # Blank
  PROVE  /\ replayed.runtime = version /\ Len(replayed.steps) = n
         /\ \E k \in 1..Len(sessions) : replayed = sessions[k]
         /\ Built(w, replayed.runtime, work.source, work.up, replayed.steps) /\ ~Flawed(replayed.steps)
<1>1. PICK k \in 1..Len(sessions) : replayed = sessions[k]
  BY DEF SteadyInv, SteadyGoing
<1>2. flaws \in Nat /\ changes \in Nat
  BY DEF ComparedInv, FlawInv, SteadyInv
<1>3. ~Flawed(replayed.steps)
  BY <1>1, <1>2 DEF ComparedInv, FlawInv, FlawKept
<1>4. work.source = replayed.source /\ work.up = replayed.up
  BY DEF ComparedInv, OriginInv, OriginGoing
<1>5. Built(w, replayed.runtime, work.source, work.up, replayed.steps)
  BY <1>1, <1>4 DEF ComparedInv, BuiltInv, BuiltKept
<1>6. replayed.runtime = version /\ Len(replayed.steps) = n
  BY <1>1 DEF ComparedInv, SteadyInv, RuntimeInv, RuntimeKept
<1> QED BY <1>1, <1>3, <1>5, <1>6

\* The run that is done again.
LEMMA SteadyRerun ==
  ASSUME ComparedInv, SteadyInv, flaws + changes = 0, todo # <<>>, Head(todo) \in {"rerun", "reproduce"}
  PROVE  /\ \E runtime : Built(w, runtime, work.source, work.up, Rerun.steps)
         /\ Len(Rerun.steps) = n /\ ~Flawed(Rerun.steps)
<1>1. /\ Running /\ Progress /\ Left = {Head(todo)} \cup Range(Tail(todo)) /\ n \in Nat \ {0}
      /\ kind \in DOMAIN Catalog /\ IsSeq(work.steps) /\ IsSeq(Tail(todo)) /\ Ordered(Tail(todo))
      /\ IsSeq(todo) /\ Ordered(todo) /\ flaws \in Nat /\ changes \in Nat
  BY Heads, Flows DEF ComparedInv, StageInv, FlawInv, SteadyInv
<1>2. CASE "execute" \notin Left
  <2>1. Len(work.steps) = n
    BY <1>1, <1>2 DEF Progress
  <2>2. work.steps # <<>> /\ Rerun = work
    BY <1>1, <2>1, Empty DEF Rerun
  <2>3. ~Flawed(work.steps) /\ Built(w, bound, work.source, work.up, work.steps)
    BY <1>1 DEF ComparedInv, FlawInv, FlawGoing, BuiltInv, BuiltGoing
  <2> QED BY <2>1, <2>2, <2>3
<1>3. CASE "execute" \in Left
  <2>1. Head(todo) = "rerun" /\ work.steps = <<>> /\ Rerun = replayed
    BY <1>1, <1>3, Heads DEF Precedes, Progress, Rerun, ComparedInv
  <2>2. Tail(todo) # <<>> /\ Head(Tail(todo)) = "compare"
    BY <1>1, <2>1, Popped
  <2>3. Range(Tail(todo)) = {"compare"} \cup Range(Tail(Tail(todo)))
    BY <1>1, <2>2, Popped
  <2>4. "execute" \in Range(Tail(Tail(todo)))
    BY <1>1, <1>3, <2>1, <2>3
  <2>5. Matches(Tail(Tail(todo))) /\ IsSeq(Tail(Tail(todo)))
    BY <1>1, <2>2, <2>4, MatchesStill, Popped
  <2>6. "match" \in Left
    <3>1. DOMAIN Tail(Tail(todo)) = 1..Len(Tail(Tail(todo)))
      BY <2>5, Sequences
    <3>2. PICK i, j \in 1..Len(Tail(Tail(todo))) : Tail(Tail(todo))[i] = "match"
      BY <2>5 DEF Matches
    <3>3. "match" \in Range(Tail(Tail(todo)))
      BY <3>1, <3>2 DEF Range
    <3> QED BY <1>1, <2>3, <3>3
  <2>7. replayed # Blank
    BY <1>1, <2>6 DEF ComparedInv, OriginInv, OriginGoing
  <2> QED BY <1>1, <2>1, <2>7, SteadyReplayed
<1> QED BY <1>2, <1>3
\* No stage but the selection finds anything wrong.
LEMMA SteadyStops ==
  ASSUME ComparedInv, ProofInv, SteadyInv, flaws + changes = 0, Stops
  PROVE  outcome' = "unselected"
<1>1. /\ Running /\ Progress /\ Left = {Head(todo)} \cup Range(Tail(todo)) /\ SteadyGoing
      /\ FlawGoing /\ OriginGoing /\ n \in Nat \ {0} /\ kind \in DOMAIN Catalog
      /\ IsSeq(work.steps) /\ IsSeq(again) /\ flaws \in Nat /\ changes \in Nat
      /\ \A name : <<name, Head(todo)>> \in Precedes => name \notin Left
      /\ {"rerun", "compare", "verify"} \cap Left = {} \/ {"reproduce", "attest"} \cap Left = {}
  BY Heads, Flows DEF ComparedInv, StageInv, FlawInv, OriginInv, SteadyInv, Stops
<1>2. flaws = 0 /\ changes = 0
  BY <1>1
<1>3. \A done : "bind" \notin Left => Verified(done) /\ Unchanged(w.verifier)
  BY <1>1 DEF SteadyGoing, Verified, Unchanged
<1>4. ASSUME Head(todo) = "inspect"
      PROVE  Accepts(w, replayed)
  <2>1. replayed # Blank
    BY <1>1, <1>4 DEF OriginGoing
  <2>2. PICK k \in 1..Len(sessions) : replayed = sessions[k]
    BY <1>1, <2>1 DEF SteadyGoing
  <2> QED BY <2>2 DEF ProofInv, ProofKept, Acceptable
<1>5. ASSUME Head(todo) = "validate"
      PROVE  Accepts(w, work)
  <2>1. "execute" \notin Left /\ "attest" \notin Left /\ "upstream" \notin Left /\ Gate \notin Left
    BY <1>1, <1>5 DEF Precedes, Gate
  <2>2. "bind" \notin Left /\ (Reproduces(w) => "verify" \notin Left)
    BY <1>1, <2>1 DEF Progress, OriginGoing
  <2>3. Reproduces(w) => work.verification # None
    BY <1>1, <2>1, <2>2 DEF Progress
  <2>4. ~Flawed(work.steps)
    BY <1>1, <1>2 DEF FlawGoing
  <2> QED BY <1>1, <2>1, <2>2, <2>3, <2>4, Accepted DEF Finished, ComparedInv
<1>6. ASSUME "execute" \notin Left
      PROVE  Len(work.steps) = n /\ DOMAIN work.steps = 1..n /\ Rerun = work
  <2>1. Len(work.steps) = n
    BY <1>1, <1>6 DEF Progress
  <2>2. work.steps # <<>>
    BY <1>1, <2>1, Empty
  <2> QED BY <1>1, <2>1, <2>2, Sequences DEF Rerun
<1>7. ASSUME Head(todo) = "compare"
      PROVE  SameContents(Rerun.steps, again)
  <2>1. {"rerun", "reproduce"} \cap Left = {} /\ "compare" \in Left
    BY <1>1, <1>7 DEF Precedes
  <2>2. Len(again) = n
    BY <1>1, <2>1 DEF Progress
  <2>3. \A i \in 1..n : Alike(again[i], Rerun.steps[i])
    BY <1>1, <2>1, <2>2 DEF SteadyGoing
  <2>4. DOMAIN Rerun.steps \subseteq 1..n
    <3>1. CASE "execute" \notin Left
      BY <1>6, <3>1
    <3>2. CASE "execute" \in Left
      <4>1. work.steps = <<>>
        BY <1>1, <1>7, <3>2 DEF Progress
      <4>2. replayed # Blank => DOMAIN replayed.steps = 1..n
        BY <1>1 DEF OriginGoing
      <4>3. DOMAIN Blank.steps = {}
        BY Blanks
      <4> QED BY <4>1, <4>2, <4>3 DEF Rerun
    <3> QED BY <3>1, <3>2
  <2> QED BY <2>3, <2>4 DEF SameContents, Alike
<1>8. ASSUME Head(todo) = "match"
      PROVE  SameNumbers(replayed.steps, work.steps)
  <2>1. "execute" \notin Left /\ replayed # Blank
    BY <1>1, <1>8 DEF OriginGoing, Precedes
  <2>2. DOMAIN replayed.steps = 1..n /\ DOMAIN work.steps = 1..n /\ Len(work.steps) = n
    BY <1>1, <1>6, <2>1 DEF OriginGoing
  <2>3. \A i \in 1..n : work.steps[i].result.data = replayed.steps[i].result.data
    BY <1>1, <2>1, <2>2 DEF SteadyGoing
  <2> QED BY <2>2, <2>3 DEF SameNumbers, Numbers
<1>9. ASSUME Head(todo) = "attest"
      PROVE  SameNumbers(work.steps, again)
  <2>1. "execute" \notin Left /\ {"rerun", "reproduce"} \cap Left = {} /\ "attest" \in Left
    BY <1>1, <1>9 DEF Precedes
  <2>2. Len(again) = n /\ DOMAIN again = 1..n /\ DOMAIN work.steps = 1..n /\ Rerun = work
    BY <1>1, <1>6, <2>1, Sequences DEF Progress
  <2>3. \A i \in 1..n : again[i].result.data = work.steps[i].result.data
    BY <1>1, <2>1, <2>2 DEF SteadyGoing
  <2> QED BY <2>2, <2>3 DEF SameNumbers, Numbers
<1>10. ASSUME Head(todo) = "bind", replayed # Blank
       PROVE  version = replayed.runtime
  BY <1>1, <1>10, SteadyReplayed
<1>11. Head(todo) \in {"execute", "rerun", "reproduce", "verify"} => "bind" \notin Left
  BY <1>1 DEF Precedes, Progress
<1>12. Refused
  BY DEF Stops
<1> QED BY <1>2, <1>3, <1>4, <1>5, <1>7, <1>8, <1>9, <1>10, <1>11, <1>12 DEF Refused

LEMMA SteadyTaken ==
  ASSUME ComparedInv, SteadyInv, Takes
  PROVE  SteadyInv'
<1>1. /\ Running /\ Progress /\ Left = {Head(todo)} \cup Left' /\ w' = w /\ n' = n
      /\ Head(todo) # "validate" => Head(todo) \notin Left'
      /\ \A name : <<name, Head(todo)>> \in Precedes => name \notin Left
      /\ todo # <<>> /\ IsSeq(todo) /\ Ordered(todo)
  BY TakenStages, Heads DEF ComparedInv, Takes
<1>2. /\ UNCHANGED <<kind, replayed, outcome, sessions, version, flaws, changes>> /\ todo' = Tail(todo)
      /\ bound' = (IF Head(todo) = "bind" THEN version ELSE bound)
      /\ again' = again \/ again' = <<>>
      /\ (work.steps)' = work.steps
  BY TakenParts DEF Takes, Done, ComparedInv
<1>3. (Rerun.steps)' = Rerun.steps
  BY <1>2 DEF Rerun
<1>4. ASSUME flaws + changes = 0
      PROVE  SteadyGoing'
  <2>1. SteadyGoing
    BY <1>1, <1>4 DEF SteadyInv
  <2>2. "bind" \notin Left' => bound' = version
    BY <1>1, <1>2, <2>1 DEF SteadyGoing
  <2>3. {"compare", "attest"} \cap Left' # {} =>
          \A i \in 1..Len(again') : again'[i].result.data = Rerun.steps[i].result.data
    BY <1>1, <1>2, <2>1, Empty DEF SteadyGoing
  <2>4. ASSUME "compare" \in Left'
        PROVE  /\ \A i \in 1..Len(again') : Alike(again'[i], Rerun.steps[i])
               /\ ~w.native /\ ("rerun" \in Left' \/ Head(todo') = "compare")
    <3>1. "compare" \in Left /\ Head(todo) # "compare"
      BY <1>1, <2>4
    <3>2. \A i \in 1..Len(again') : Alike(again'[i], Rerun.steps[i])
      BY <1>2, <2>1, <3>1, Empty DEF SteadyGoing
    <3>3. Head(todo) = "rerun" => Head(todo') = "compare"
      BY <1>1, <1>2, Popped
    <3> QED BY <1>1, <2>1, <3>1, <3>2, <3>3 DEF SteadyGoing
  <2>5. "attest" \in Left' => "reproduce" \in Left' \/ "execute" \notin Left'
    BY <1>1, <2>1 DEF SteadyGoing, Precedes
  <2> QED BY <1>1, <1>2, <1>3, <2>1, <2>2, <2>3, <2>4, <2>5 DEF SteadyGoing, Alike
<1> QED BY <1>1, <1>2, <1>4 DEF SteadyInv
LEMMA SteadyExecute ==
  ASSUME ComparedInv, SteadyInv, ExecuteStep
  PROVE  SteadyInv'
<1>1. PICK flawed \in BOOLEAN :
        /\ Occurs(flawed)
        /\ work' = [work EXCEPT !.steps = Append(@, Called(@, Identity(occurrence + 1), flawed))]
  BY StageExecute DEF ComparedInv
<1> DEFINE call == Called(work.steps, Identity(occurrence + 1), flawed)
<1>2. /\ todo # <<>> /\ Head(todo) = "execute" /\ again' = again /\ Len(work.steps) < n
      /\ UNCHANGED <<kind, todo, bound, replayed, outcome, sessions, version, changes>>
      /\ flaws' = flaws + (IF flawed THEN 1 ELSE 0)
  BY <1>1 DEF ExecuteStep, Stage, Occurs
<1>3. /\ Running /\ Progress /\ IsSeq(work.steps) /\ "execute" \in Left /\ flaws \in Nat /\ changes \in Nat
      /\ kind \in DOMAIN Catalog
      /\ \A name : <<name, "execute">> \in Precedes => name \notin Left
  BY <1>2, Heads DEF ComparedInv, StageInv, FlawInv, SteadyInv
<1>4. work' = [work EXCEPT !.steps = Append(@, call)]
  BY <1>1
<1>5. Left' = Left /\ w' = w /\ n' = n /\ Running'
  BY <1>2, <1>3, Still DEF Left, Running
<1>6. ASSUME flaws' + changes' = 0
      PROVE  flaws + changes = 0 /\ ~flawed /\ SteadyGoing /\ SteadyGoing'
  <2>1. flaws + changes = 0 /\ ~flawed
    BY <1>2, <1>3, <1>6
  <2>2. SteadyGoing
    BY <1>3, <2>1 DEF SteadyInv
  <2>3. ASSUME replayed # Blank
        PROVE  call.result.data = replayed.steps[Len(work.steps) + 1].result.data
    <3>1. /\ Len(replayed.steps) = n /\ ~Flawed(replayed.steps)
          /\ Built(w, replayed.runtime, work.source, work.up, replayed.steps)
      BY <1>3, <2>1, <2>3, SteadyReplayed
    <3>2. \A i \in 1..Len(work.steps) : work.steps[i].result.data = replayed.steps[i].result.data
      BY <2>2, <2>3 DEF SteadyGoing
    <3> DEFINE base == replayed.steps
               done == work.steps
    <3>3. /\ Len(base) = n /\ ~Flawed(base) /\ Built(w, replayed.runtime, work.source, work.up, base)
          /\ \A i \in 1..Len(done) : done[i].result.data = base[i].result.data
          /\ kind \in DOMAIN Catalog /\ IsSeq(done) /\ Len(done) < n /\ ~flawed
      BY <1>2, <1>3, <2>1, <3>1, <3>2
    <3>4. ASSUME NEW exec
          PROVE  Called(done, exec, flawed).result.data = base[Len(done) + 1].result.data
      <4> HIDE DEF base, done
      <4> QED BY <3>3, Repeats
    <3> QED BY <3>4
  <2> HIDE DEF call
  <2>4. (work.steps)' = Append(work.steps, call)
    BY <1>4 DEF ComparedInv, StageInv, BundleFields
  <2>5. /\ Len(Append(work.steps, call)) = Len(work.steps) + 1
        /\ Append(work.steps, call)[Len(work.steps) + 1] = call /\ Len(work.steps) \in Nat
        /\ \A i \in 1..Len(work.steps) : Append(work.steps, call)[i] = work.steps[i]
    BY <1>3, Appended, Sequences
  <2>6. \A i \in 1..Len(Append(work.steps, call)) : i = Len(work.steps) + 1 \/ i \in 1..Len(work.steps)
    BY <2>5
  <2>7. ASSUME replayed # Blank, NEW i \in 1..Len(Append(work.steps, call))
        PROVE  Append(work.steps, call)[i].result.data = replayed.steps[i].result.data
    BY <2>2, <2>3, <2>5, <2>6, <2>7 DEF SteadyGoing
  <2>8. {"compare", "attest"} \cap Left # {} => again = <<>>
    <3>1. "compare" \in Left => "rerun" \in Left
      BY <1>2, <2>2 DEF SteadyGoing
    <3>2. "attest" \in Left => "reproduce" \in Left
      BY <1>3, <2>2 DEF SteadyGoing
    <3> QED BY <1>2, <1>3, <3>1, <3>2 DEF Progress
  <2>9. SteadyGoing'
    BY <1>2, <1>5, <2>2, <2>4, <2>7, <2>8, Empty DEF SteadyGoing
  <2> QED BY <2>1, <2>2, <2>9
<1>7. flaws' + changes' = 0 => flaws + changes = 0
  BY <1>6
<1> QED BY <1>2, <1>3, <1>5, <1>6, <1>7 DEF SteadyInv

LEMMA SteadyAgain ==
  ASSUME ComparedInv, SteadyInv, AgainStep
  PROVE  SteadyInv'
<1>1. /\ work' = work /\ todo # <<>> /\ Head(todo) \in {"rerun", "reproduce"} /\ Len(again) < n
      /\ \E flawed \in BOOLEAN : \E exec :
           /\ Occurs(flawed) /\ again' = Append(again, Called(again, exec, flawed))
           /\ Head(todo) = "reproduce" => exec = Identity(occurrence + 1)
           /\ Head(todo) = "rerun" => exec = Rerun.steps[Len(again) + 1].exec
  BY StageAgain DEF ComparedInv
<1>2. PICK flawed \in BOOLEAN : \E exec :
           /\ Occurs(flawed) /\ again' = Append(again, Called(again, exec, flawed))
           /\ Head(todo) = "rerun" => exec = Rerun.steps[Len(again) + 1].exec
  BY <1>1
<1>3. PICK exec :
           /\ Occurs(flawed) /\ again' = Append(again, Called(again, exec, flawed))
           /\ Head(todo) = "rerun" => exec = Rerun.steps[Len(again) + 1].exec
  BY <1>2
<1> DEFINE call == Called(again, exec, flawed)
           base == Rerun.steps
<1>4. /\ UNCHANGED <<kind, todo, bound, replayed, outcome, sessions, version, changes>>
      /\ flaws' = flaws + (IF flawed THEN 1 ELSE 0) /\ again' = Append(again, call)
  BY <1>3 DEF Occurs
<1>5. /\ Running /\ IsSeq(again) /\ Head(todo) \in Left /\ flaws \in Nat /\ changes \in Nat
      /\ kind \in DOMAIN Catalog
      /\ {"rerun", "compare", "verify"} \cap Left = {} \/ {"reproduce", "attest"} \cap Left = {}
  BY <1>1, Heads DEF ComparedInv, StageInv, FlawInv, SteadyInv
<1>6. Left' = Left /\ w' = w /\ n' = n /\ Running' /\ base' = base
  BY <1>1, <1>4, <1>5, Still DEF Left, Running, Rerun
<1>7. ASSUME flaws' + changes' = 0
      PROVE  flaws + changes = 0 /\ SteadyGoing'
  <2>1. flaws + changes = 0 /\ ~flawed
    BY <1>4, <1>5, <1>7
  <2>2. SteadyGoing
    BY <1>5, <2>1 DEF SteadyInv
  <2>3. PICK runtime : Built(w, runtime, work.source, work.up, base)
    BY <1>1, <2>1, SteadyRerun
  <2>4. Len(base) = n /\ ~Flawed(base)
    BY <1>1, <2>1, SteadyRerun
  <2>5. ASSUME \A i \in 1..Len(again) : again[i].result.data = base[i].result.data
        PROVE  /\ call.result.data = base[Len(again) + 1].result.data
               /\ /\ \A i \in 1..Len(again) : Alike(again[i], base[i])
                  /\ exec = base[Len(again) + 1].exec /\ ~w.native
                  => Alike(call, base[Len(again) + 1])
    <3> HIDE DEF base
    <3> QED BY <1>1, <1>5, <2>1, <2>3, <2>4, <2>5, Repeats
  <2> HIDE DEF call
  <2>6. /\ Len(again') = Len(again) + 1 /\ again'[Len(again) + 1] = call /\ Len(again) \in Nat
        /\ \A i \in 1..Len(again) : again'[i] = again[i]
    BY <1>4, <1>5, Appended, Sequences
  <2>7. \A i \in 1..Len(again') : i = Len(again) + 1 \/ i \in 1..Len(again)
    BY <2>6
  <2>8. ASSUME {"compare", "attest"} \cap Left # {}, NEW i \in 1..Len(again')
        PROVE  again'[i].result.data = base[i].result.data
    <3>1. \A j \in 1..Len(again) : again[j].result.data = base[j].result.data
      BY <2>2, <2>8 DEF SteadyGoing
    <3> QED BY <2>5, <2>6, <2>7, <3>1
  <2>9. ASSUME "compare" \in Left
        PROVE  \A i \in 1..Len(again') : Alike(again'[i], base[i])
    <3>1. /\ \A j \in 1..Len(again) : Alike(again[j], base[j])
          /\ \A j \in 1..Len(again) : again[j].result.data = base[j].result.data
          /\ ~w.native
      BY <2>2, <2>9 DEF SteadyGoing
    <3>2. exec = base[Len(again) + 1].exec
      BY <1>1, <1>3, <1>5, <2>9
    <3>3. Alike(call, base[Len(again) + 1])
      BY <2>5, <3>1, <3>2
    <3> QED BY <2>6, <2>7, <3>1, <3>3
  <2>10. SteadyGoing'
    BY <1>1, <1>4, <1>6, <2>2, <2>8, <2>9 DEF SteadyGoing, Alike
  <2> QED BY <2>1, <2>10
<1> QED BY <1>4, <1>5, <1>6, <1>7 DEF SteadyInv
LEMMA SteadyStep == ComparedInv /\ ProofInv /\ SteadyInv /\ [Next]_vars => SteadyInv'
<1> SUFFICES ASSUME ComparedInv, ProofInv, SteadyInv, [Next]_vars
             PROVE  SteadyInv'
  OBVIOUS
<1>0. StageInv /\ FlawInv /\ flaws \in Nat /\ changes \in Nat /\ kind \in DOMAIN Catalog
  BY DEF ComparedInv, FlawInv, SteadyInv, StageInv
<1>1. CASE Starts
  <2>1. PICK source, up, b :
          \/ Call(w.create, source, up, Blank) /\ changes' = changes
          \/ /\ Call(w.replay, source, up, b)
             /\ \E k \in 1..Len(sessions), cost \in Nat : changes' = changes + cost /\ (cost = 0 => b = sessions[k])
    BY <1>1 DEF Starts
  <2>2. PICK stages \in {w.create, w.replay} : \E of : Call(stages, source, up, of)
    BY <2>1
  <2>3. UNCHANGED <<kind, sessions, version, flaws>> /\ w' = w
    BY <1>1, Still DEF Starts
  <2>4. /\ (work.steps)' = <<>> /\ again' = <<>> /\ outcome' = "running" /\ Left' = Range(stages)
    BY <2>2, Blanks DEF Call, Blank, Left
  <2>5. changes' \in Nat /\ (flaws' + changes' = 0 => flaws + changes = 0)
    BY <1>0, <2>1, <2>3
  <2>6. flaws' + changes' = 0 => replayed' = Blank \/ \E k \in 1..Len(sessions) : replayed' = sessions[k]
    BY <1>0, <2>1, <2>3 DEF Call
  <2>7. Ordered(stages) /\ Complete(stages) /\ Provides(w, stages)
    BY <1>0, Provided
  <2>8. /\ "compare" \in Left' => ~w.native /\ "rerun" \in Left'
        /\ "attest" \in Left' => "reproduce" \in Left'
        /\ "bind" \in Left'
    <3>1. \/ {"rerun", "compare", "verify"} \cap Left' = {}
          \/ {"reproduce", "attest"} \cap Left' = {}
      BY <2>4, <2>7 DEF Ordered
    <3>2. {"rerun", "compare", "verify"} \subseteq Left' \/ {"reproduce", "attest"} \subseteq Left'
      BY <2>4, <2>7 DEF Complete
    <3>3. ("rerun" \in Left' => ~w.native) /\ "bind" \in Left'
      BY <2>4, <2>7 DEF Complete, Provides
    <3> QED BY <3>1, <3>2, <3>3
  <2>9. flaws' + changes' = 0 => SteadyGoing'
    BY <2>3, <2>4, <2>6, <2>8, Empty DEF SteadyGoing
  <2> QED BY <2>3, <2>4, <2>5, <2>9 DEF SteadyInv
<1>2. CASE Takes
  BY <1>2, SteadyTaken
<1>3. CASE Stops
  <2>1. UNCHANGED <<kind, sessions, version, flaws, changes>> /\ ~Running'
    BY <1>3 DEF Stops, envVars
  <2>2. flaws + changes = 0 => outcome' = "unselected"
    BY <1>3, SteadyStops
  <2> QED BY <2>1, <2>2 DEF SteadyInv
<1>4. CASE ExecuteStep
  BY <1>4, SteadyExecute
<1>5. CASE AgainStep
  BY <1>5, SteadyAgain
<1>6. CASE Return
  <2>1. /\ ~Running' /\ Running /\ Left = {} /\ Len(sessions) \in Nat
        /\ Len(sessions') = Len(sessions) + 1 /\ sessions'[Len(sessions) + 1] = work
        /\ \A k \in 1..Len(sessions) : sessions'[k] = sessions[k]
    BY <1>0, <1>6, StageReturn
  <2>2. UNCHANGED <<version, flaws, changes>> /\ outcome' = "returned"
    BY <1>6 DEF Return, envVars
  <2>3. flaws + changes = 0 => work.runtime = version
    BY <2>1 DEF ComparedInv, RuntimeInv, RuntimeGoing, SteadyInv, SteadyGoing
  <2>4. \A k \in 1..Len(sessions') : k \in 1..Len(sessions) \/ k = Len(sessions) + 1
    BY <2>1
  <2>5. ASSUME flaws + changes = 0, NEW k \in 1..Len(sessions')
        PROVE  sessions'[k].runtime = version
    BY <2>1, <2>3, <2>4, <2>5 DEF SteadyInv
  <2> QED BY <2>1, <2>2, <2>5 DEF SteadyInv
<1>7. CASE Upgrade
  <2>1. changes' = changes + 1 /\ flaws' = flaws
    BY <1>7 DEF Upgrade
  <2>2. changes' \in Nat /\ flaws' + changes' # 0
    BY <1>0, <2>1
  <2> QED BY <2>2 DEF SteadyInv
<1>8. CASE UNCHANGED vars
  <2>1. /\ UNCHANGED <<kind, todo, work, again, bound, replayed, outcome, sessions, version, flaws, changes>>
        /\ Left' = Left /\ w' = w /\ Running' = Running
    BY <1>0, <1>8, StageSame DEF vars, callVars, envVars
  <2>2. SteadyGoing => SteadyGoing'
    BY <2>1 DEF SteadyGoing, Rerun
  <2> QED BY <2>1, <2>2 DEF SteadyInv
<1> QED BY <1>0, <1>1, <1>2, <1>3, <1>4, <1>5, <1>6, <1>7, <1>8, Steps

LEMMA SteadyAlways == Spec => []SteadyInv
<1>1. Init => SteadyInv
  <2> SUFFICES ASSUME Init
               PROVE  SteadyInv
    OBVIOUS
  <2>1. 1..Len(sessions) = {} /\ ~Running /\ changes = 0 /\ outcome = "idle"
    BY Initially DEF Init
  <2> QED BY <2>1 DEF SteadyInv
<1>2. /\ StageInv /\ RuntimeInv /\ OccurrenceInv /\ FlawInv /\ BuiltInv /\ OriginInv /\ ProofInv
      /\ SteadyInv /\ [Next]_vars
      => SteadyInv'
  BY SteadyStep DEF ComparedInv
<1> QED BY <1>1, <1>2, StageAlways, RuntimeAlways, OccurrenceAlways, FlawAlways, BuiltAlways, OriginAlways,
           ProofAlways, PTL DEF Spec

\* While every result comes out again and nothing is replaced or mixed, no call is refused
\* but for a source that names another upstream session: what create_session returns passes
\* the inspection of replay_session, binds, is run again to the same contents and numbers,
\* and so does what that replay returns.
THEOREM SteadyCorrect == Spec => []SteadyReplays
<1>1. SteadyInv => SteadyReplays
  BY DEF SteadyInv, SteadyReplays
<1> QED BY <1>1, SteadyAlways, PTL

-----------------------------------------------------------------------------
(* Proofs: what a replay is of. *)

\* What the comparisons of every kind say of the steps of a bundle, and what is so of
\* every session that was returned.
Bundled(b) == Requests(w, b, b.steps) /\ Refs(w, b, b.steps) /\ Envelopes(w, b, b.steps)
Parted(b, c, d) ==
  /\ MadeOf(b, c, d) /\ Bundled(b) /\ Bundled(c) /\ Bundled(d)
  /\ c = d \/ \A i \in 1..n : c.steps[i].exec # d.steps[i].exec

LEMMA Links ==
  ASSUME kind \in DOMAIN Catalog
  PROVE  Linked(w) /\ Index(w) = 1..n /\ Owned(w) \subseteq 1..n /\ 0 \notin 1..n /\ Up \notin 1..n
BY Flows DEF WellFormed, Owned, Up

LEMMA BundledParts ==
  ASSUME kind \in DOMAIN Catalog, NEW b, Bundled(b), NEW i \in 1..n
  PROVE  /\ b.steps[i].request = Request(w, i, b.source, b.up, b.steps, b.steps[i].exec)
         /\ b.steps[i].refs = InputRefs(w, i, b.source, b.up, b.steps)
         /\ b.steps[i].request.source = b.source
         /\ Up \in w.steps[i].data => b.steps[i].request.up = b.up
         /\ "request" \in w.steps[i].carries => b.steps[i].request.exec = b.steps[i].exec
         /\ \A j \in w.steps[i].cites : b.steps[i].request.cites[j] = ResultId(b.steps[j])
         /\ \A j \in w.steps[i].refs :
              b.steps[i].refs[j] = (IF j = 0 THEN b.source ELSE IF j = Up THEN b.up ELSE ResultId(b.steps[j]))
         /\ "result" \in w.steps[i].carries => b.steps[i].result.exec = b.steps[i].exec
         /\ "refs" \in w.steps[i].carries => b.steps[i].result.refs = b.steps[i].refs
<1>1. /\ b.steps[i].request = Request(w, i, b.source, b.up, b.steps, b.steps[i].exec)
      /\ b.steps[i].refs = InputRefs(w, i, b.source, b.up, b.steps)
      /\ "result" \in w.steps[i].carries => b.steps[i].result.exec = b.steps[i].exec
      /\ "refs" \in w.steps[i].carries => b.steps[i].result.refs = b.steps[i].refs
  BY Links DEF Bundled, Requests, Refs, Envelopes
<1>2. \A source, up, steps, exec :
        LET request == Request(w, i, source, up, steps, exec)
        IN  /\ request.source = source
            /\ Up \in w.steps[i].data => request.up = up
            /\ "request" \in w.steps[i].carries => request.exec = exec
            /\ \A j \in w.steps[i].cites : request.cites[j] = ResultId(steps[j])
  BY DEF Request, Carried
<1>3. \A source, up, steps :
        \A j \in w.steps[i].refs :
          InputRefs(w, i, source, up, steps)[j]
            = (IF j = 0 THEN source ELSE IF j = Up THEN up ELSE ResultId(steps[j]))
  BY DEF InputRefs, Up
<1> QED BY <1>1, <1>2, <1>3

LEMMA Parting == \A b, c, d : Parted(b, c, d) => Parted(b, d, c)
BY DEF Parted, MadeOf

\* The contents of a step are of the execution it names.
LEMMA OneCall ==
  ASSUME kind \in DOMAIN Catalog, NEW b, NEW c, NEW d, Parted(b, c, d),
         NEW i \in 1..n, b.steps[i].exec = c.steps[i].exec
  PROVE  /\ "result" \in w.steps[i].carries => b.steps[i].result = c.steps[i].result
         /\ "request" \in w.steps[i].carries => b.steps[i].request = c.steps[i].request
         /\ Echoes(w, i) => b.steps[i].refs = c.steps[i].refs
<1>1. /\ Bundled(b) /\ Bundled(c) /\ Bundled(d)
      /\ c = d \/ c.steps[i].exec # d.steps[i].exec
  BY DEF Parted
<1>2. /\ b.steps[i].request \in {c.steps[i].request, d.steps[i].request}
      /\ b.steps[i].result \in {c.steps[i].result, d.steps[i].result}
  BY DEF Parted, MadeOf
<1>3. "result" \in w.steps[i].carries => b.steps[i].result = c.steps[i].result
  <2>1. "result" \in w.steps[i].carries =>
          /\ b.steps[i].result.exec = b.steps[i].exec /\ c.steps[i].result.exec = c.steps[i].exec
          /\ d.steps[i].result.exec = d.steps[i].exec
    BY <1>1, BundledParts
  <2> QED BY <1>1, <1>2, <2>1
<1>4. "request" \in w.steps[i].carries => b.steps[i].request = c.steps[i].request
  <2>1. "request" \in w.steps[i].carries =>
          /\ b.steps[i].request.exec = b.steps[i].exec /\ c.steps[i].request.exec = c.steps[i].exec
          /\ d.steps[i].request.exec = d.steps[i].exec
    BY <1>1, BundledParts
  <2> QED BY <1>1, <1>2, <2>1
<1>5. Echoes(w, i) => b.steps[i].refs = c.steps[i].refs
  <2>1. Echoes(w, i) => b.steps[i].result.refs = b.steps[i].refs /\ c.steps[i].result.refs = c.steps[i].refs
    BY <1>1, BundledParts DEF Echoes
  <2> QED BY <1>3, <2>1 DEF Echoes
<1> QED BY <1>3, <1>4, <1>5

\* What a step names is of the session whose execution it is.
LEMMA NamedCall ==
  ASSUME kind \in DOMAIN Catalog, NEW b, NEW c, NEW d, Parted(b, c, d),
         NEW i \in 1..n, b.steps[i].exec = c.steps[i].exec, NEW j \in 1..n, Names(w, i, j)
  PROVE  /\ ResultId(b.steps[j]) = ResultId(c.steps[j])
         /\ "result" \in w.steps[j].carries => b.steps[j].exec = c.steps[j].exec
<1>1. Bundled(b) /\ Bundled(c) /\ j # 0 /\ j # Up
  BY Links DEF Parted
<1>2. ASSUME j \in w.steps[i].cites /\ "request" \in w.steps[i].carries
      PROVE  ResultId(b.steps[j]) = ResultId(c.steps[j])
  <2>1. b.steps[i].request = c.steps[i].request
    BY <1>2, OneCall
  <2>2. b.steps[i].request.cites[j] = ResultId(b.steps[j]) /\ c.steps[i].request.cites[j] = ResultId(c.steps[j])
    BY <1>1, <1>2, BundledParts
  <2>3. b.steps[i].request.cites[j] = c.steps[i].request.cites[j]
    BY <2>1
  <2> QED BY <2>2, <2>3
<1>3. ASSUME j \in w.steps[i].refs /\ Echoes(w, i)
      PROVE  ResultId(b.steps[j]) = ResultId(c.steps[j])
  <2>1. b.steps[i].refs = c.steps[i].refs
    BY <1>3, OneCall
  <2>2. b.steps[i].refs[j] = ResultId(b.steps[j]) /\ c.steps[i].refs[j] = ResultId(c.steps[j])
    BY <1>1, <1>3, BundledParts
  <2>3. b.steps[i].refs[j] = c.steps[i].refs[j]
    BY <2>1
  <2> QED BY <2>2, <2>3
<1>4. ResultId(b.steps[j]) = ResultId(c.steps[j])
  BY <1>2, <1>3 DEF Names
<1>5. b.steps[j].result.exec = c.steps[j].result.exec
  BY <1>4 DEF ResultId
<1>6. "result" \in w.steps[j].carries =>
        b.steps[j].result.exec = b.steps[j].exec /\ c.steps[j].result.exec = c.steps[j].exec
  BY <1>1, BundledParts
<1> QED BY <1>4, <1>5, <1>6

\* All executions are of one session, for otherwise a step names one of another.
LEMMA OneOwner ==
  ASSUME kind \in DOMAIN Catalog, NEW b, NEW c, NEW d, Parted(b, c, d)
  PROVE  \/ \A i \in Owned(w) : b.steps[i].exec = c.steps[i].exec
         \/ \A i \in Owned(w) : b.steps[i].exec = d.steps[i].exec
<1> DEFINE part == {i \in Owned(w) : b.steps[i].exec = c.steps[i].exec}
<1>1. \A i \in 1..n : b.steps[i].exec \in {c.steps[i].exec, d.steps[i].exec}
  BY DEF Parted, MadeOf
<1>2. c = d \/ \A i \in 1..n : c.steps[i].exec # d.steps[i].exec
  BY DEF Parted
<1>3. CASE part \in {{}, Owned(w)}
  BY <1>1, <1>3, Links
<1>4. CASE part \notin {{}, Owned(w)}
  <2>1. PICK i \in part, j \in Owned(w) \ part :
          \/ Names(w, i, j) /\ "result" \in w.steps[j].carries
          \/ Names(w, j, i) /\ "result" \in w.steps[i].carries
    BY <1>4, Links DEF Linked
  <2>2. /\ i \in 1..n /\ j \in 1..n /\ b.steps[i].exec = c.steps[i].exec
        /\ b.steps[j].exec # c.steps[j].exec /\ b.steps[j].exec = d.steps[j].exec
    BY <1>1, Links
  <2>3. ~(Names(w, i, j) /\ "result" \in w.steps[j].carries)
    BY <2>2, NamedCall
  <2>4. Names(w, j, i) /\ "result" \in w.steps[i].carries
    BY <2>1, <2>3
  <2>5. b.steps[i].exec = d.steps[i].exec
    BY <2>2, <2>4, NamedCall, Parting
  <2> QED BY <1>2, <2>2, <2>5
<1> QED BY <1>3, <1>4

\* The identities of two runs agree wherever a step asks about them or refers to them.
Agree(steps, others) ==
  \A j \in 1..n : "unbound" \notin w.steps[j].carries => ResultId(steps[j]) = ResultId(others[j])

LEMMA AgreeingSteps ==
  ASSUME kind \in DOMAIN Catalog, NEW steps, NEW others, Agree(steps, others), NEW i \in 1..n,
         NEW source, NEW up, NEW exec, NEW other, "request" \in w.steps[i].carries => exec = other
  PROVE  /\ Request(w, i, source, up, steps, exec) = Request(w, i, source, up, others, other)
         /\ InputRefs(w, i, source, up, steps) = InputRefs(w, i, source, up, others)
<1>1. /\ w.steps[i].data \ {Up} \subseteq 1..n /\ w.steps[i].cites \subseteq 1..n
      /\ w.steps[i].refs \ {0, Up} \subseteq 1..n
  BY Flows DEF WellFormed
<1>2. \A j \in 1..n : j \in w.steps[i].data \cup w.steps[i].cites \cup w.steps[i].refs =>
                      ResultId(steps[j]) = ResultId(others[j])
  BY Links DEF Linked, Agree
<1>3. \A j \in w.steps[i].data \ {Up} : steps[j].result.data = others[j].result.data
  BY <1>1, <1>2 DEF ResultId
<1>4. \A j \in w.steps[i].cites : ResultId(steps[j]) = ResultId(others[j])
  BY <1>1, <1>2
<1>5. Carried(w, i, {"request"}, exec) = Carried(w, i, {"request"}, other)
  BY DEF Carried
<1>6. Request(w, i, source, up, steps, exec) = Request(w, i, source, up, others, other)
  BY <1>3, <1>4, <1>5 DEF Request
<1>7. \A j \in w.steps[i].refs : j # 0 /\ j # Up => ResultId(steps[j]) = ResultId(others[j])
  BY <1>1, <1>2
<1>8. \A j \in w.steps[i].refs :
        (CASE j = 0 -> source [] j = Up -> up [] OTHER -> ResultId(steps[j]))
          = (CASE j = 0 -> source [] j = Up -> up [] OTHER -> ResultId(others[j]))
  BY <1>7
<1>9. InputRefs(w, i, source, up, steps) = InputRefs(w, i, source, up, others)
  BY <1>8 DEF InputRefs
<1> QED BY <1>6, <1>9

\* A bundle whose executions are all of one session is that session.
LEMMA OwnerWhole ==
  ASSUME kind \in DOMAIN Catalog, NEW b, NEW c, NEW d, Parted(b, c, d),
         \A i \in Owned(w) : b.steps[i].exec = c.steps[i].exec,
         "about" \in w.checks => About(w, b, b.steps), ~Spoilt(b),
         \A i \in 1..n : c.steps[i].result.data \subseteq Computed(c.steps[i].request) \cup {Flaw},
         w.upstream = "none" => b.up = c.up
  PROVE  OneSession(b, c)
<1>1. Bundled(b) /\ Bundled(c) /\ Linked(w) /\ Owned(w) \subseteq 1..n /\ Index(w) = 1..n
  BY Links DEF Parted
<1>2. ASSUME NEW i \in 1..n, "unbound" \notin w.steps[i].carries
      PROVE  ResultId(b.steps[i]) = ResultId(c.steps[i])
  <2>1. CASE "result" \in w.steps[i].carries
    <3>1. i \in Owned(w)
      BY <1>1, <2>1 DEF Owned
    <3>2. b.steps[i].result = c.steps[i].result
      BY <2>1, <3>1, OneCall
    <3> QED BY <3>2 DEF ResultId
  <2>2. CASE "result" \notin w.steps[i].carries
    <3>1. PICK j \in Owned(w) : Names(w, j, i)
      BY <1>1, <1>2, <2>2 DEF Linked
    <3>2. j \in 1..n /\ b.steps[j].exec = c.steps[j].exec
      BY <1>1
    <3> QED BY <3>1, <3>2, NamedCall
  <2> QED BY <2>1, <2>2
<1>3. b.source = c.source
  <2>1. PICK i \in Owned(w) :
          \/ "request" \in w.steps[i].carries
          \/ 0 \in w.steps[i].refs /\ Echoes(w, i)
          \/ "about" \in w.checks /\ w.steps[i].data \subseteq {Up} /\ "result" \in w.steps[i].carries
    BY <1>1 DEF Linked
  <2>2. i \in 1..n /\ b.steps[i].exec = c.steps[i].exec
    BY <1>1
  <2>3. b.steps[i].request.source = b.source /\ c.steps[i].request.source = c.source
    BY <1>1, <2>2, BundledParts
  <2>4. CASE "request" \in w.steps[i].carries
    BY <2>2, <2>3, <2>4, OneCall
  <2>5. CASE 0 \in w.steps[i].refs /\ Echoes(w, i)
    <3>1. b.steps[i].refs = c.steps[i].refs
      BY <2>2, <2>5, OneCall
    <3>2. b.steps[i].refs[0] = b.source /\ c.steps[i].refs[0] = c.source
      BY <1>1, <2>2, <2>5, BundledParts
    <3> QED BY <3>1, <3>2
  <2>6. CASE "about" \in w.checks /\ w.steps[i].data \subseteq {Up} /\ "result" \in w.steps[i].carries
    <3>1. b.steps[i].result.data = c.steps[i].result.data
      BY <2>2, <2>6, OneCall
    <3>2. <<"source", b.source>> \in Computed(b.steps[i].request)
      BY <2>3 DEF Computed
    <3>3. <<"source", b.source>> \in b.steps[i].result.data
      BY <1>1, <2>2, <2>6, <3>2 DEF About
    <3>4. <<"source", b.source>> \in Computed(c.steps[i].request)
      BY <2>2, <3>1, <3>3 DEF Spoilt
    <3>5. DOMAIN c.steps[i].request.data = {}
      <4>1. c.steps[i].request = Request(w, i, c.source, c.up, c.steps, c.steps[i].exec)
        BY <1>1, <2>2, BundledParts
      <4> QED BY <2>6, <4>1 DEF Request
    <3>6. <<"source", b.source>> \in {<<"source", c.source>>} \cup {<<"up", c.steps[i].request.up>>}
      BY <2>3, <3>4, <3>5 DEF Computed
    <3> QED BY <3>6
  <2> QED BY <2>1, <2>4, <2>5, <2>6
<1>4. b.up = c.up
  <2>1. CASE w.upstream = "none"
    BY <2>1
  <2>2. CASE w.upstream # "none"
    <3>1. PICK i \in Owned(w) :
            \/ Up \in w.steps[i].data /\ "request" \in w.steps[i].carries
            \/ Up \in w.steps[i].refs /\ Echoes(w, i)
      BY <1>1, <2>2 DEF Linked
    <3>2. i \in 1..n /\ b.steps[i].exec = c.steps[i].exec
      BY <1>1
    <3>3. CASE Up \in w.steps[i].data /\ "request" \in w.steps[i].carries
      <4>1. b.steps[i].request.up = b.up /\ c.steps[i].request.up = c.up
        BY <1>1, <3>2, <3>3, BundledParts
      <4> QED BY <3>2, <3>3, <4>1, OneCall
    <3>4. CASE Up \in w.steps[i].refs /\ Echoes(w, i)
      <4>1. b.steps[i].refs = c.steps[i].refs
        BY <3>2, <3>4, OneCall
      <4>2. b.steps[i].refs[Up] = b.up /\ c.steps[i].refs[Up] = c.up
        BY <1>1, <3>2, <3>4, BundledParts DEF Up
      <4> QED BY <4>1, <4>2
    <3> QED BY <3>1, <3>3, <3>4
  <2> QED BY <2>1, <2>2
<1>5. Agree(b.steps, c.steps)
  BY <1>2 DEF Agree
<1>6. ASSUME NEW i \in 1..n
      PROVE  /\ b.steps[i].request = c.steps[i].request /\ b.steps[i].refs = c.steps[i].refs
             /\ "unbound" \notin w.steps[i].carries => b.steps[i].result.data = c.steps[i].result.data
             /\ Bound(i) => b.steps[i].exec = c.steps[i].exec
  <2>1. Bound(i) => b.steps[i].exec = c.steps[i].exec
    BY <1>1 DEF Bound, Owned
  <2>2. "unbound" \notin w.steps[i].carries => b.steps[i].result.data = c.steps[i].result.data
    BY <1>2 DEF ResultId
  <2>3. /\ b.steps[i].request = Request(w, i, b.source, b.up, b.steps, b.steps[i].exec)
        /\ c.steps[i].request = Request(w, i, c.source, c.up, c.steps, c.steps[i].exec)
        /\ b.steps[i].refs = InputRefs(w, i, b.source, b.up, b.steps)
        /\ c.steps[i].refs = InputRefs(w, i, c.source, c.up, c.steps)
    BY <1>1, BundledParts
  <2>4. "request" \in w.steps[i].carries => b.steps[i].exec = c.steps[i].exec
    BY <2>1 DEF Bound
  <2> DEFINE steps == b.steps  others == c.steps  exec == b.steps[i].exec  other == c.steps[i].exec
             source == c.source  up == c.up
  <2>5. Agree(steps, others) /\ ("request" \in w.steps[i].carries => exec = other)
    BY <1>5, <2>4
  <2> HIDE DEF steps, others, exec, other, source, up
  <2>6. /\ Request(w, i, source, up, steps, exec) = Request(w, i, source, up, others, other)
        /\ InputRefs(w, i, source, up, steps) = InputRefs(w, i, source, up, others)
    BY <2>5, AgreeingSteps
  <2>7. b.steps[i].request = c.steps[i].request /\ b.steps[i].refs = c.steps[i].refs
    BY <1>3, <1>4, <2>3, <2>6 DEF steps, others, exec, other, source, up
  <2> QED BY <2>1, <2>2, <2>7
<1> QED BY <1>1, <1>3, <1>4, <1>6 DEF OneSession

\* What a mixture of two bundles is made of.
LEMMA MixedMade ==
  ASSUME NEW b, NEW c, NEW units, DOMAIN b = BundleFields, DOMAIN b.steps = 1..n,
         \A i \in 1..n : DOMAIN b.steps[i] = StepFields, <<0, "steps">> \notin units
  PROVE  MadeOf(Mixed(b, c, units), b, c)
<1>1. \A part \in {"session", "source", "up"} : Mixed(b, c, units)[part] \in {b[part], c[part]}
  BY MixedParts
<1>2. Mixed(b, c, units)["steps"] =
        [i \in DOMAIN b.steps |->
           IF <<i, "step">> \in units THEN c.steps[i]
           ELSE [f \in DOMAIN b.steps[i] |->
                   IF <<i, f>> \in units THEN c.steps[i][f] ELSE b.steps[i][f]]]
  BY DEF Mixed, BundleFields
<1>3. ASSUME NEW i \in 1..n, NEW part \in {"exec", "request", "refs", "result"}
      PROVE  Mixed(b, c, units)["steps"][i][part] \in {b.steps[i][part], c.steps[i][part]}
  <2>1. DOMAIN b.steps[i] = StepFields /\ part \in StepFields
    BY DEF StepFields
  <2> QED BY <1>2, <2>1
<1> QED BY <1>1, <1>3 DEF MadeOf

\* How a call begins, with what a replay is of.
Opens ==
  \/ \E source \in Sources, up \in IF w.upstream = "none" THEN {0} ELSE Sources : Create(source, up)
  \/ ReplayRetained \/ ReplayMixed \/ ReplayEdited
OneOfThese(b) == Spoilt(b) \/ \E k, l \in 1..Len(sessions) : MadeOf(b, sessions[k], sessions[l])

LEMMA Opened ==
  ASSUME StageInv, RuntimeInv, FlawInv, MadeInv, Opens
  PROVE  /\ ~Running /\ UNCHANGED <<kind, sessions>>
         /\ \E stages, source, up, b :
              /\ Call(stages, source, up, b) /\ (w.upstream = "none" => up = 0)
              /\ b = Blank \/ OneOfThese(b)
<1> DEFINE Calls == \E stages, source, up, b :
                      /\ Call(stages, source, up, b) /\ (w.upstream = "none" => up = 0)
                      /\ b = Blank \/ OneOfThese(b)
<1>1. /\ DOMAIN sessions = 1..Len(sessions) /\ Index(w) = 1..n
      /\ \A k \in DOMAIN sessions :
           /\ DOMAIN sessions[k] = BundleFields /\ DOMAIN sessions[k].steps = 1..n
           /\ w.upstream = "none" => sessions[k].up = 0
  BY Sequences, Flows DEF FlawInv, FlawKept, StageInv, MadeInv, MadeKept
<1>2. ASSUME NEW k \in DOMAIN sessions, NEW i \in 1..n
      PROVE  DOMAIN sessions[k].steps[i] = StepFields /\ "data" \in DOMAIN sessions[k].steps[i].result
  <2>1. Len(sessions[k].steps) = n /\ Shaped(sessions[k].steps)
    BY <1>1 DEF RuntimeInv, RuntimeKept, MadeInv, MadeKept
  <2> QED BY <2>1 DEF Shaped
<1>3. ASSUME NEW b, NEW cost, Replay(b, cost), OneOfThese(b), w.upstream = "none" => b.up = 0
      PROVE  ~Running /\ UNCHANGED <<kind, sessions>> /\ Calls
  <2>1. Call(w.replay, b.source, b.up, b)
    BY <1>3 DEF Replay
  <2> QED BY <1>3, <2>1 DEF Replay, Idle, Running
<1>4. CASE \E source \in Sources, up \in IF w.upstream = "none" THEN {0} ELSE Sources : Create(source, up)
  <2>1. PICK source \in Sources, up \in IF w.upstream = "none" THEN {0} ELSE Sources : Create(source, up)
    BY <1>4
  <2> QED BY <2>1 DEF Create, Idle, Running
<1>5. CASE ReplayRetained
  <2>1. PICK k \in DOMAIN sessions : Replay(sessions[k], 0)
    BY <1>5 DEF ReplayRetained
  <2>2. OneOfThese(sessions[k])
    BY <1>1 DEF OneOfThese, MadeOf
  <2> QED BY <1>1, <1>3, <2>1, <2>2
<1>6. CASE ReplayMixed
  <2>1. PICK k, l \in DOMAIN sessions, u, v \in Parts \cup StepParts, sealed \in BOOLEAN :
          LET mixed == Mixed(sessions[k], sessions[l], {u, v})
              b == IF sealed THEN Sealed(mixed) ELSE mixed
          IN  /\ k # l /\ b # sessions[k] /\ b # sessions[l]
              /\ Replay(b, Cardinality({u, v}))
    BY <1>6 DEF ReplayMixed
  <2> DEFINE mixed == Mixed(sessions[k], sessions[l], {u, v})
             b == IF sealed THEN Sealed(mixed) ELSE mixed
             cost == Cardinality({u, v})
  <2>2. Replay(b, cost)
    BY <2>1
  <2>3. DOMAIN mixed = BundleFields /\ MadeOf(mixed, sessions[k], sessions[l])
    <3>1. <<0, "steps">> \notin {u, v}
      BY DEF Parts, StepParts
    <3> QED BY <1>1, <1>2, <3>1, MixedParts, MixedMade
  <2> HIDE DEF mixed, cost
  <2>4. b.up = mixed.up /\ b.steps = mixed.steps /\ b.source = mixed.source
    BY <2>3, SealedParts
  <2> HIDE DEF b
  <2>5. MadeOf(b, sessions[k], sessions[l])
    BY <2>3, <2>4 DEF MadeOf
  <2>6. w.upstream = "none" => b.up = 0
    BY <1>1, <2>5 DEF MadeOf
  <2> QED BY <1>1, <1>3, <2>2, <2>5, <2>6 DEF OneOfThese
<1>7. CASE ReplayEdited
  <2>1. PICK k \in DOMAIN sessions, i \in Index(w), sealed \in BOOLEAN :
          LET edited == [sessions[k] EXCEPT !.steps[i].result.data = @ \cup {Flaw}]
          IN  Replay(IF sealed THEN Sealed(edited) ELSE edited, 1)
    BY <1>7 DEF ReplayEdited
  <2> DEFINE edited == [sessions[k] EXCEPT !.steps[i].result.data = @ \cup {Flaw}]
             b == IF sealed THEN Sealed(edited) ELSE edited
  <2>2. edited.up = sessions[k].up /\ DOMAIN edited = BundleFields /\ Flaw \in edited.steps[i].result.data
    <3>2. i \in DOMAIN sessions[k].steps /\ {"steps", "up"} \subseteq DOMAIN sessions[k]
      BY <1>1 DEF BundleFields
    <3>3. /\ edited.steps = [sessions[k].steps EXCEPT ![i].result.data = @ \cup {Flaw}]
          /\ edited.up = sessions[k].up /\ DOMAIN edited = BundleFields
      BY <1>1, <3>2
    <3>4. edited.steps[i] = [sessions[k].steps[i] EXCEPT !.result.data = @ \cup {Flaw}]
      BY <3>2, <3>3
    <3>5. edited.steps[i].result = [sessions[k].steps[i].result EXCEPT !.data = @ \cup {Flaw}]
      BY <1>1, <1>2, <3>4 DEF StepFields
    <3> QED BY <1>1, <1>2, <3>3, <3>5
  <2>3. Replay(b, 1)
    BY <2>1
  <2> HIDE DEF edited
  <2>4. b.up = edited.up /\ b.steps = edited.steps
    BY <2>2, SealedParts
  <2> HIDE DEF b
  <2>5. OneOfThese(b)
    BY <1>1, <2>2, <2>4 DEF OneOfThese, Spoilt
  <2> QED BY <1>1, <1>3, <2>2, <2>3, <2>4, <2>5
<1> QED BY <1>4, <1>5, <1>6, <1>7 DEF Opens

LEMMA ShapedCalled ==
  ASSUME NEW done, IsSeq(done), Shaped(done), NEW exec, exec # None, NEW flawed
  PROVE  Shaped(Append(done, Called(done, exec, flawed)))
<1> DEFINE call == Called(done, exec, flawed)
           steps == Append(done, call)
<1>1. /\ Len(steps) = Len(done) + 1 /\ steps[Len(done) + 1] = call /\ Len(done) \in Nat
      /\ \A i \in 1..Len(done) : steps[i] = done[i]
  BY Appended, Sequences
<1>2. /\ DOMAIN call = StepFields /\ "data" \in DOMAIN call.result /\ call.exec = exec
      /\ call.result.data \subseteq Computed(call.request) \cup {Flaw}
  BY DEF Called, StepFields
<1> HIDE DEF call, steps
<1>3. \A i \in 1..Len(steps) : i = Len(done) + 1 \/ i \in 1..Len(done)
  BY <1>1
<1>4. Shaped(steps)
  BY <1>1, <1>2, <1>3 DEF Shaped
<1> QED BY <1>4 DEF steps, call

LEMMA MadeStep == StageInv /\ RuntimeInv /\ FlawInv /\ MadeInv /\ [Next]_vars => MadeInv'
<1> SUFFICES ASSUME StageInv, RuntimeInv, FlawInv, MadeInv, [Next]_vars
             PROVE  MadeInv'
  OBVIOUS
<1>1. ASSUME UNCHANGED <<kind, sessions>>
      PROVE  MadeKept' /\ w' = w /\ n' = n /\ \A b : OneOfThese(b)' <=> OneOfThese(b)
  <2>1. w' = w /\ n' = n
    BY <1>1, Still
  <2>2. MadeKept'
    BY <1>1, <2>1 DEF MadeInv, MadeKept
  <2>3. ASSUME NEW b
        PROVE  OneOfThese(b)' <=> OneOfThese(b)
    <3>1. Spoilt(b)' <=> Spoilt(b)
      BY <2>1 DEF Spoilt
    <3>2. \A c, d : MadeOf(b, c, d)' <=> MadeOf(b, c, d)
      BY <2>1 DEF MadeOf
    <3> QED BY <1>1, <3>1, <3>2 DEF OneOfThese
  <2> QED BY <2>1, <2>2, <2>3
<1>2. Opens \/ Takes \/ Stops \/ ExecuteStep \/ AgainStep \/ Return \/ Upgrade \/ UNCHANGED vars
  BY Decided, Taken, Ended, Stopped DEF Next, Stages, Opens
<1>3. CASE Opens
  <2>1. PICK stages, source, up, b :
          /\ Call(stages, source, up, b) /\ (w.upstream = "none" => up = 0)
          /\ b = Blank \/ OneOfThese(b)
    BY <1>3, Opened
  <2>2. UNCHANGED <<kind, sessions>>
    BY <1>3, Opened
  <2>3. (work.steps)' = <<>> /\ (work.up)' = up /\ replayed' = b
    BY <2>1, Blanks DEF Call, Blank
  <2>4. MadeGoing'
    BY <1>1, <2>1, <2>2, <2>3, Empty DEF MadeGoing, Shaped, OneOfThese
  <2> QED BY <1>1, <2>2, <2>4 DEF MadeInv
<1>4. ASSUME Running' => Running, UNCHANGED <<kind, sessions, replayed>>,
             (work.steps)' = work.steps \/ (Running' => Shaped((work.steps)')), (work.up)' = work.up
      PROVE  MadeInv'
  <2>1. Running' => MadeGoing'
    BY <1>1, <1>4 DEF MadeInv, MadeGoing, OneOfThese
  <2> QED BY <1>1, <1>4, <2>1 DEF MadeInv
<1>5. CASE Takes
  BY <1>4, <1>5, TakenParts, TakenStages DEF Takes
<1>6. CASE Stops
  BY <1>1, <1>6 DEF Stops, MadeInv
<1>7. CASE ExecuteStep
  <2>1. PICK flawed \in BOOLEAN :
          /\ Occurs(flawed)
          /\ work' = [work EXCEPT !.steps = Append(@, Called(@, Identity(occurrence + 1), flawed))]
    BY <1>7, StageExecute
  <2>2. UNCHANGED <<kind, sessions, replayed, outcome>>
    BY <2>1 DEF Occurs
  <2> DEFINE done == work.steps  exec == Identity(occurrence + 1)
  <2>3. (work.up)' = work.up /\ (work.steps)' = Append(done, Called(done, exec, flawed))
    BY <2>1 DEF StageInv, BundleFields
  <2>4. Running => IsSeq(done) /\ Shaped(done)
    BY DEF MadeInv, MadeGoing, StageInv
  <2>5. exec # None
    BY DEF Identity, None
  <2> HIDE DEF done, exec
  <2>6. Running => Shaped((work.steps)')
    BY <2>3, <2>4, <2>5, ShapedCalled
  <2> QED BY <1>4, <2>2, <2>3, <2>6 DEF Running
<1>8. CASE AgainStep
  <2>1. work' = work /\ \E flawed \in BOOLEAN : Occurs(flawed)
    BY <1>8, StageAgain
  <2> QED BY <1>4, <2>1 DEF Occurs, Running
<1>9. CASE Return
  <2>1. /\ ~Running' /\ Running /\ w' = w /\ Len(sessions) \in Nat
        /\ Len(sessions') = Len(sessions) + 1 /\ sessions'[Len(sessions) + 1] = work
        /\ \A k \in 1..Len(sessions) : sessions'[k] = sessions[k]
    BY <1>9, StageReturn
  <2>2. Shaped(work.steps) /\ (w.upstream = "none" => work.up = 0)
    BY <2>1 DEF MadeInv, MadeGoing
  <2>3. \A k \in 1..Len(sessions') : k \in 1..Len(sessions) \/ k = Len(sessions) + 1
    BY <2>1
  <2>4. ASSUME NEW k \in 1..Len(sessions')
        PROVE  Shaped(sessions'[k].steps) /\ (w.upstream = "none" => sessions'[k].up = 0)
    BY <2>1, <2>2, <2>3 DEF MadeInv, MadeKept
  <2>5. MadeKept'
    BY <2>1, <2>4 DEF MadeKept
  <2> QED BY <2>1, <2>5 DEF MadeInv
<1>10. CASE Upgrade \/ UNCHANGED vars
  BY <1>4, <1>10 DEF Upgrade, callVars, vars, Running
<1> QED BY <1>2, <1>3, <1>5, <1>6, <1>7, <1>8, <1>9, <1>10

LEMMA MadeAlways == Spec => []MadeInv
<1>1. Init => MadeInv
  <2> SUFFICES ASSUME Init
               PROVE  MadeInv
    OBVIOUS
  <2>1. 1..Len(sessions) = {} /\ ~Running
    BY Initially DEF Init
  <2> QED BY <2>1 DEF MadeInv, MadeKept
<1>2. StageInv /\ RuntimeInv /\ FlawInv /\ MadeInv /\ [Next]_vars => MadeInv'
  BY MadeStep
<1> QED BY <1>1, <1>2, StageAlways, RuntimeAlways, FlawAlways, PTL DEF Spec

\* Two sessions have no execution in common.
LEMMA OtherExecutions ==
  ASSUME RuntimeInv, OccurrenceInv, FlawInv, MadeInv,
         NEW k \in 1..Len(sessions), NEW l \in 1..Len(sessions), k # l, NEW i \in 1..n
  PROVE  sessions[k].steps[i].exec # sessions[l].steps[i].exec
<1>1. ASSUME NEW m \in 1..Len(sessions)
      PROVE  \E x : sessions[m].steps[i].exec = <<m, x>>
  <2>1. Len(sessions[m].steps) = n /\ Shaped(sessions[m].steps) /\ DOMAIN sessions[m].steps = 1..n
    BY DEF RuntimeInv, RuntimeKept, MadeInv, MadeKept, FlawInv, FlawKept
  <2>2. sessions[m].steps[i].exec \in Occurrences(sessions[m].steps)
    BY <2>1 DEF Shaped, Occurrences
  <2>3. PICK x \in Nat : Drawn(m, x, sessions[m].steps)
    BY DEF OccurrenceInv, OccurrenceKept
  <2> QED BY <2>2, <2>3 DEF Drawn
<1>2. PICK x : sessions[k].steps[i].exec = <<k, x>>
  BY <1>1
<1>3. PICK y : sessions[l].steps[i].exec = <<l, y>>
  BY <1>1
<1> QED BY <1>2, <1>3

\* The bundle a replay is of, which may have been mixed from two sessions or edited since it
\* was returned, is one session with every part that the comparisons of its kind bind, once
\* it is accepted by inspection: the executions its steps name are all of one session, for a
\* step whose request or references name another is found to ask for something else.
THEOREM InspectionCorrect == Spec => []InspectedIsWhole
<1>1. StageInv /\ RuntimeInv /\ OccurrenceInv /\ FlawInv /\ BuiltInv /\ OriginInv /\ MadeInv => InspectedIsWhole
  <2> SUFFICES ASSUME StageInv, RuntimeInv, OccurrenceInv, FlawInv, BuiltInv, OriginInv, MadeInv,
                      Stage("inspect"), Accepts(w, replayed),
                      \A i \in Index(w) : Flaw \notin replayed.steps[i].result.data
               PROVE  \E k \in DOMAIN sessions : OneSession(replayed, sessions[k])
    BY DEF InspectedIsWhole
  <2>1. /\ Running /\ "inspect" \in Left /\ kind \in DOMAIN Catalog /\ DOMAIN sessions = 1..Len(sessions)
        /\ Index(w) = 1..n
    BY Heads, Sequences, Flows DEF Stage, StageInv
  <2>2. replayed # Blank /\ ~Spoilt(replayed)
    BY <2>1 DEF OriginInv, OriginGoing, Spoilt
  <2>3. PICK k, l \in 1..Len(sessions) : MadeOf(replayed, sessions[k], sessions[l])
    BY <2>1, <2>2 DEF MadeInv, MadeGoing
  <2>4. {"requests", "refs", "envelopes"} \subseteq w.checks
    BY <2>1, Links DEF Linked
  <2>5. /\ Requests(w, replayed, replayed.steps) /\ Refs(w, replayed, replayed.steps)
        /\ Envelopes(w, replayed, replayed.steps)
        /\ "about" \in w.checks => About(w, replayed, replayed.steps)
    <3>1. \A name \in {"requests", "refs", "envelopes", "about"} :
            Compared(w, replayed, name) = OnSteps(w, replayed, replayed.steps, name)
      BY DEF Compared, StepChecks
    <3>2. \A name \in {"requests", "refs", "envelopes", "about"} \cap w.checks :
            OnSteps(w, replayed, replayed.steps, name)
      BY <3>1 DEF Accepts
    <3> QED BY <2>4, <3>2 DEF OnSteps
  <2>6. ASSUME NEW m \in 1..Len(sessions)
        PROVE  /\ Bundled(sessions[m])
               /\ \A i \in 1..n :
                    sessions[m].steps[i].result.data \subseteq Computed(sessions[m].steps[i].request) \cup {Flaw}
               /\ w.upstream = "none" => sessions[m].up = 0
    <3>1. /\ Len(sessions[m].steps) = n /\ Shaped(sessions[m].steps) /\ (w.upstream = "none" => sessions[m].up = 0)
          /\ Built(w, sessions[m].runtime, sessions[m].source, sessions[m].up, sessions[m].steps)
      BY DEF RuntimeInv, RuntimeKept, MadeInv, MadeKept, BuiltInv, BuiltKept
    <3>2. Bundled(sessions[m])
      BY <2>1, <3>1 DEF Bundled, Requests, Refs, Envelopes, Built, Carried
    <3> QED BY <3>1, <3>2 DEF Shaped
  <2>7. w.upstream = "none" => replayed.up = 0
    BY <2>3, <2>6 DEF MadeOf
  <2> DEFINE b == replayed  c == sessions[k]  d == sessions[l]
  <2>8. c = d \/ \A i \in 1..n : c.steps[i].exec # d.steps[i].exec
    BY OtherExecutions
  <2>9. Parted(b, c, d) /\ Parted(b, d, c)
    BY <2>3, <2>5, <2>6, <2>8, Parting DEF Parted, Bundled
  <2>10. /\ "about" \in w.checks => About(w, b, b.steps)
         /\ ~Spoilt(b) /\ (w.upstream = "none" => b.up = c.up /\ b.up = d.up)
         /\ \A i \in 1..n : /\ c.steps[i].result.data \subseteq Computed(c.steps[i].request) \cup {Flaw}
                            /\ d.steps[i].result.data \subseteq Computed(d.steps[i].request) \cup {Flaw}
    BY <2>2, <2>5, <2>6, <2>7
  <2> HIDE DEF b, c, d
  <2>11. OneSession(b, c) \/ OneSession(b, d)
    BY <2>1, <2>9, <2>10, OneOwner, OwnerWhole
  <2> QED BY <2>1, <2>11 DEF b, c, d
<1> QED BY <1>1, StageAlways, RuntimeAlways, OccurrenceAlways, FlawAlways, BuiltAlways, OriginAlways, MadeAlways, PTL
=============================================================================
