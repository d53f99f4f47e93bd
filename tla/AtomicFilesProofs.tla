-------------------------- MODULE AtomicFilesProofs --------------------------
(***************************************************************************)
(* Proofs about AtomicFiles.tla, for any number of writers, readers, names   *)
(* and files.                                                                *)
(***************************************************************************)
EXTENDS AtomicFiles, TLAPS

\* Stages in which the temporary name exists and the file is the writer's.
Filling == {"writing", "written", "synced", "linked", "failed"}
Jobs == [name : Names, doc : Documents, file : Inodes]
Contents == [doc : Documents \cup {None}, whole : BOOLEAN, synced : BOOLEAN]
Sound(i) == content[i].whole /\ content[i].synced

Types ==
  /\ content \in [Inodes -> Contents]
  /\ paths \in [Names -> Inodes \cup {None}]
  /\ durable \in [Names -> Inodes \cup {None}]
  /\ reading \in [Readers -> Inodes \cup {None}]
  /\ temporaries \subseteq Inodes
  /\ stage \in [Writers -> Filling \cup Outside]
  /\ job \in [Writers -> Jobs \cup {NoJob}]
  /\ \A w \in Writers : stage[w] # "idle" => job[w] \in Jobs

LEMMA TypesNext == Types /\ [Next]_vars => Types'
<1> SUFFICES ASSUME Types, [Next]_vars PROVE Types'
  OBVIOUS
<1> USE DEF Types
<1>1. ASSUME NEW w \in Writers, NEW n \in Names, NEW d \in Documents, NEW i \in Inodes,
             Begin(w, n, d, i)
      PROVE  Types'
  BY <1>1 DEF Begin, Move, Filling, Jobs, Contents, Unwritten
<1>2. ASSUME NEW w \in Writers, Write(w) PROVE Types'
  <2>1. job[w].file \in Inodes
    BY <1>2 DEF Write, Jobs
  <2> QED BY <1>2, <2>1 DEF Write, Move, Filling, Contents
<1>3. ASSUME NEW w \in Writers, Sync(w) PROVE Types'
  <2>1. job[w].file \in Inodes
    BY <1>3 DEF Sync, Jobs
  <2> QED BY <1>3, <2>1 DEF Sync, Move, Filling, Contents
<1>4. ASSUME NEW w \in Writers, Replace(w) \/ Link(w) PROVE Types'
  <2>1. job[w].name \in Names /\ job[w].file \in Inodes
    BY <1>4 DEF Replace, Link, Jobs
  <2> QED BY <1>4, <2>1 DEF Replace, Link, Move, Filling, Outside
<1>5. ASSUME NEW w \in Writers, AlreadyThere(w) \/ Fail(w) \/ Unlink(w) \/ Kill(w) PROVE Types'
  BY <1>5 DEF AlreadyThere, Fail, Unlink, Kill, End, Move, Filling, Outside
<1>6. ASSUME NEW r \in Readers, Close(r) \/ \E n \in Names : Open(r, n) PROVE Types'
  BY <1>6 DEF Open, Close
<1>7. ASSUME NEW n \in Names, WriteBack(n) PROVE Types'
  BY <1>7 DEF WriteBack
<1>8. CASE PowerFailure
  <2>1. PICK lost : content' = [i \in Inodes |->
                     IF i \in lost THEN [content[i] EXCEPT !.whole = FALSE] ELSE content[i]]
    BY <1>8 DEF PowerFailure
  <2>2. content' \in [Inodes -> Contents]
    BY <2>1 DEF Contents
  <2> QED BY <1>8, <2>2 DEF PowerFailure, Filling, Outside
<1>9. CASE UNCHANGED vars
  BY <1>9 DEF vars
<1> QED BY <1>1, <1>2, <1>3, <1>4, <1>5, <1>6, <1>7, <1>8, <1>9 DEF Next, Work

LEMMA Typing == Spec => []Types
<1>1. Init => Types
  BY DEF Init, Types, Contents, Unwritten, Outside
<1> QED BY <1>1, TypesNext, PTL DEF Spec

-----------------------------------------------------------------------------
(* What can be seen is whole and on the platter, and no writer shares its    *)
(* temporary file.                                                           *)

WholeInv ==
  /\ \A i \in Inodes : i \in Visible => Sound(i)
  /\ \A w \in Writers : stage[w] \in Filling => job[w].file \in temporaries
  /\ \A v, w \in Writers :
       v # w /\ stage[v] \in Filling /\ stage[w] \in Filling => job[v].file # job[w].file
  /\ \A w \in Writers : stage[w] = "written" => content[job[w].file].whole
  /\ \A w \in Writers : stage[w] = "synced" => Sound(job[w].file)

LEMMA WholeNext == Types /\ WholeInv /\ [Next]_vars => WholeInv'
<1> SUFFICES ASSUME Types, WholeInv, [Next]_vars PROVE WholeInv'
  OBVIOUS
<1>0. \A w \in Writers : stage[w] \in Filling => job[w].file \in Inodes
  BY DEF Types, Jobs, Filling
<1>1. ASSUME NEW w \in Writers, NEW n \in Names, NEW d \in Documents, NEW i \in Inodes,
             Begin(w, n, d, i)
      PROVE  WholeInv'
  <2> DEFINE j == [name |-> n, doc |-> d, file |-> i]
  <2>1. /\ stage' = [stage EXCEPT ![w] = "writing"] /\ job' = [job EXCEPT ![w] = j]
        /\ temporaries' = temporaries \cup {i} /\ i \notin temporaries /\ i \notin Visible
        /\ UNCHANGED <<paths, durable, reading>>
        /\ \A k \in Inodes \ {i} : content'[k] = content[k]
    BY <1>1 DEF Begin, Move, Free, Types
  <2>2. j.file = i
    OBVIOUS
  <2> HIDE DEF j
  <2>3. /\ stage'[w] = "writing" /\ job'[w].file = i
        /\ \A v \in Writers \ {w} : stage'[v] = stage[v] /\ job'[v] = job[v]
    BY <2>1, <2>2 DEF Types
  <2>4. \A v \in Writers \ {w} : stage[v] \in Filling => job[v].file # i
    BY <2>1 DEF WholeInv
  <2>5. Visible' = Visible
    BY <2>1 DEF Visible
  <2>6. \A v \in Writers : stage'[v] \in {"written", "synced"} =>
          v # w /\ job[v].file \in Inodes \ {i}
    BY <1>0, <2>3, <2>4 DEF Filling
  <2>7. (\A k \in Inodes : k \in Visible => Sound(k))'
    BY <2>1, <2>5 DEF WholeInv, Sound
  <2>8. (\A v \in Writers : stage[v] \in Filling => job[v].file \in temporaries)'
    BY <2>1, <2>3 DEF WholeInv
  <2>9. (\A u, v \in Writers :
          u # v /\ stage[u] \in Filling /\ stage[v] \in Filling => job[u].file # job[v].file)'
    BY <2>3, <2>4 DEF WholeInv
  <2>10. /\ (\A v \in Writers : stage[v] = "written" => content[job[v].file].whole)'
         /\ (\A v \in Writers : stage[v] = "synced" => Sound(job[v].file))'
    BY <2>1, <2>3, <2>6 DEF WholeInv, Sound
  <2> QED BY <2>7, <2>8, <2>9, <2>10 DEF WholeInv
<1>2. ASSUME NEW w \in Writers, Write(w) \/ Sync(w) PROVE WholeInv'
  <2> DEFINE i == job[w].file
  <2>1. /\ i \in Inodes /\ stage[w] \in Filling /\ stage'[w] \in Filling
        /\ UNCHANGED <<paths, durable, reading, temporaries, job>>
        /\ \A v \in Writers \ {w} : stage'[v] = stage[v]
        /\ \A k \in Inodes \ {i} : content'[k] = content[k]
    BY <1>0, <1>2 DEF Write, Sync, Move, Filling, Types
  <2>2. /\ content[i].whole => content'[i].whole
        /\ content[i].synced => content'[i].synced
        /\ stage'[w] = "written" => content'[i].whole
        /\ stage'[w] = "synced" => content'[i].whole /\ content'[i].synced
    BY <1>2, <2>1 DEF Write, Sync, Move, Types, Contents, WholeInv
  <2> HIDE DEF i
  <2>3. Visible' = Visible
    BY <2>1 DEF Visible
  <2>4. (\A k \in Inodes : k \in Visible => Sound(k))'
    BY <2>1, <2>2, <2>3 DEF WholeInv, Sound
  <2>5. /\ (\A v \in Writers : stage[v] = "written" => content[job[v].file].whole)'
        /\ (\A v \in Writers : stage[v] = "synced" => Sound(job[v].file))'
    <3> SUFFICES ASSUME NEW v \in Writers
                 PROVE  /\ stage'[v] = "written" => content'[job[v].file].whole
                        /\ stage'[v] = "synced" =>
                             content'[job[v].file].whole /\ content'[job[v].file].synced
      BY <2>1 DEF Sound
    <3>1. CASE v = w
      BY <2>2, <3>1 DEF i
    <3>2. CASE v # w
      BY <1>0, <2>1, <2>2, <3>2 DEF WholeInv, Sound, Filling
    <3> QED BY <3>1, <3>2
  <2> QED BY <2>1, <2>4, <2>5 DEF WholeInv
<1>3. ASSUME NEW w \in Writers, Replace(w) PROVE WholeInv'
  <2>1. /\ stage[w] = "synced" /\ stage' = [stage EXCEPT ![w] = "saved"]
        /\ paths' = [paths EXCEPT ![job[w].name] = job[w].file]
        /\ temporaries' = temporaries \ {job[w].file}
        /\ UNCHANGED <<content, durable, reading, job>>
    BY <1>3 DEF Replace, Move
  <2>2. stage'[w] = "saved" /\ \A v \in Writers \ {w} : stage'[v] = stage[v]
    BY <2>1 DEF Types
  <2>3. Visible' \subseteq Visible \cup {job[w].file}
    BY <2>1 DEF Visible, Types
  <2>4. (\A k \in Inodes : k \in Visible => Sound(k))'
    BY <2>1, <2>3 DEF WholeInv, Sound
  <2> QED BY <2>1, <2>2, <2>4 DEF WholeInv, Filling, Sound
<1>4. ASSUME NEW w \in Writers, Link(w) PROVE WholeInv'
  <2>1. /\ stage[w] = "synced" /\ stage' = [stage EXCEPT ![w] = "linked"]
        /\ paths' = [paths EXCEPT ![job[w].name] = job[w].file]
        /\ UNCHANGED <<content, durable, reading, temporaries, job>>
    BY <1>4 DEF Link, Move
  <2>2. stage'[w] = "linked" /\ \A v \in Writers \ {w} : stage'[v] = stage[v]
    BY <2>1 DEF Types
  <2>3. Visible' \subseteq Visible \cup {job[w].file}
    BY <2>1 DEF Visible, Types
  <2>4. (\A k \in Inodes : k \in Visible => Sound(k))'
    BY <2>1, <2>3 DEF WholeInv, Sound
  <2> QED BY <2>1, <2>2, <2>4 DEF WholeInv, Filling, Sound
\* A writer gives up, or goes on after its file is there.
<1>5. ASSUME NEW w \in Writers, AlreadyThere(w) \/ Fail(w) PROVE WholeInv'
  <2>1. /\ stage[w] \in Filling /\ stage'[w] \in {"linked", "failed"}
        /\ \A v \in Writers \ {w} : stage'[v] = stage[v]
        /\ UNCHANGED <<content, paths, durable, reading, temporaries, job>>
    BY <1>5 DEF AlreadyThere, Fail, Move, Filling, Types
  <2> QED BY <2>1 DEF WholeInv, Visible, Sound, Filling
<1>6. ASSUME NEW w \in Writers, Unlink(w) \/ Kill(w) PROVE WholeInv'
  <2>1. /\ stage[w] \in Filling /\ stage'[w] \notin Filling
        /\ temporaries' \in {temporaries, temporaries \ {job[w].file}}
        /\ UNCHANGED <<content, paths, durable, reading>>
        /\ \A v \in Writers \ {w} : stage'[v] = stage[v] /\ job'[v] = job[v]
    BY <1>6 DEF Unlink, Kill, End, Move, Filling, Outside, Types
  <2>2. Visible' = Visible
    BY <2>1 DEF Visible
  <2> QED BY <2>1, <2>2 DEF WholeInv, Sound, Filling
<1>7. ASSUME NEW r \in Readers, Close(r) \/ \E n \in Names : Open(r, n) PROVE WholeInv'
  <2>1. UNCHANGED <<content, paths, durable, temporaries, stage, job>>
    BY <1>7 DEF Open, Close
  <2>2. Visible' \subseteq Visible \cup {None}
    BY <1>7, <2>1 DEF Open, Close, Visible, Types
  <2> QED BY <2>1, <2>2, NoneApart DEF WholeInv, Sound
<1>8. ASSUME NEW n \in Names, WriteBack(n) PROVE WholeInv'
  <2>1. UNCHANGED <<content, paths, reading, temporaries, stage, job>>
    BY <1>8 DEF WriteBack
  <2>2. Visible' \subseteq Visible
    BY <1>8, <2>1 DEF WriteBack, Visible, Types
  <2> QED BY <2>1, <2>2 DEF WholeInv, Sound
<1>9. CASE PowerFailure
  <2>1. \A w \in Writers : stage'[w] = "idle"
    BY <1>9 DEF PowerFailure
  <2>2. Visible' \subseteq Visible \cup {None}
    BY <1>9 DEF PowerFailure, Visible
  <2>3. \A i \in Inodes : Sound(i) => content'[i] = content[i]
    BY <1>9 DEF PowerFailure, Sound
  <2> QED BY <2>1, <2>2, <2>3, NoneApart DEF WholeInv, Sound, Filling
<1>10. CASE UNCHANGED vars
  BY <1>10 DEF vars, WholeInv, Visible, Sound
<1> QED BY <1>1, <1>2, <1>3, <1>4, <1>5, <1>6, <1>7, <1>8, <1>9, <1>10 DEF Next, Work

LEMMA Whole == Spec => []WholeInv
<1>1. Init => WholeInv
  BY NoneApart DEF Init, WholeInv, Visible, Filling
<1> QED BY <1>1, WholeNext, Typing, PTL DEF Spec

\* Also after a power failure, and whatever writers do meanwhile, what is opened or under
\* a name is a whole document (session.py:66).
THEOREM ReadingCorrect == Spec => []ReadWhole
<1>1. Types /\ WholeInv => ReadWhole
  <2> SUFFICES ASSUME Types, WholeInv PROVE ReadWhole
    OBVIOUS
  <2>1. ASSUME NEW i \in Visible PROVE Found(i) # "torn"
    <3>1. i # None => content[i].whole /\ content[i].doc \in Documents \cup {None}
      BY <2>1 DEF Types, WholeInv, Visible, Sound, Contents
    <3> QED BY <3>1, NoneApart DEF Found
  <2> QED BY <2>1 DEF ReadWhole, Shown, Visible
<1> QED BY <1>1, Whole, Typing, PTL

-----------------------------------------------------------------------------
(* Names: a linked name, once given, keeps its file.                         *)

\* No step changes the document of a file that somebody may see.
LEMMA SeenKept ==
  ASSUME Types, WholeInv, [Next]_vars, NEW i \in Inodes, i \in Visible
  PROVE  content'[i].doc = content[i].doc /\ content'[i].whole
<1>1. Sound(i) /\ content \in [Inodes -> Contents]
  BY DEF WholeInv, Types
<1>2. ASSUME NEW w \in Writers, NEW n \in Names, NEW d \in Documents, NEW k \in Inodes,
             Begin(w, n, d, k)
      PROVE  content'[i] = content[i]
  BY <1>1, <1>2 DEF Begin, Free
<1>3. ASSUME NEW w \in Writers, Write(w) \/ Sync(w)
      PROVE  content'[i].doc = content[i].doc /\ content'[i].whole
  <2>1. job[w].file \in Inodes
    BY <1>3 DEF Write, Sync, Types, Jobs
  <2> QED BY <1>1, <1>3, <2>1 DEF Write, Sync, Sound, Contents
<1>4. CASE PowerFailure
  BY <1>1, <1>4 DEF PowerFailure, Sound
<1>5. CASE UNCHANGED content
  BY <1>1, <1>5 DEF Sound
<1> QED BY <1>1, <1>2, <1>3, <1>4, <1>5
        DEF Next, Work, Replace, Link, AlreadyThere, Fail, Unlink, Kill, Open, Close, WriteBack,
            vars, Sound

LEMMA FoundKept ==
  ASSUME Types, WholeInv, [Next]_vars, NEW i \in Visible
  PROVE  Found(i)' = Found(i)
<1>1. i \in Inodes \cup {None}
  BY DEF Types, Visible
<1>2. CASE i \in Inodes
  BY <1>2, SeenKept DEF WholeInv, Sound, Found
<1> QED BY <1>1, <1>2 DEF Found

NameInv ==
  /\ \A w \in Writers : stage[w] \in Filling => content[job[w].file].doc = job[w].doc
  /\ \A n \in Linked : durable[n] \in {None, paths[n]}
  /\ \A w \in Writers :
       stage[w] \in {"linked", "saved"} /\ job[w].name \in Linked =>
         Shown(job[w].name) = job[w].doc

\* What the steps do to names.
LEMMA NameSteps ==
  ASSUME Types, WholeInv, NameInv, [Next]_vars
  PROVE  \/ /\ UNCHANGED <<paths, durable>>
            /\ \A n \in Names : Shown(n)' = Shown(n)
         \/ \E w \in Writers :
              /\ stage[w] = "synced" /\ UNCHANGED <<durable, job>>
              /\ paths' = [paths EXCEPT ![job[w].name] = job[w].file]
              /\ job[w].name \in Linked => Shown(job[w].name) = None
              /\ Shown(job[w].name)' = job[w].doc
              /\ \A n \in Names \ {job[w].name} : Shown(n)' = Shown(n)
         \/ \E n \in Names :
              /\ durable' = [durable EXCEPT ![n] = paths[n]] /\ UNCHANGED <<paths, stage, job>>
              /\ \A m \in Names : Shown(m)' = Shown(m)
         \/ PowerFailure
<1>1. \A n \in Names : paths[n] \in Visible
  BY DEF Visible
<1>2. \A n \in Names : paths'[n] = paths[n] => Shown(n)' = Shown(n)
  BY <1>1, FoundKept DEF Shown, Found
<1>3. ASSUME NEW w \in Writers, Replace(w) \/ Link(w)
      PROVE  /\ stage[w] = "synced" /\ UNCHANGED <<durable, job>>
             /\ paths' = [paths EXCEPT ![job[w].name] = job[w].file]
             /\ job[w].name \in Linked => Shown(job[w].name) = None
             /\ Shown(job[w].name)' = job[w].doc
             /\ \A n \in Names \ {job[w].name} : Shown(n)' = Shown(n)
  <2>1. /\ stage[w] = "synced" /\ UNCHANGED <<content, durable, job>>
        /\ paths' = [paths EXCEPT ![job[w].name] = job[w].file]
        /\ job[w].name \in Linked => paths[job[w].name] = None
    BY <1>3 DEF Replace, Link, Vacant
  <2>2. job[w].name \in Names /\ job[w].file \in Inodes
    BY <2>1 DEF Types, Jobs
  <2>3. content[job[w].file].whole /\ content[job[w].file].doc = job[w].doc
    BY <2>1 DEF WholeInv, Sound, NameInv, Filling
  <2>4. paths'[job[w].name] = job[w].file /\ \A n \in Names \ {job[w].name} : paths'[n] = paths[n]
    BY <2>1, <2>2 DEF Types
  <2>5. Shown(job[w].name)' = job[w].doc
    BY <2>1, <2>2, <2>3, <2>4, NoneApart DEF Shown, Found
  <2> QED BY <1>2, <2>1, <2>4, <2>5 DEF Shown, Found
<1>4. ASSUME NEW n \in Names, WriteBack(n)
      PROVE  /\ durable' = [durable EXCEPT ![n] = paths[n]] /\ UNCHANGED <<paths, stage, job>>
             /\ \A m \in Names : Shown(m)' = Shown(m)
  BY <1>2, <1>4 DEF WriteBack
<1>5. CASE UNCHANGED <<paths, durable>>
  BY <1>2, <1>5
<1> QED BY <1>3, <1>4, <1>5
        DEF Next, Work, Begin, Write, Sync, AlreadyThere, Fail, Unlink, Kill, Open, Close, vars

\* The file a writer fills holds its document.
LEMMA FillingKept ==
  ASSUME Types, WholeInv, NameInv, [Next]_vars, NEW v \in Writers, stage'[v] \in Filling
  PROVE  content'[job'[v].file].doc = job'[v].doc
<1>1. ASSUME stage[v] \in Filling, job'[v] = job[v], UNCHANGED content
      PROVE  content'[job'[v].file].doc = job'[v].doc
  BY <1>1 DEF NameInv
<1>2. ASSUME NEW w \in Writers, NEW n \in Names, NEW d \in Documents, NEW i \in Inodes,
             Begin(w, n, d, i)
      PROVE  content'[job'[v].file].doc = job'[v].doc
  <2>1. CASE v = w
    BY <1>2, <2>1 DEF Begin, Unwritten, Types
  <2>2. CASE v # w
    <3>1. stage[v] \in Filling /\ job'[v] = job[v]
      BY <1>2, <2>2 DEF Begin, Move, Types
    <3>2. job[v].file \in Inodes \ {i}
      BY <1>2, <3>1 DEF Begin, Free, WholeInv, Types
    <3> QED BY <1>2, <3>1, <3>2 DEF Begin, NameInv, Types
  <2> QED BY <2>1, <2>2
<1>3. ASSUME NEW w \in Writers, Write(w) \/ Sync(w)
      PROVE  content'[job'[v].file].doc = job'[v].doc
  <2>1. stage[v] \in Filling /\ job'[v] = job[v]
    BY <1>3 DEF Write, Sync, Move, Filling, Types
  <2>2. job[v].file \in Inodes /\ job[w].file \in Inodes
    BY <1>3, <2>1 DEF Write, Sync, Types, Jobs, Filling
  <2>3. content'[job[v].file].doc = content[job[v].file].doc
    BY <1>3, <2>2 DEF Write, Sync, Types, Contents
  <2> QED BY <2>1, <2>3 DEF NameInv
<1>4. ASSUME NEW w \in Writers,
             Replace(w) \/ Link(w) \/ AlreadyThere(w) \/ Fail(w) \/ Unlink(w) \/ Kill(w)
      PROVE  content'[job'[v].file].doc = job'[v].doc
  <2>1. /\ stage[v] \in Filling /\ UNCHANGED content
    BY <1>4 DEF Replace, Link, AlreadyThere, Fail, Unlink, Kill, End, Move, Filling, Outside, Types
  <2>2. job'[v] = job[v]
    BY <1>4 DEF Replace, Link, AlreadyThere, Fail, Unlink, Kill, End, Move, Filling, Types
  <2> QED BY <1>1, <2>1, <2>2
<1>5. CASE PowerFailure
  BY <1>5 DEF PowerFailure, Filling
<1>6. CASE UNCHANGED <<content, stage, job>>
  BY <1>1, <1>6
<1> QED BY <1>2, <1>3, <1>4, <1>5, <1>6 DEF Next, Work, Open, Close, WriteBack, vars

\* A directory entry that was written back is the one that is there, or none.
LEMMA DurableKept ==
  ASSUME Types, WholeInv, NameInv, [Next]_vars, NEW n \in Linked
  PROVE  durable'[n] \in {None, paths'[n]}
<1>1. n \in Names
  BY DEF Names
<1>2. ASSUME NEW w \in Writers, Replace(w) \/ Link(w) PROVE durable'[n] \in {None, paths'[n]}
  <2>1. /\ durable' = durable /\ paths' = [paths EXCEPT ![job[w].name] = job[w].file]
        /\ job[w].name \in Linked => paths[job[w].name] = None
    BY <1>2 DEF Replace, Link, Vacant
  <2> QED BY <1>1, <2>1 DEF NameInv, Types
<1>3. ASSUME NEW m \in Names, WriteBack(m) PROVE durable'[n] \in {None, paths'[n]}
  BY <1>1, <1>3 DEF WriteBack, NameInv, Types
<1>4. CASE PowerFailure
  BY <1>4 DEF PowerFailure
<1>5. CASE UNCHANGED <<paths, durable>>
  BY <1>5 DEF NameInv
<1> QED BY <1>2, <1>3, <1>4, <1>5
        DEF Next, Work, Begin, Write, Sync, AlreadyThere, Fail, Unlink, Kill, Open, Close, vars

\* Only a power failure changes what a linked name shows once it shows something.
LEMMA ShownKept ==
  ASSUME Types, WholeInv, NameInv, [Next]_vars, ~PowerFailure, NEW n \in Linked, Shown(n) # None
  PROVE  Shown(n)' = Shown(n)
<1>1. n \in Names /\ paths[n] # None
  BY DEF Names, Shown, Found
<1> QED BY <1>1, NameSteps

\* Who has linked its run, or found it there, still finds it.
LEMMA LinkedFound ==
  ASSUME Types, WholeInv, NameInv, [Next]_vars, NEW v \in Writers,
         stage'[v] \in {"linked", "saved"}, job'[v].name \in Linked
  PROVE  (Shown(job[v].name) = job[v].doc)'
<1>0. ~PowerFailure
  BY DEF PowerFailure
<1>1. ASSUME stage[v] # "idle", job'[v] = job[v], Shown(job[v].name) = job[v].doc
      PROVE  (Shown(job[v].name) = job[v].doc)'
  <2>1. job[v].doc # None
    BY <1>1, NoneApart DEF Types, Jobs
  <2>2. \A n \in Linked : Shown(n) # None => Shown(n)' = Shown(n)
    BY <1>0, ShownKept
  <2>3. PICK n \in Linked : n = job[v].name
    BY <1>1
  <2>4. Shown(n)' = Shown(n) /\ Shown(n) = job[v].doc
    BY <1>1, <2>1, <2>2, <2>3
  <2> QED BY <1>1, <2>3, <2>4 DEF Shown, Found
<1>2. CASE stage[v] \in {"linked", "saved"} /\ job'[v] = job[v]
  BY <1>1, <1>2 DEF NameInv
<1>3. CASE AlreadyThere(v)
  BY <1>1, <1>3 DEF AlreadyThere, Same
<1>4. CASE Link(v)
  <2>1. /\ job' = job /\ content' = content /\ paths'[job[v].name] = job[v].file
        /\ stage[v] = "synced" /\ job[v].file \in Inodes
    BY <1>4 DEF Link, Types, Jobs
  <2>2. content[job[v].file].whole /\ content[job[v].file].doc = job[v].doc
    BY <2>1 DEF WholeInv, Sound, NameInv, Filling
  <2> QED BY <2>1, <2>2, NoneApart DEF Shown, Found
<1>5. \/ AlreadyThere(v) \/ Link(v)
      \/ stage[v] \in {"linked", "saved"} /\ job'[v] = job[v]
  BY <1>0 DEF Next, Work, Begin, Write, Sync, Replace, Link, AlreadyThere, Fail, Unlink, Kill, End,
              Open, Close, WriteBack, vars, Move, Types, Outside
<1> QED BY <1>2, <1>3, <1>4, <1>5

LEMMA NameNext == Types /\ WholeInv /\ NameInv /\ [Next]_vars => NameInv'
<1> SUFFICES ASSUME Types, WholeInv, NameInv, [Next]_vars PROVE NameInv'
  OBVIOUS
<1>1. (\A w \in Writers : stage[w] \in Filling => content[job[w].file].doc = job[w].doc)'
  BY FillingKept
<1>2. (\A n \in Linked : durable[n] \in {None, paths[n]})'
  BY DurableKept
<1>3. (\A w \in Writers : stage[w] \in {"linked", "saved"} /\ job[w].name \in Linked =>
         Shown(job[w].name) = job[w].doc)'
  BY LinkedFound
<1> QED BY <1>1, <1>2, <1>3 DEF NameInv

LEMMA Naming == Spec => []NameInv
<1>1. Init => NameInv
  BY DEF Init, NameInv, Filling, Names
<1> QED BY <1>1, NameNext, Whole, Typing, PTL DEF Spec

\* A command that reports a linked run as saved finds its own content there
\* (plsr.py:95-101).
THEOREM SavingCorrect == Spec => []SavedIsThere
<1>1. NameInv => SavedIsThere
  BY DEF NameInv, SavedIsThere
<1> QED BY <1>1, Naming, PTL

\* A run or report that was linked is never replaced by another, whoever races for its
\* name; a power failure may only undo it (plsr.py:79, 91-97).
THEOREM LinkingCorrect == Spec => LinkedKept
<1>1. Types /\ WholeInv /\ NameInv /\ [Next]_vars =>
        [\A n \in Linked : Shown(n) # None /\ Shown(n)' # None => Shown(n)' = Shown(n)]_vars
  <2> SUFFICES ASSUME Types, WholeInv, NameInv, [Next]_vars, NEW n \in Linked,
                      Shown(n) # None, Shown(n)' # None
               PROVE  Shown(n)' = Shown(n)
    OBVIOUS
  <2>1. CASE ~PowerFailure
    BY <2>1, ShownKept
  <2>2. CASE PowerFailure
    <3>1. n \in Names /\ paths'[n] = durable[n] /\ durable[n] \in {None, paths[n]}
      BY <2>2 DEF PowerFailure, NameInv, Names
    <3>2. paths'[n] = paths[n] /\ paths[n] \in Visible
      BY <3>1 DEF Shown, Found, Visible
    <3> QED BY <3>2, FoundKept DEF Shown, Found
  <2> QED BY <2>1, <2>2
<1> QED BY <1>1, Naming, Whole, Typing, PTL DEF Spec, LinkedKept

-----------------------------------------------------------------------------
(* The register: giving a file its name is the one step that readers see.    *)

\* Every behaviour of the writers, failures of the power included, is one of the
\* registers of FileRegister.tla (session.py:65-82).
THEOREM RegisterImplemented == Spec => ImplementsRegister
<1>1. Init => Abstract!Init
  BY DEF Init, Abstract!Init, Shown, Found
<1>2. Types /\ WholeInv /\ NameInv /\ [Next]_vars => [Abstract!Next]_(Abstract!vars)
  <2> SUFFICES ASSUME Types, WholeInv, NameInv, [Next]_vars
               PROVE  [Abstract!Next]_(Abstract!vars)
    OBVIOUS
  <2>0. /\ \A n \in Names : paths[n] \in Visible /\ durable[n] \in Visible
        /\ \A n \in Names : durable'[n] = durable[n] => Found(durable[n])' = Found(durable[n])
    BY FoundKept DEF Visible, Found
  <2>1. CASE UNCHANGED <<paths, durable>> /\ \A n \in Names : Shown(n)' = Shown(n)
    BY <2>0, <2>1 DEF Abstract!vars
  <2>2. ASSUME NEW w \in Writers, stage[w] = "synced", UNCHANGED <<durable, job>>,
               Shown(job[w].name)' = job[w].doc,
               \A n \in Names \ {job[w].name} : Shown(n)' = Shown(n)
        PROVE  Abstract!Next
    <3>1. job[w].name \in Names /\ job[w].doc \in Documents
      BY <2>2 DEF Types, Jobs
    <3>2. Abstract!Put(job[w].name, job[w].doc)
      BY <2>0, <2>2, <3>1 DEF Abstract!Put
    <3> QED BY <3>1, <3>2 DEF Abstract!Next
  <2>3. ASSUME NEW n \in Names, durable' = [durable EXCEPT ![n] = paths[n]],
               \A m \in Names : Shown(m)' = Shown(m)
        PROVE  Abstract!Next
    <3>1. \A m \in Names : Found(durable[m])' = IF m = n THEN Shown(n) ELSE Found(durable[m])
      BY <2>0, <2>3, FoundKept DEF Types, Shown
    <3>2. Abstract!Last(n)
      BY <2>3, <3>1 DEF Abstract!Last
    <3> QED BY <3>2 DEF Abstract!Next
  <2>4. CASE PowerFailure
    <3>1. paths' = durable /\ durable' = durable
      BY <2>4 DEF PowerFailure
    <3>2. Abstract!PowerFailure
      BY <2>0, <3>1 DEF Abstract!PowerFailure, Shown, Found
    <3> QED BY <3>2 DEF Abstract!Next
  <2> QED BY <2>1, <2>2, <2>3, <2>4, NameSteps
<1> QED BY <1>1, <1>2, Naming, Whole, Typing, PTL DEF Spec, ImplementsRegister, Abstract!Spec

=============================================================================
