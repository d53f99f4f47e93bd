----------------------------- MODULE AtomicFiles -----------------------------
(***************************************************************************)
(* How src/ciw publishes a JSON file under a name that other commands and    *)
(* threads write and read too.  Each way fills a temporary file, syncs it    *)
(* and gives it the name: write_json replaces what is there, save_session of *)
(* the telemetry, calibrated and design workflows looks first whether        *)
(* anything is there, and PLSR runs and proof reports are linked, which      *)
(* fails if anything is.  A writer may fail or be killed at any step, and    *)
(* the power may fail: directories are not synced.                           *)
(***************************************************************************)

CONSTANTS
  Writers, Readers,
  Replaced,      \* names that write_json replaces: workspaces and record files
  Guarded,       \* names that save_session writes
  Linked,        \* names that are linked, never replaced
  Documents,
  Inodes,        \* bound: files of the file system
  None

Names == Replaced \cup Guarded \cup Linked

ASSUME NamesApart == Linked \cap (Replaced \cup Guarded) = {}
ASSUME NoneApart == None \notin Documents /\ None \notin Inodes /\ "torn" \notin Documents \cup {None}

VARIABLES
  content,       \* of each file: its document, whether it is whole, whether synced
  paths,         \* the file under each name
  durable,       \* the same, in the directory that a power failure leaves
  temporaries,   \* files under temporary names
  stage, job,    \* where each writer is; the name, document and file it is about
  reading        \* the file that a reader has opened

vars == <<content, paths, durable, temporaries, stage, job, reading>>

Unwritten == [doc |-> None, whole |-> FALSE, synced |-> FALSE]
NoJob == [name |-> None, doc |-> None, file |-> None]

Visible ==
  {paths[n] : n \in Names} \cup {durable[n] : n \in Names} \cup {reading[r] : r \in Readers}
Free(i) == i \notin temporaries \cup Visible

\* The document under a name; None without a file, "torn" if it is cut short.
Found(i) ==
  IF i = None THEN None ELSE IF content[i].whole THEN content[i].doc ELSE "torn"
Shown(n) == Found(paths[n])

Init ==
  /\ content = [i \in Inodes |-> Unwritten]
  /\ paths = [n \in Names |-> None]
  /\ durable = [n \in Names |-> None]
  /\ temporaries = {}
  /\ stage = [w \in Writers |-> "idle"]
  /\ job = [w \in Writers |-> NoJob]
  /\ reading = [r \in Readers |-> None]

-----------------------------------------------------------------------------
Move(w, next) == stage' = [stage EXCEPT ![w] = next]
Outside == {"idle", "saved"}
End(w, next) == Move(w, next) /\ job' = [job EXCEPT ![w] = NoJob]

\* save_session raises when path.exists().
Unused(n) == n \in Guarded => paths[n] = None

\* The temporary file, with nothing or part of the document in it.
Begin(w, n, d, i) ==
  /\ stage[w] \in Outside /\ Unused(n) /\ Free(i)
  /\ content' = [content EXCEPT ![i] = [Unwritten EXCEPT !.doc = d]]
  /\ temporaries' = temporaries \cup {i}
  /\ job' = [job EXCEPT ![w] = [name |-> n, doc |-> d, file |-> i]]
  /\ Move(w, "writing")
  /\ UNCHANGED <<paths, durable, reading>>

\* stream.write and stream.flush.
Write(w) ==
  /\ stage[w] = "writing"
  /\ content' = [content EXCEPT ![job[w].file].whole = TRUE]
  /\ Move(w, "written")
  /\ UNCHANGED <<paths, durable, temporaries, job, reading>>

\* os.fsync.
SyncNothing(w) ==                                         \* bug: flushed, not synced
  /\ stage[w] = "written" /\ Move(w, "synced")
  /\ UNCHANGED <<content, paths, durable, temporaries, job, reading>>
Sync(w) ==
  /\ stage[w] = "written"
  /\ content' = [content EXCEPT ![job[w].file].synced = TRUE]
  /\ Move(w, "synced")
  /\ UNCHANGED <<paths, durable, temporaries, job, reading>>

\* os.replace.
Replace(w) ==
  /\ stage[w] = "synced" /\ job[w].name \notin Linked
  /\ paths' = [paths EXCEPT ![job[w].name] = job[w].file]
  /\ temporaries' = temporaries \ {job[w].file}
  /\ Move(w, "saved")
  /\ UNCHANGED <<content, durable, job, reading>>

\* os.link, which fails if the name is taken.
Vacant(n) == paths[n] = None

Link(w) ==
  /\ stage[w] = "synced" /\ job[w].name \in Linked /\ Vacant(job[w].name)
  /\ paths' = [paths EXCEPT ![job[w].name] = job[w].file]
  /\ Move(w, "linked")
  /\ UNCHANGED <<content, durable, temporaries, job, reading>>

\* FileExistsError: a PLSR run is there already if the content is the same.
SameTrusted(w) == TRUE                                    \* bug: any content will do
Same(w) == Shown(job[w].name) = job[w].doc

AlreadyThere(w) ==
  /\ stage[w] = "synced" /\ job[w].name \in Linked /\ ~Vacant(job[w].name)
  /\ Same(w)
  /\ Move(w, "linked")
  /\ UNCHANGED <<content, paths, durable, temporaries, job, reading>>

\* Any step raises, or the content under the name is another.
Fail(w) ==
  /\ stage[w] \in {"writing", "written", "synced"}
  /\ Move(w, "failed")
  /\ UNCHANGED <<content, paths, durable, temporaries, job, reading>>

\* The finally clause: unlink the temporary name, then return or raise.
UnlinkPath(w) ==                                          \* bug: unlinks the name itself
  /\ \/ stage[w] = "linked" /\ Move(w, "saved") /\ UNCHANGED job
     \/ stage[w] = "failed" /\ End(w, "idle")
  /\ paths' = [paths EXCEPT ![job[w].name] = None]
  /\ temporaries' = temporaries \ {job[w].file}
  /\ UNCHANGED <<content, durable, reading>>
Unlink(w) ==
  /\ \/ stage[w] = "linked" /\ Move(w, "saved") /\ UNCHANGED job
     \/ stage[w] = "failed" /\ End(w, "idle")
  /\ temporaries' = temporaries \ {job[w].file}
  /\ UNCHANGED <<content, paths, durable, reading>>

\* read_json and its like: open, then read all of it.
Open(r, n) ==
  /\ reading[r] = None
  /\ reading' = [reading EXCEPT ![r] = paths[n]]
  /\ UNCHANGED <<content, paths, durable, temporaries, stage, job>>

Close(r) ==
  /\ reading[r] # None
  /\ reading' = [reading EXCEPT ![r] = None]
  /\ UNCHANGED <<content, paths, durable, temporaries, stage, job>>

-----------------------------------------------------------------------------
\* The process of a writer ends; its temporary file stays.
Kill(w) ==
  /\ stage[w] \notin Outside
  /\ End(w, "idle")
  /\ UNCHANGED <<content, paths, durable, temporaries, reading>>

\* The file system writes a directory entry back when it likes.
WriteBack(n) ==
  /\ durable' = [durable EXCEPT ![n] = paths[n]]
  /\ UNCHANGED <<content, paths, temporaries, stage, job, reading>>

\* Files that were not synced may lose what was written to them.
PowerFailure ==
  /\ \E lost \in SUBSET {i \in Inodes : ~content[i].synced} :
       content' = [i \in Inodes |->
                     IF i \in lost THEN [content[i] EXCEPT !.whole = FALSE] ELSE content[i]]
  /\ paths' = durable
  /\ temporaries' \in SUBSET temporaries
  /\ stage' = [w \in Writers |-> "idle"]
  /\ job' = [w \in Writers |-> NoJob]
  /\ reading' = [r \in Readers |-> None]
  /\ UNCHANGED durable

Work(w) ==
  \/ \E n \in Names, d \in Documents, i \in Inodes : Begin(w, n, d, i)
  \/ Write(w) \/ Sync(w) \/ Replace(w) \/ Link(w) \/ AlreadyThere(w) \/ Fail(w) \/ Unlink(w)
  \/ Kill(w)

Next ==
  \/ \E w \in Writers : Work(w)
  \/ \E r \in Readers : Close(r) \/ \E n \in Names : Open(r, n)
  \/ \E n \in Names : WriteBack(n)
  \/ PowerFailure

Spec == Init /\ [][Next]_vars

-----------------------------------------------------------------------------
\* A file that somebody reads is whole, also while another command replaces what is
\* under its name and after a power failure (session.py:66 "Replace only a completely
\* serialized file").
ReadWhole ==
  /\ \A n \in Names : Shown(n) # "torn"
  /\ \A r \in Readers : Found(reading[r]) # "torn"

\* plsr.py:79 "never replace different saved content": a run or report that is there
\* stays as it is, although writers of one name race (plsr.py:91-97, cli.py:33-35).
LinkedKept ==
  [][\A n \in Linked : Shown(n) # None /\ Shown(n)' # None => Shown(n)' = Shown(n)]_vars

\* A command that reports a run as saved finds its own content under the name, whether
\* it won the race or lost it to an equal one (plsr.py:95-101).
SavedIsThere ==
  \A w \in Writers :
    stage[w] = "saved" /\ job[w].name \in Linked => Shown(job[w].name) = job[w].doc

\* Readers see the registers of FileRegister.tla.
Abstract == INSTANCE FileRegister WITH
  shown <- [n \in Names |-> Shown(n)],
  lasting <- [n \in Names |-> Found(durable[n])]
ImplementsRegister == Abstract!Spec
=============================================================================
