------------------------------ MODULE Storage ------------------------------
(***************************************************************************)
(* The state stores under concurrent calls and restarts: a record with its *)
(* cached copy and the artifact it has, the event log, and the transcript  *)
(* of a session.  FileStateStore awaits between a file and its cache; a    *)
(* call of SqliteStateStore is a statement, but for artifacts.  The calls  *)
(* that use a store are in the other modules, each read or write one step. *)
(***************************************************************************)
EXTENDS Naturals, Sequences, FiniteSets

CONSTANTS
  Write,        \* updates of one record (createWorker, updateWorker, ...)
  Entry,        \* appendEvent, appendSessionTranscriptEntry
  Reader,       \* listEvents, listSessionTranscript, findArtifactReference
  Parts,        \* what is stored, and the store: "file" or "sqlite"
  None,
  MaxRestarts   \* bound

ASSUME StorageAssumption ==
  /\ None \notin Write /\ MaxRestarts \in Nat /\ IsFiniteSet(Write)
  /\ Write \cap Entry = {} /\ (Write \cup Entry) \cap Reader = {}
  /\ Parts \subseteq {"worker", "session", "events", "transcript"} \X {"file", "sqlite"}

VARIABLES
  part,
  disk, cached,   \* the last write renamed into place; the last in the cache
  result, index,  \* the worker's result file has an artifact; the index has it
  file,           \* the lines of the log
  logCache,       \* eventLogCache, or the transcript's: file size and entries
  call,           \* each call: where it is, and what it holds
  restarts

vars == <<part, disk, cached, result, index, file, logCache, call, restarts>>
record == <<disk, cached, result, index>>
logs == <<file, logCache>>

Call == Write \cup Entry \cup Reader
NotBegun == [pc |-> "none", before |-> {}, from |-> 0, size |-> 0, items |-> <<>>,
             alone |-> FALSE, found |-> FALSE]
NoCache  == [valid |-> FALSE, size |-> 0, items |-> <<>>]

Finished(S) == {x \in S : call[x].pc = "done"}
At(x, pc)   == call[x].pc = pc
\* Another call begins: those under way are alone no longer.
Crowded == [x \in Call |-> IF call[x].pc = "done" THEN call[x]
                           ELSE [call[x] EXCEPT !.alone = FALSE]]
Goto(x, pc) == call' = [call EXCEPT ![x].pc = pc]
File == part[2] = "file"
EventFile == part = <<"events", "file">>
Log  == part[1] \in {"events", "transcript"}
Ids(s) == [i \in DOMAIN s |-> s[i].id]

Init ==
  /\ part \in Parts /\ disk = None /\ cached = None /\ result = FALSE /\ index = FALSE
  /\ file = <<>> /\ logCache = NoCache /\ restarts = 0
  /\ call = [x \in Call |-> NotBegun]

-----------------------------------------------------------------------------
(* Records *)

\* safeWriteFile fills a temporary file of its own,
BeginWrite(w) ==
  /\ ~Log /\ File /\ At(w, "none")
  /\ call' = [Crowded EXCEPT ![w] = [@ EXCEPT !.pc = "written", !.before = Finished(Write)]]
  /\ UNCHANGED <<part, record, logs, restarts>>

\* Mutant: the temporary file takes the place of the record after the call.
RenameLate(w) ==
  /\ (At(w, "written") \/ At(w, "done")) /\ disk' = w
  /\ IF At(w, "written") THEN Goto(w, "renamed") ELSE UNCHANGED call
  /\ UNCHANGED <<part, cached, result, index, logs, restarts>>
\* which takes the place of the record;
Rename(w) ==
  /\ At(w, "written") /\ disk' = w /\ Goto(w, "renamed")
  /\ UNCHANGED <<part, cached, result, index, logs, restarts>>

\* A worker's or job's artifacts are indexed with its record, a session has none.
Indexed == IF part[1] = "worker" THEN "collect" ELSE "done"

\* later the cache is changed, and an index file that nothing reads.
Upsert(w) ==
  /\ At(w, "renamed") /\ cached' = w /\ Goto(w, Indexed)
  /\ UNCHANGED <<part, disk, result, index, logs, restarts>>

SqliteUpsert(w) ==
  /\ ~Log /\ ~File /\ At(w, "none")
  /\ disk' = w /\ cached' = w
  /\ call' = [Crowded EXCEPT ![w] = [@ EXCEPT !.pc = Indexed, !.before = Finished(Write)]]
  /\ UNCHANGED <<part, result, index, logs, restarts>>

\* The result file of the worker is written, by whoever runs it.
PublishResult ==
  /\ part[1] = "worker" /\ ~result /\ result' = TRUE
  /\ UNCHANGED <<part, disk, cached, index, logs, call, restarts>>

\* collectWorkerArtifactReferences, of a worker that the store knows;
Collect(x) ==
  /\ At(x, "collect")
  /\ call' = [call EXCEPT ![x] = [@ EXCEPT !.pc = "replace", !.found = result /\ cached # None]]
  /\ UNCHANGED <<part, record, logs, restarts>>

\* replaceArtifactReferencesForOwner; a find looks once more.
Replace(x) ==
  /\ At(x, "replace") /\ index' = call[x].found
  /\ Goto(x, IF x \in Reader THEN "recheck" ELSE "done")
  /\ UNCHANGED <<part, disk, cached, result, logs, restarts>>

\* Mutant: what the index does not have is not looked for.
MissingFinal == "done"
\* findArtifactReference rebuilds the index when it has not the artifact.
Missing == "collect"

Find(r) ==
  /\ part[1] = "worker" /\ At(r, "none")
  /\ call' = [Crowded EXCEPT ![r] =
       [@ EXCEPT !.pc = IF index THEN "done" ELSE Missing, !.found = index,
                 !.before = IF result THEN Finished(Write) ELSE {},
                 !.alone = \A x \in Call : call[x].pc \in {"none", "done", "lost"}]]
  /\ UNCHANGED <<part, record, logs, restarts>>

Recheck(r) ==
  /\ At(r, "recheck")
  /\ call' = [call EXCEPT ![r] = [@ EXCEPT !.pc = "done", !.found = index]]
  /\ UNCHANGED <<part, record, logs, restarts>>

-----------------------------------------------------------------------------
(* Logs: getCachedEvents, getCachedSessionTranscript *)

\* Mutant: a cache that is there is believed.
FreshAlways(x) == logCache.valid
\* A cache of the size (and time of change) that stat found is believed.
Fresh(x) == logCache.valid /\ logCache.size = call[x].size

\* What stat found may be old by the time the call goes on:
Stat(x) ==
  /\ At(x, "stat")
  /\ call' = [call EXCEPT ![x] = [@ EXCEPT !.pc = "found", !.size = Len(file)]]
  /\ UNCHANGED <<part, record, logs, restarts>>

\* a missing file leaves an empty cache, and a believed cache is the answer.
Found(x, next) ==
  /\ At(x, "found")
  /\ IF call[x].size = 0
     THEN logCache' = [valid |-> TRUE, size |-> 0, items |-> <<>>] /\ Goto(x, next)
     ELSE /\ UNCHANGED logCache
          /\ IF Fresh(x)
             THEN call' = [call EXCEPT ![x] = [@ EXCEPT !.pc = next, !.items = logCache.items]]
             ELSE Goto(x, "read")
  /\ UNCHANGED <<part, record, file, restarts>>

ReadLines(x) ==
  /\ At(x, "read") /\ call' = [call EXCEPT ![x] = [@ EXCEPT !.items = file, !.pc = "keep"]]
  /\ UNCHANGED <<part, record, logs, restarts>>

Keep(x, next) ==
  /\ At(x, "keep") /\ Goto(x, next)
  /\ logCache' = [valid |-> TRUE, size |-> call[x].size, items |-> call[x].items]
  /\ UNCHANGED <<part, record, file, restarts>>

BeginList(r) ==
  /\ Log /\ File /\ At(r, "none")
  /\ call' = [call EXCEPT ![r] = [@ EXCEPT !.pc = "stat", !.before = Finished(Entry),
                                           !.from = Len(file)]]
  /\ UNCHANGED <<part, record, logs, restarts>>

Get(x, next) == Stat(x) \/ Found(x, next) \/ ReadLines(x) \/ Keep(x, next)

\* select; the entries as they are.
SqliteList(r) ==
  /\ Log /\ ~File /\ At(r, "none")
  /\ call' = [call EXCEPT ![r] = [@ EXCEPT !.pc = "done", !.before = Finished(Entry),
                                           !.from = Len(file), !.items = file]]
  /\ UNCHANGED <<part, record, logs, restarts>>

-----------------------------------------------------------------------------
(* Logs: appending *)

\* enqueueSessionTranscriptWrite: one append to a transcript at a time.
Chained == \A e \in Entry : call[e].pc \in {"none", "done", "lost"}

BeginAppend(e) ==
  /\ part = <<"transcript", "file">> /\ At(e, "none") /\ Chained
  /\ Goto(e, "stat")
  /\ UNCHANGED <<part, record, logs, restarts>>

NextNumber(items) == IF items = <<>> THEN 1 ELSE items[Len(items)].number + 1

AppendLine(e) ==
  /\ \/ part[1] = "transcript" /\ At(e, "write")
     \/ EventFile /\ At(e, "none")
  /\ file' = Append(file, [id |-> e, number |-> NextNumber(call[e].items)])
  /\ Goto(e, IF part[1] = "events" /\ ~logCache.valid THEN "done" ELSE "sized")
  /\ UNCHANGED <<part, record, logCache, restarts>>

\* The size after the append, whoever else has appended by now,
Sized(e) ==
  /\ At(e, "sized") /\ call' = [call EXCEPT ![e] = [@ EXCEPT !.size = Len(file), !.pc = "cache"]]
  /\ UNCHANGED <<part, record, logs, restarts>>

\* goes into the cache with the entry: behind those read before the append
\* (transcript), or behind those that the cache has now (events).
CacheLine(e) ==
  /\ At(e, "cache") /\ Goto(e, "done")
  /\ LET line == CHOOSE l \in {file[i] : i \in DOMAIN file} : l.id = e
         items == IF part[1] = "events" THEN logCache.items ELSE call[e].items IN
     logCache' = [valid |-> TRUE, size |-> call[e].size, items |-> Append(items, line)]
  /\ UNCHANGED <<part, record, file, restarts>>

\* insert, numbered max(entry_sequence) + 1 in a transcript.
SqliteAppend(e) ==
  /\ Log /\ ~File /\ At(e, "none")
  /\ file' = Append(file, [id |-> e, number |-> NextNumber(file)])
  /\ Goto(e, "done")
  /\ UNCHANGED <<part, record, logCache, restarts>>

-----------------------------------------------------------------------------
\* The process ends; initialize() and the first calls read the files again.
\* Temporary files are left and never read.
Restart ==
  /\ restarts < MaxRestarts /\ restarts' = restarts + 1
  /\ cached' = disk /\ logCache' = NoCache /\ index' = IF File THEN result /\ disk # None ELSE index
  /\ call' = [x \in Call |-> IF call[x].pc \in {"none", "done"} THEN call[x]
                             ELSE [call[x] EXCEPT !.pc = "lost"]]
  /\ UNCHANGED <<part, disk, result, file>>

Next == \/ Restart
        \/ \E w \in Write : BeginWrite(w) \/ Rename(w) \/ Upsert(w) \/ SqliteUpsert(w)
        \/ PublishResult \/ \E x \in Write \cup Reader : Collect(x) \/ Replace(x)
        \/ \E r \in Reader : BeginList(r) \/ Get(r, "done") \/ SqliteList(r) \/ Find(r) \/ Recheck(r)
        \/ \E e \in Entry : \/ BeginAppend(e) \/ Get(e, "write") \/ AppendLine(e)
                            \/ Sized(e) \/ CacheLine(e) \/ SqliteAppend(e)

Spec == Init /\ [][Next]_vars
-----------------------------------------------------------------------------
(* Properties *)

Line == [id: Entry, number: Nat]
Place == {"none", "written", "renamed", "collect", "replace", "recheck", "stat", "found",
          "read", "keep", "write", "sized", "cache", "done", "lost"}
CallRec == [pc: Place, before: SUBSET (Write \cup Entry), from: Nat, size: Nat,
            items: Seq(Line), alone: BOOLEAN, found: BOOLEAN]

\* The store's contents, and what the calls under way hold of them.
TypeOK ==
  /\ part \in Parts /\ {disk, cached} \subseteq Write \cup {None}
  /\ {result, index} \subseteq BOOLEAN /\ file \in Seq(Line)
  /\ logCache \in [valid: BOOLEAN, size: Nat, items: Seq(Line)]
  /\ call \in [Call -> CallRec] /\ restarts \in 0..MaxRestarts

\* A write that had returned before another began, and that other returned too,
\* is never seen again: not by readers (the cache), not after a restart (the
\* file), however the renames and the cache updates of others fall between.
NoLostUpdate ==
  \A w \in Finished(Write) : {disk, cached} \cap (call[w].before \cup {None}) = {}

\* Once a worker's result and a record of it are stored, its artifact is found by
\* a find that overlaps no other call, whatever stale indexes other finds left.
ArtifactFound ==
  \A r \in Finished(Reader) : part[1] = "worker" /\ call[r].alone /\ call[r].before # {} => call[r].found

\* The entries of a transcript are numbered 1, 2, ... in the order they have in
\* the file, across concurrent appends, lists that refresh the cache, restarts.
Numbered == part[1] = "transcript" => \A i \in DOMAIN file : file[i].number = i

\* What a list is in AppendLog; lists of the file store's event log are left out.
Listed == Log /\ ~EventFile
Shown(r) ==
  IF Listed
  THEN [state |-> CASE At(r, "none") -> "none" [] At(r, "done") -> "shown"
                    [] At(r, "lost") -> "aborted" [] OTHER -> "begun",
        from |-> call[r].from,
        shows |-> IF At(r, "done") THEN Ids(call[r].items) ELSE <<>>]
  ELSE [state |-> "none", from |-> 0, shows |-> <<>>]

ALog == INSTANCE AppendLog WITH log <- Ids(file), list <- [r \in Reader |-> Shown(r)]

\* A transcript, and either log of the sqlite store, is a log: entries are
\* appended once, and a list shows all of a prefix of them.  The event log of
\* the file store is one in its file only: see EventsListed.
IsALog == ALog!Spec

\* A list shows every entry whose append had returned when the list began.
Complete == \A r \in Finished(Reader) :
  call[r].before \subseteq {call[r].items[i].id : i \in DOMAIN call[r].items}

\* Not true of the file store: that holds of the event log as well.
EventsListed == part[1] = "events" => Complete
=============================================================================
