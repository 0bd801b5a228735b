---------------------------- MODULE StateStores ----------------------------
(***************************************************************************)
(* FileStateStore and SqliteStateStore as two implementations of one       *)
(* StateStore: what each keeps, what each answers to get, list and find,   *)
(* the bootstrap import from one into the other, cutover and rollback.     *)
(* A call is one step: what calls under way at once do is Storage's.       *)
(*                                                                         *)
(* A record has the fields the filters ask for.  No two updates carry one  *)
(* updatedAt, but a record may be stored with an older one than it has.    *)
(***************************************************************************)
EXTENDS Naturals, Sequences, FiniteSets, SequencesExt

CONSTANTS
  Job, Worker, Session,
  JobOf,        \* the job of a worker or of a session
  Artifact,     \* artifacts that result files list
  Status, Token,\* statuses; runtime identities of a session (reattachToken)
  EventType, EntryKind,
  Absent,
  MaxTime,      \* bound: updates carry updatedAt 1..MaxTime
  MaxCalls,     \* bound: calls that store something
  MaxStarts,    \* bound: starts of the orchestrator
  Interrupt     \* the process may end during an import

Owner == Job \cup Worker
Id == Owner \cup Session
Collection == {Job, Worker, Session}
CollectionOf(i) == CHOOSE c \in Collection : i \in c

ASSUME StateStoresAssumption ==
  /\ Job \cap Worker = {} /\ Owner \cap Session = {} /\ IsFiniteSet(Id)
  /\ Job # {} /\ Worker # {} /\ Session # {} /\ Absent \notin Id
  /\ JobOf \in [Worker \cup Session -> Job] /\ Interrupt \in BOOLEAN
  /\ Absent \notin [id: Id, job: Job, status: Status, token: Token \cup {Absent}, at: 1..MaxTime]
  /\ MaxTime \in Nat /\ MaxCalls \in Nat /\ MaxStarts \in Nat

VARIABLES
  backend,      \* the store in use: "file" or "sqlite"
  times,        \* the updatedAt values given out
  results,      \* the artifacts in the result file of a job or a worker
  dir, items, fileLog, fileTranscript, fileArts,  \* FileStateStore
  rows, sqlLog, sqlTranscript, sqlArts,           \* SqliteStateStore
  importing,    \* what an import has still to copy, in its order
  calls, starts

files == <<dir, items, fileLog, fileTranscript, fileArts>>
tables == <<rows, sqlLog, sqlTranscript, sqlArts>>
storesVars == <<backend, times, results, files, tables, importing, calls, starts>>

-----------------------------------------------------------------------------
(* Order and filters *)

\* Array.filter: the elements of s that are in T, in the order of s.
Picked(s, T) ==
  LET f[k \in 0..Len(s)] == IF k = 0 THEN <<>>
                            ELSE IF s[k] \in T THEN Append(f[k - 1], s[k]) ELSE f[k - 1]
  IN f[Len(s)]

\* Array.sort and order by: S, the smallest key first.
Sorted(S, key) ==
  [k \in 1..Cardinality(S) |-> CHOOSE r \in S : Cardinality({q \in S : key[q] < key[r]}) = k - 1]
Latest(S) == Sorted(S, [r \in S |-> MaxTime - r.at])

JobOfId(i) == IF i \in Job THEN i ELSE JobOf[i]
NewRecord(i, status, token, at) ==
  [id |-> i, job |-> JobOfId(i), status |-> status, token |-> token, at |-> at]

\* A filter field that is Absent does not restrict.
Passes(want, is) == want = Absent \/ want = is
Matching(S, f) == {r \in S : Passes(f.job, r.job) /\ Passes(f.status, r.status)}

Slice(s, offset, limit) == SubSeq(s, offset + 1, IF offset + limit < Len(s) THEN offset + limit ELSE Len(s))

-----------------------------------------------------------------------------
(* FileStateStore *)

\* buildEntityCache: the items of a collection, the latest update first.
EntityCache(S) == Latest(S)

\* upsertEntityCache
Upserted(s, r) == EntityCache({q \in ToSet(s) : q.id # r.id} \cup {r})

\* readJsonDirectory: the records a directory has a file for.
JsonDirectory(c) == {dir[i] : i \in {j \in c : dir[j] # Absent}}

FileGet(i) ==
  LET c == items[CollectionOf(i)]
  IN IF \E r \in ToSet(c) : r.id = i THEN CHOOSE r \in ToSet(c) : r.id = i ELSE Absent

\* Mutant: the list is cut before it is filtered.
FileListCut(c, f, limit) == Picked(Slice(items[c], 0, limit), Matching(ToSet(items[c]), f))
\* listJobs, listWorkers, listSessions
FileList(c, f, limit) == Slice(Picked(items[c], Matching(ToSet(items[c]), f)), 0, limit)

\* hasSessionRuntimeLookupValue: a lookup that names nothing finds nothing.
Asks(lookup) == lookup.id # Absent \/ lookup.token # Absent
MatchingLookup(S, lookup) == {r \in S : Passes(lookup.id, r.id) /\ Passes(lookup.token, r.token)}

\* findSessionByRuntimeIdentity: the first item that matches.
FileFindSession(lookup) ==
  LET found == Picked(items[Session], MatchingLookup(ToSet(items[Session]), lookup))
  IN IF ~Asks(lookup) \/ found = <<>> THEN Absent ELSE Head(found)

FileEvents(types, offset, limit) ==
  Slice(Picked(fileLog, [type: types]), offset, limit)

EntriesAfter(S, after, kinds) == {e \in S : e.sequence > after /\ e.kind \in kinds}
FileEntries(s, after, kinds, limit) ==
  Slice(Picked(fileTranscript[s], EntriesAfter(ToSet(fileTranscript[s]), after, kinds)), 0, limit)

\* replaceArtifactReferencesForOwner: an artifact two owners list belongs to
\* the one refreshed last.
Replaced(arts, o) ==
  [a \in Artifact |-> IF a \in results[o] THEN o ELSE IF arts[a] = o THEN Absent ELSE arts[a]]

\* collectAllArtifactReferences: jobs, then workers, each in list order.
Rebuilt(list) ==
  [a \in Artifact |->
     LET found == Picked(list, {r \in ToSet(list) : a \in results[r.id]})
     IN IF found = <<>> THEN Absent ELSE Last(found).id]

FilePut(r) ==
  /\ dir' = [dir EXCEPT ![r.id] = r]
  /\ items' = [items EXCEPT ![CollectionOf(r.id)] = Upserted(@, r)]
  /\ fileArts' = (IF r.id \in Owner THEN Replaced(fileArts, r.id) ELSE fileArts)
  /\ UNCHANGED <<fileLog, fileTranscript, tables>>

\* initialize: directories are read and every index is built again.
FileOpen ==
  /\ items' = [c \in Collection |-> EntityCache(JsonDirectory(c))]
  /\ fileArts' = Rebuilt(EntityCache(JsonDirectory(Job)) \o EntityCache(JsonDirectory(Worker)))
  /\ UNCHANGED <<dir, fileLog, fileTranscript>>

-----------------------------------------------------------------------------
(* SqliteStateStore *)

SqlGet(i) == rows[i]

Table(c) == {rows[i] : i \in {j \in c : rows[j] # Absent}}

\* #listJsonRows: where, order by updated_at desc, limit.
SqlList(c, f, limit) ==
  Slice(Latest(Matching(Table(c), f)), 0, limit)

SqlFindSession(lookup) ==
  LET found == Latest(MatchingLookup(Table(Session), lookup))
  IN IF ~Asks(lookup) \/ found = <<>> THEN Absent ELSE Head(found)

SqlEvents(types, offset, limit) ==
  Slice(Picked(sqlLog, [type: types]), offset, limit)

\* The transcript table, by entry_sequence.
InSequence(S) == Sorted(S, [e \in S |-> e.sequence])
SqlEntries(s, after, kinds, limit) ==
  Slice(InSequence(EntriesAfter(sqlTranscript[s], after, kinds)), 0, limit)

SqlReplaced(arts, o) ==
  LET kept == [a \in Artifact |-> IF arts[a] = o THEN Absent ELSE arts[a]]
  IN [a \in Artifact |-> IF a \in results[o] THEN o ELSE kept[a]]

SqlPut(r) ==
  /\ rows' = [rows EXCEPT ![r.id] = r]
  /\ sqlArts' = (IF r.id \in Owner THEN SqlReplaced(sqlArts, r.id) ELSE sqlArts)
  /\ UNCHANGED <<sqlLog, sqlTranscript, files>>

SqlRebuilt ==
  Rebuilt(Latest(Table(Job)) \o Latest(Table(Worker)))

\* isEmpty: transcripts and artifacts do not count.
IsEmpty == (\A i \in Id : rows[i] = Absent) /\ sqlLog = <<>>

-----------------------------------------------------------------------------
(* The store in use *)

Fetch(i) == IF backend = "file" THEN FileGet(i) ELSE SqlGet(i)
List(c, f, limit) == IF backend = "file" THEN FileList(c, f, limit) ELSE SqlList(c, f, limit)
FindSession(l) == IF backend = "file" THEN FileFindSession(l) ELSE SqlFindSession(l)
ListEvents(types, offset, limit) ==
  IF backend = "file" THEN FileEvents(types, offset, limit) ELSE SqlEvents(types, offset, limit)
ListEntries(s, after, kinds, limit) ==
  IF backend = "file" THEN FileEntries(s, after, kinds, limit)
                      ELSE SqlEntries(s, after, kinds, limit)
\* findArtifactReference: what is not in the index is looked for again.
FindArtifact(a) ==
  LET arts == IF backend = "file" THEN fileArts ELSE sqlArts
  IN IF arts[a] # Absent THEN arts[a]
     ELSE IF backend = "file" THEN Rebuilt(items[Job] \o items[Worker])[a] ELSE SqlRebuilt[a]

StoresInit ==
  /\ backend = "file" /\ times = {} /\ results = [o \in Owner |-> {}]
  /\ dir = [i \in Id |-> Absent] /\ items = [c \in Collection |-> <<>>]
  /\ fileLog = <<>> /\ fileTranscript = [s \in Session |-> <<>>]
  /\ fileArts = [a \in Artifact |-> Absent]
  /\ rows = [i \in Id |-> Absent] /\ sqlLog = <<>>
  /\ sqlTranscript = [s \in Session |-> {}] /\ sqlArts = [a \in Artifact |-> Absent]
  /\ importing = <<>> /\ calls = 0 /\ starts = 0

Open == importing = <<>>
\* A call that stores something, while the store is open.
Calling == Open /\ calls < MaxCalls /\ calls' = calls + 1

\* create and update of a record; t is when its caller made it.
Store(i, status, token, t) ==
  /\ Calling /\ t \notin times /\ times' = times \cup {t}
  /\ IF backend = "file" THEN FilePut(NewRecord(i, status, token, t))
                         ELSE SqlPut(NewRecord(i, status, token, t))
  /\ UNCHANGED <<backend, results, importing, starts>>

Put(i, status, t) ==
  /\ i \in Session => Fetch(i) = Absent
  /\ Store(i, status, Absent, t)

\* updateSessionRuntime: a session that is not there is an error.
UpdateSessionRuntime(s, token, t) ==
  Fetch(s) # Absent /\ Store(s, Fetch(s).status, token, t)

\* A worker or the aggregator writes a result file, once.
WriteResult(o, S) ==
  /\ Calling /\ results[o] = {} /\ results' = [results EXCEPT ![o] = S]
  /\ UNCHANGED <<backend, times, files, tables, importing, starts>>

\* appendSessionTranscriptEntry, to a session that exists.
AppendEntry(s, kind) ==
  /\ Calling /\ Fetch(s) # Absent
  /\ IF backend = "file"
     THEN /\ fileTranscript' = [fileTranscript EXCEPT ![s] =
                Append(@, [sequence |-> IF @ = <<>> THEN 1 ELSE Last(@).sequence + 1,
                           kind |-> kind])]
          /\ UNCHANGED <<dir, items, fileLog, fileArts, tables>>
     ELSE /\ sqlTranscript' = [sqlTranscript EXCEPT ![s] =
                @ \cup {[sequence |-> 1 + Cardinality(@), kind |-> kind]}]
          /\ UNCHANGED <<rows, sqlLog, sqlArts, files>>
  /\ UNCHANGED <<backend, times, results, importing, starts>>

AppendEvent(type) ==
  /\ Calling
  /\ IF backend = "file"
     THEN /\ fileLog' = Append(fileLog, [type |-> type])
          /\ UNCHANGED <<dir, items, fileTranscript, fileArts, tables>>
     ELSE /\ sqlLog' = Append(sqlLog, [type |-> type])
          /\ UNCHANGED <<rows, sqlTranscript, sqlArts, files>>
  /\ UNCHANGED <<backend, times, results, importing, starts>>

\* rebuildArtifactIndex, when an artifact asked for is not in the index.
Rebuild(a) ==
  /\ Open
  /\ IF backend = "file"
     THEN /\ fileArts[a] = Absent /\ fileArts' = Rebuilt(items[Job] \o items[Worker])
          /\ UNCHANGED <<dir, items, fileLog, fileTranscript, tables>>
     ELSE /\ sqlArts[a] = Absent /\ sqlArts' = SqlRebuilt
          /\ UNCHANGED <<rows, sqlLog, sqlTranscript, files>>
  /\ UNCHANGED <<backend, times, results, importing, calls, starts>>

-----------------------------------------------------------------------------
(* Starting on a backend *)

\* Mutant: sessions are left out of the import.
ImportListNoSessions ==
  LET records == items[Job] \o items[Worker]
  IN [k \in DOMAIN records |-> [what |-> "record", it |-> records[k]]]
     \o [k \in DOMAIN fileLog |-> [what |-> "event", it |-> fileLog[k]]]
\* #importFromFileState: jobs, workers, sessions, each session's transcript,
\* then the events.
ImportList ==
  LET records  == items[Job] \o items[Worker] \o items[Session]
      sessions == items[Session]
  IN [k \in DOMAIN records |-> [what |-> "record", it |-> records[k]]]
     \o [k \in DOMAIN sessions |-> [what |-> "entries", it |-> sessions[k].id]]
     \o [k \in DOMAIN fileLog |-> [what |-> "event", it |-> fileLog[k]]]

\* createStateStore and initialize.  A start during an import is a restart
\* after the process ended there.
Start(b) ==
  /\ starts < MaxStarts /\ starts' = starts + 1
  /\ Open \/ Interrupt
  /\ backend' = b
  /\ FileOpen
  /\ importing' = (IF b = "sqlite" /\ IsEmpty THEN ImportList ELSE <<>>)
  /\ UNCHANGED <<times, results, calls, tables>>

Import ==
  /\ importing # <<>> /\ importing' = Tail(importing)
  /\ LET next == Head(importing) IN
     \/ next.what = "record" /\ SqlPut(next.it)
     \/ /\ next.what = "entries"
        /\ sqlTranscript' = [sqlTranscript EXCEPT ![next.it] = ToSet(fileTranscript[next.it])]
        /\ UNCHANGED <<rows, sqlLog, sqlArts, files>>
     \/ /\ next.what = "event" /\ sqlLog' = Append(sqlLog, next.it)
        /\ UNCHANGED <<rows, sqlTranscript, sqlArts, files>>
  /\ UNCHANGED <<backend, times, results, calls, starts>>

StoresNext ==
  \/ \E i \in Id, status \in Status, t \in 1..MaxTime : Put(i, status, t)
  \/ \E s \in Session, token \in Token, t \in 1..MaxTime : UpdateSessionRuntime(s, token, t)
  \/ \E o \in Owner : WriteResult(o, Artifact)
  \/ \E s \in Session, kind \in EntryKind : AppendEntry(s, kind)
  \/ \E type \in EventType : AppendEvent(type)
  \/ \E a \in Artifact : Rebuild(a)
  \/ \E b \in {"file", "sqlite"} : Start(b)
  \/ Import

StoresSpec == StoresInit /\ [][StoresNext]_storesVars

-----------------------------------------------------------------------------
(* Properties *)

\* The records, entries and events the backends can hold.
StoresTypeOK ==
  LET Rec(i) == [id: {i}, job: Job, status: Status, token: Token \cup {Absent}, at: times]
      Entries == [sequence: 1..MaxCalls, kind: EntryKind]
  IN /\ backend \in {"file", "sqlite"} /\ times \subseteq 1..MaxTime
     /\ results \in [Owner -> SUBSET Artifact] /\ calls \in 0..MaxCalls /\ starts \in 0..MaxStarts
     /\ \A i \in Id : dir[i] \in Rec(i) \cup {Absent} /\ rows[i] \in Rec(i) \cup {Absent}
     /\ \A c \in Collection : ToSet(items[c]) = JsonDirectory(c)
     /\ \A s \in Session : /\ ToSet(fileTranscript[s]) \subseteq Entries
                           /\ sqlTranscript[s] \subseteq Entries
     /\ fileArts \in [Artifact -> Owner \cup {Absent}] /\ sqlArts \in [Artifact -> Owner \cup {Absent}]
     /\ ToSet(fileLog) \cup ToSet(sqlLog) \subseteq [type: EventType]

Filter == [job: Job \cup {Absent}, status: Status \cup {Absent}]
Limits == 0..(MaxTime + 1)
\* s is the most recently updated of the records S, up to a limit.
IsLatestOf(s, S, limit) ==
  /\ ToSet(s) \subseteq S
  /\ Len(s) = IF Cardinality(S) < limit THEN Cardinality(S) ELSE limit
  /\ \A k, l \in DOMAIN s : k < l => s[k].at > s[l].at
  /\ \A r \in S \ ToSet(s), k \in DOMAIN s : s[k].at > r.at
\* s is what is left of log after the entries that do not count, without the
\* first offset and cut at limit.
IsPartOf(s, log, Counts(_), offset, limit) ==
  LET at == {k \in DOMAIN log : Counts(log[k])}
      nth(k) == Cardinality({l \in at : l <= k})
      in == {k \in at : nth(k) > offset /\ nth(k) <= offset + limit}
  IN Len(s) = Cardinality(in) /\ \A k \in in : s[nth(k) - offset] = log[k]

StoredIn(c) == {Fetch(i) : i \in {j \in c : Fetch(j) # Absent}}

\* Whichever backend is in use, a list is the latest records that match, a
\* lookup finds the session updated last, a page of events or of a transcript
\* is that page of what was appended, and an artifact is found exactly when a
\* stored job or worker lists it (the parity stateStore.contract.test.ts asks
\* for of a few fixed records).
Answers == Open =>
  /\ \A c \in Collection, f \in Filter, limit \in Limits :
       IsLatestOf(List(c, f, limit), {r \in StoredIn(c) : Passes(f.job, r.job) /\ Passes(f.status, r.status)}, limit)
  /\ \A id \in Session \cup {Absent}, token \in Token \cup {Absent} :
       LET S == {r \in StoredIn(Session) : /\ <<id, token>> # <<Absent, Absent>>
                                         /\ Passes(id, r.id) /\ Passes(token, r.token)}
           r == FindSession([id |-> id, token |-> token])
       IN IF S = {} THEN r = Absent ELSE IsLatestOf(<<r>>, S, 1)
  /\ \A types \in SUBSET EventType, offset, limit \in 0..MaxCalls :
       IsPartOf(ListEvents(types, offset, limit),
                IF backend = "file" THEN fileLog ELSE sqlLog,
                LAMBDA e : e.type \in types, offset, limit)
  /\ \A s \in Session, after \in 0..MaxCalls, kinds \in SUBSET EntryKind, limit \in 0..MaxCalls :
       IsPartOf(ListEntries(s, after, kinds, limit), ListEntries(s, 0, EntryKind, MaxCalls),
                LAMBDA e : e.sequence > after /\ e.kind \in kinds, 0, limit)
  /\ \A a \in Artifact :
       LET who == {o \in Owner : Fetch(o) # Absent /\ a \in results[o]}
       IN FindArtifact(a) \in who \/ (who = {} /\ FindArtifact(a) = Absent)

Held(get(_), entries(_), log) ==
  [records |-> [i \in Id |-> get(i)], transcripts |-> [s \in Session |-> entries(s)],
   events |-> log]
NothingHeld == Held(LAMBDA i : Absent, LAMBDA s : <<>>, <<>>)
FileHeld == Held(FileGet, LAMBDA s : fileTranscript[s], fileLog)
SqlHeld  == Held(SqlGet, LAMBDA s : SqlEntries(s, 0, EntryKind, MaxCalls), sqlLog)
\* An import is over when the last of it is copied.
HeldInUse == IF backend = "file" \/ ~Open THEN FileHeld ELSE SqlHeld
HeldAside == IF ~Open THEN NothingHeld ELSE IF backend = "file" THEN SqlHeld ELSE FileHeld

\* Cutover, rollback and restarts neither lose nor mix up what is stored:
\* the two backends implement one store with a fall-back (initialize,
\* #importFromFileState, createStateStore).
SC == INSTANCE StoreContract WITH
        Record <- [id: Id, job: Job, status: Status, token: Token \cup {Absent}, at: 1..MaxTime],
        None   <- Absent,
        Entry  <- [sequence: 1..MaxCalls, kind: EntryKind],
        Event  <- [type: EventType],
        used  <- HeldInUse,
        aside <- HeldAside
Contract == SC!Spec
=============================================================================
