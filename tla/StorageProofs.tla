---------------------------- MODULE StorageProofs ----------------------------
(***************************************************************************)
(* What holds of Storage for any number of writes, appends, readers and    *)
(* restarts: types, that no write which another one followed is seen       *)
(* again, that a stored artifact is found, and the refinement of AppendLog *)
(* Then of StateStores, for any jobs, workers, sessions, filters and       *)
(* limits: that both backends answer from what is stored, and that they    *)
(* implement StoreContract.                                                *)
(***************************************************************************)
EXTENDS Storage, StateStores, SequenceTheorems, FiniteSetTheorems, WellFoundedInduction, TLAPS

(* Types *)

LEMMA TypeInit == Init => TypeOK
<1> SUFFICES ASSUME Init PROVE TypeOK OBVIOUS
<1>1. NotBegun \in CallRec BY DEF NotBegun, CallRec, Place
<1>2. NoCache \in [valid: BOOLEAN, size: Nat, items: Seq(Line)] BY DEF NoCache
<1>3. 0 \in 0..MaxRestarts BY StorageAssumption DEF StorageAssumption
<1>4. file \in Seq(Line) BY DEF Init
<1>5. call \in [Call -> CallRec] BY <1>1 DEF Init
<1>6. QED BY <1>2, <1>3, <1>4, <1>5 DEF Init, TypeOK

\* What a step changes of a call.
LEMMA CallFact ==
  ASSUME NEW c \in CallRec, NEW pc \in Place
  PROVE  /\ [c EXCEPT !.pc = pc] \in CallRec
         /\ [c EXCEPT !.alone = FALSE] \in CallRec
         /\ \A f \in BOOLEAN : [c EXCEPT !.pc = pc, !.found = f] \in CallRec
         /\ \A n \in Nat : [c EXCEPT !.pc = pc, !.size = n] \in CallRec
                           /\ [c EXCEPT !.size = n, !.pc = pc] \in CallRec
         /\ \A s \in Seq(Line) : [c EXCEPT !.pc = pc, !.items = s] \in CallRec
                                 /\ [c EXCEPT !.items = s, !.pc = pc] \in CallRec
         /\ \A b \in SUBSET (Write \cup Entry) :
              /\ [c EXCEPT !.pc = pc, !.before = b] \in CallRec
              /\ \A n \in Nat : [c EXCEPT !.pc = pc, !.before = b, !.from = n] \in CallRec
              /\ \A n \in Nat, s \in Seq(Line) :
                   [c EXCEPT !.pc = pc, !.before = b, !.from = n, !.items = s] \in CallRec
BY DEF CallRec

\* A call that begins changes of the others no more than whether they are alone.
LEMMA CrowdedFact ==
  ASSUME TypeOK
  PROVE  /\ Crowded \in [Call -> CallRec]
         /\ \A x \in Call : /\ Crowded[x].pc = call[x].pc /\ Crowded[x].before = call[x].before
                            /\ Crowded[x].from = call[x].from /\ Crowded[x].items = call[x].items
                            /\ Crowded[x].size = call[x].size /\ Crowded[x].found = call[x].found
                            /\ Crowded[x].alone => call[x].pc = "done"
                            /\ call[x].pc = "done" => Crowded[x] = call[x]
<1>1. ASSUME NEW x \in Call PROVE Crowded[x] \in CallRec
  <2>1. call[x] \in CallRec /\ "none" \in Place BY DEF TypeOK, Place
  <2>2. [call[x] EXCEPT !.alone = FALSE] \in CallRec BY <2>1, CallFact
  <2>3. QED BY <2>1, <2>2 DEF Crowded
<1>2. QED BY <1>1 DEF TypeOK, Crowded, CallRec

\* A step that only moves a call on keeps the types.
LEMMA GotoFact ==
  ASSUME TypeOK, NEW x \in Call, NEW pc \in Place, Goto(x, pc)
  PROVE  /\ call' \in [Call -> CallRec]
         /\ \A y \in Call \ {x} : call'[y] = call[y]
         /\ call'[x] = [call[x] EXCEPT !.pc = pc]
         /\ call'[x].pc = pc /\ call'[x].before = call[x].before
         /\ call'[x].from = call[x].from /\ call'[x].items = call[x].items
         /\ call'[x].size = call[x].size /\ call'[x].found = call[x].found
         /\ call'[x].alone = call[x].alone
<1>1. call[x] \in CallRec /\ [call[x] EXCEPT !.pc = pc] \in CallRec BY CallFact DEF TypeOK
<1>2. call' = [call EXCEPT ![x] = [call[x] EXCEPT !.pc = pc]] BY DEF Goto
<1>3. call'[x] = [call[x] EXCEPT !.pc = pc] /\ \A y \in Call \ {x} : call'[y] = call[y]
  BY <1>2 DEF TypeOK
<1>4. call' \in [Call -> CallRec] BY <1>1, <1>2 DEF TypeOK
<1>5. QED BY <1>1, <1>3, <1>4 DEF CallRec

LEMMA FinishedFact ==
  ASSUME TypeOK
  PROVE  Finished(Write) \in SUBSET (Write \cup Entry) /\ Finished(Entry) \in SUBSET (Write \cup Entry)
BY DEF Finished

LEMMA TypeRecords ==
  ASSUME TypeOK,
         \/ Restart \/ PublishResult
         \/ \E w \in Write : BeginWrite(w) \/ Rename(w) \/ Upsert(w) \/ SqliteUpsert(w)
         \/ \E x \in Write \cup Reader : Collect(x) \/ Replace(x)
         \/ \E r \in Reader : Find(r) \/ Recheck(r)
  PROVE  TypeOK'
<1> USE DEF record, logs, Place
<1>1. CASE Restart
  <2>1. call' \in [Call -> CallRec]
    <3>1. \A x \in Call : [call[x] EXCEPT !.pc = "lost"] \in CallRec BY CallFact DEF TypeOK
    <3>2. QED BY <1>1, <3>1 DEF Restart, TypeOK
  <2>2. index' \in BOOLEAN BY <1>1 DEF Restart, TypeOK
  <2>3. restarts' \in 0..MaxRestarts
    BY <1>1, StorageAssumption DEF Restart, TypeOK, StorageAssumption
  <2>4. NoCache \in [valid: BOOLEAN, size: Nat, items: Seq(Line)] BY DEF NoCache
  <2>5. QED BY <1>1, <2>1, <2>2, <2>3, <2>4 DEF Restart, TypeOK
<1>2. CASE PublishResult BY <1>2 DEF PublishResult, TypeOK
<1>3. ASSUME NEW w \in Write, BeginWrite(w) \/ Rename(w) \/ Upsert(w) \/ SqliteUpsert(w)
      PROVE  TypeOK'
  <2>0. w \in Call /\ Indexed \in {"collect", "done"} BY DEF Call, Indexed
  <2>9. \A pc \in Place : [Crowded[w] EXCEPT !.pc = pc, !.before = Finished(Write)] \in CallRec
    <3>1. PICK c \in CallRec : c = Crowded[w] BY <2>0, CrowdedFact
    <3>2. PICK b \in SUBSET (Write \cup Entry) : b = Finished(Write) BY FinishedFact
    <3>3. \A pc \in Place : [c EXCEPT !.pc = pc, !.before = b] \in CallRec BY DEF CallRec
    <3>4. QED BY <3>1, <3>2, <3>3
  <2>1. CASE BeginWrite(w)
    <3>1. call' \in [Call -> CallRec] BY <2>0, <2>1, <2>9, CrowdedFact DEF BeginWrite
    <3>2. QED BY <2>1, <3>1 DEF BeginWrite, TypeOK
  <2>2. CASE Rename(w)
    <3>1. Goto(w, "renamed") BY <2>2 DEF Rename
    <3>2. call' \in [Call -> CallRec] BY <2>0, <3>1, GotoFact
    <3>3. QED BY <2>2, <3>2 DEF Rename, TypeOK
  <2>3. CASE Upsert(w)
    <3>1. Goto(w, Indexed) BY <2>3 DEF Upsert
    <3>2. call' \in [Call -> CallRec] BY <2>0, <3>1, GotoFact
    <3>3. QED BY <2>3, <3>2 DEF Upsert, TypeOK
  <2>4. CASE SqliteUpsert(w)
    <3>1. call' \in [Call -> CallRec] BY <2>0, <2>4, <2>9, CrowdedFact DEF SqliteUpsert
    <3>2. QED BY <2>4, <3>1 DEF SqliteUpsert, TypeOK
  <2>5. QED BY <1>3, <2>1, <2>2, <2>3, <2>4
<1>4. ASSUME NEW x \in Write \cup Reader, Collect(x) \/ Replace(x)
      PROVE  TypeOK'
  <2>0. x \in Call BY DEF Call
  <2>1. CASE Collect(x)
    <3>1. call' \in [Call -> CallRec]
      <4>1. (result /\ cached # None) \in BOOLEAN BY DEF TypeOK
      <4>2. [call[x] EXCEPT !.pc = "replace", !.found = result /\ cached # None] \in CallRec
        BY <2>0, <4>1, CallFact DEF TypeOK
      <4>3. QED BY <2>0, <2>1, <4>2 DEF Collect, TypeOK
    <3>2. QED BY <2>1, <3>1 DEF Collect, TypeOK
  <2>2. CASE Replace(x)
    <3>1. Goto(x, IF x \in Reader THEN "recheck" ELSE "done") BY <2>2 DEF Replace
    <3>2. call' \in [Call -> CallRec] BY <2>0, <3>1, GotoFact
    <3>3. index' \in BOOLEAN BY <2>0, <2>2 DEF Replace, TypeOK, CallRec
    <3>4. QED BY <2>2, <3>2, <3>3 DEF Replace, TypeOK
  <2>3. QED BY <1>4, <2>1, <2>2
<1>5. ASSUME NEW r \in Reader, Find(r) \/ Recheck(r)
      PROVE  TypeOK'
  <2>0. r \in Call BY DEF Call
  <2>1. CASE Find(r)
    <3>1. call' \in [Call -> CallRec]
      <4> DEFINE alone == \A x \in Call : call[x].pc \in {"none", "done", "lost"}
                 b == IF result THEN Finished(Write) ELSE {}
                 pc == IF index THEN "done" ELSE Missing
      <4>1. alone \in BOOLEAN /\ b \in SUBSET (Write \cup Entry) /\ pc \in Place
        BY FinishedFact DEF Missing
      <4>2. index \in BOOLEAN BY DEF TypeOK
      <4>3. call' = [Crowded EXCEPT ![r] = [Crowded[r] EXCEPT !.pc = pc, !.found = index,
                                                              !.before = b, !.alone = alone]]
        BY <2>0, <2>1, CrowdedFact DEF Find
      <4> HIDE DEF alone, b, pc
      <4>4. [Crowded[r] EXCEPT !.pc = pc, !.found = index, !.before = b, !.alone = alone] \in CallRec
        <5>1. PICK c \in CallRec : c = Crowded[r] BY <2>0, CrowdedFact
        <5>2. [c EXCEPT !.pc = pc, !.found = index, !.before = b, !.alone = alone] \in CallRec
          BY <4>1, <4>2 DEF CallRec
        <5>3. QED BY <5>1, <5>2
      <4>5. QED BY <4>3, <4>4, CrowdedFact
    <3>2. QED BY <2>1, <3>1 DEF Find, TypeOK
  <2>2. CASE Recheck(r)
    <3>1. call' \in [Call -> CallRec]
      <4>1. index \in BOOLEAN BY DEF TypeOK
      <4>2. [call[r] EXCEPT !.pc = "done", !.found = index] \in CallRec
        BY <2>0, <4>1, CallFact DEF TypeOK
      <4>3. QED BY <2>0, <2>2, <4>2 DEF Recheck, TypeOK
    <3>2. QED BY <2>2, <3>1 DEF Recheck, TypeOK
  <2>3. QED BY <1>5, <2>1, <2>2
<1>6. QED BY <1>1, <1>2, <1>3, <1>4, <1>5

\* The steps of listing and appending, by the call that takes them.
Listing(r) == BeginList(r) \/ Get(r, "done") \/ SqliteList(r)
Appending(e) == \/ BeginAppend(e) \/ Get(e, "write") \/ AppendLine(e)
                \/ Sized(e) \/ CacheLine(e) \/ SqliteAppend(e)

LEMMA TypeGet ==
  ASSUME TypeOK, NEW x \in Call, NEW next \in {"done", "write"}, Get(x, next)
  PROVE  TypeOK'
<1> USE DEF record, logs, Place
<1>0. call[x] \in CallRec /\ call[x].items \in Seq(Line) /\ call[x].size \in Nat
      /\ logCache.items \in Seq(Line)
  BY DEF TypeOK, CallRec
<1>1. CASE Stat(x)
  <2>1. [call[x] EXCEPT !.pc = "found", !.size = Len(file)] \in CallRec
    BY <1>0, CallFact, LenProperties DEF TypeOK
  <2>2. call' \in [Call -> CallRec] BY <1>1, <2>1 DEF Stat, TypeOK
  <2>3. QED BY <1>1, <2>2 DEF Stat, TypeOK
<1>2. CASE Found(x, next)
  <2>1. [call[x] EXCEPT !.pc = next, !.items = logCache.items] \in CallRec
        /\ [call[x] EXCEPT !.pc = next] \in CallRec /\ [call[x] EXCEPT !.pc = "read"] \in CallRec
    BY <1>0, CallFact
  <2>2. call' \in [Call -> CallRec] BY <1>2, <2>1 DEF Found, Goto, TypeOK
  <2>3. logCache' \in [valid: BOOLEAN, size: Nat, items: Seq(Line)]
    <3>1. [valid |-> TRUE, size |-> 0, items |-> <<>>] \in [valid: BOOLEAN, size: Nat, items: Seq(Line)]
      OBVIOUS
    <3>2. \/ logCache' = [valid |-> TRUE, size |-> 0, items |-> <<>>]
          \/ logCache' = logCache
      BY <1>2 DEF Found
    <3>3. QED BY <3>1, <3>2 DEF TypeOK
  <2>4. QED BY <1>2, <2>2, <2>3 DEF Found, TypeOK
<1>3. CASE ReadLines(x)
  <2>1. [call[x] EXCEPT !.items = file, !.pc = "keep"] \in CallRec
    BY <1>0, CallFact DEF TypeOK
  <2>2. call' \in [Call -> CallRec] BY <1>3, <2>1 DEF ReadLines, TypeOK
  <2>3. QED BY <1>3, <2>2 DEF ReadLines, TypeOK
<1>4. CASE Keep(x, next)
  <2>1. call' \in [Call -> CallRec] BY <1>4, GotoFact DEF Keep
  <2>2. logCache' \in [valid: BOOLEAN, size: Nat, items: Seq(Line)]
    BY <1>0, <1>4 DEF Keep
  <2>3. QED BY <1>4, <2>1, <2>2 DEF Keep, TypeOK
<1>5. QED BY <1>1, <1>2, <1>3, <1>4 DEF Get

LEMMA TypeListing ==
  ASSUME TypeOK, NEW r \in Reader, Listing(r)
  PROVE  TypeOK'
<1> USE DEF record, logs, Place
<1>0. r \in Call /\ call[r] \in CallRec /\ Len(file) \in Nat /\ file \in Seq(Line)
  BY LenProperties DEF TypeOK, Call
<1>1. CASE BeginList(r)
  <2>1. [call[r] EXCEPT !.pc = "stat", !.before = Finished(Entry), !.from = Len(file)] \in CallRec
    BY <1>0, CallFact, FinishedFact
  <2>2. call' \in [Call -> CallRec] BY <1>0, <1>1, <2>1 DEF BeginList, TypeOK
  <2>3. QED BY <1>1, <2>2 DEF BeginList, TypeOK
<1>2. CASE SqliteList(r)
  <2>1. [call[r] EXCEPT !.pc = "done", !.before = Finished(Entry), !.from = Len(file),
                        !.items = file] \in CallRec
    BY <1>0, CallFact, FinishedFact
  <2>2. call' \in [Call -> CallRec] BY <1>0, <1>2, <2>1 DEF SqliteList, TypeOK
  <2>3. QED BY <1>2, <2>2 DEF SqliteList, TypeOK
<1>3. CASE Get(r, "done") BY <1>0, <1>3, TypeGet
<1>4. QED BY <1>1, <1>2, <1>3 DEF Listing

\* The number of a new entry is one.
LEMMA NumberFact ==
  ASSUME NEW s \in Seq(Line)
  PROVE  NextNumber(s) \in Nat
<1>1. CASE s = <<>> BY <1>1 DEF NextNumber
<1>2. CASE s # <<>>
  <2>1. Len(s) \in 1..Len(s) BY <1>2, EmptySeq, LenProperties
  <2>2. s[Len(s)] \in Line BY <2>1, ElementOfSeq
  <2>3. QED BY <1>2, <2>2 DEF NextNumber, Line
<1>3. QED BY <1>1, <1>2

\* The line of an entry that is in the file is one of the file's.
LEMMA LineFact ==
  ASSUME TypeOK, NEW e, NEW k \in DOMAIN file, file[k].id = e
  PROVE  LET line == CHOOSE l \in {file[i] : i \in DOMAIN file} : l.id = e
         IN line \in Line /\ line.id = e /\ \E i \in DOMAIN file : line = file[i]
<1>1. DOMAIN file = 1..Len(file) /\ \A i \in 1..Len(file) : file[i] \in Line
  BY LenProperties, ElementOfSeq DEF TypeOK
<1>2. QED BY <1>1

LEMMA TypeAppending ==
  ASSUME TypeOK, NEW e \in Entry, Appending(e),
         At(e, "cache") => \E k \in DOMAIN file : file[k].id = e
  PROVE  TypeOK'
<1> USE DEF record, logs, Place
<1>0. e \in Call /\ call[e] \in CallRec /\ call[e].items \in Seq(Line) /\ call[e].size \in Nat
  BY DEF TypeOK, Call, CallRec
<1>1. CASE BeginAppend(e)
  <2>1. call' \in [Call -> CallRec] BY <1>0, <1>1, GotoFact DEF BeginAppend
  <2>2. QED BY <1>1, <2>1 DEF BeginAppend, TypeOK
<1>2. CASE Get(e, "write") BY <1>0, <1>2, TypeGet
<1>3. CASE AppendLine(e)
  <2>1. Goto(e, IF part[1] = "events" /\ ~logCache.valid THEN "done" ELSE "sized")
    BY <1>3 DEF AppendLine
  <2>2. call' \in [Call -> CallRec] BY <1>0, <2>1, GotoFact
  <2>3. [id |-> e, number |-> NextNumber(call[e].items)] \in Line
    BY <1>0, NumberFact DEF Line
  <2>4. file' \in Seq(Line) BY <1>3, <2>3, AppendProperties DEF AppendLine, TypeOK
  <2>5. QED BY <1>3, <2>2, <2>4 DEF AppendLine, TypeOK
<1>4. CASE Sized(e)
  <2>1. [call[e] EXCEPT !.size = Len(file), !.pc = "cache"] \in CallRec
    BY <1>0, CallFact, LenProperties DEF TypeOK
  <2>2. call' \in [Call -> CallRec] BY <1>0, <1>4, <2>1 DEF Sized, TypeOK
  <2>3. QED BY <1>4, <2>2 DEF Sized, TypeOK
<1>5. CASE CacheLine(e)
  <2>1. call' \in [Call -> CallRec] BY <1>0, <1>5, GotoFact DEF CacheLine
  <2>2. logCache' \in [valid: BOOLEAN, size: Nat, items: Seq(Line)]
    <3> DEFINE line == CHOOSE l \in {file[i] : i \in DOMAIN file} : l.id = e
               got == IF part[1] = "events" THEN logCache.items ELSE call[e].items
    <3>1. line \in Line BY <1>5, LineFact DEF CacheLine
    <3>2. got \in Seq(Line) BY <1>0 DEF TypeOK
    <3>3. logCache' = [valid |-> TRUE, size |-> call[e].size, items |-> Append(got, line)]
      BY <1>5 DEF CacheLine
    <3> HIDE DEF line, got
    <3>4. Append(got, line) \in Seq(Line) BY <3>1, <3>2, AppendProperties
    <3>5. QED BY <1>0, <3>3, <3>4
  <2>3. QED BY <1>5, <2>1, <2>2 DEF CacheLine, TypeOK
<1>6. CASE SqliteAppend(e)
  <2>1. call' \in [Call -> CallRec] BY <1>0, <1>6, GotoFact DEF SqliteAppend
  <2>2. [id |-> e, number |-> NextNumber(file)] \in Line
    BY NumberFact DEF Line, TypeOK
  <2>3. file' \in Seq(Line) BY <1>6, <2>2, AppendProperties DEF SqliteAppend, TypeOK
  <2>4. QED BY <1>6, <2>1, <2>3 DEF SqliteAppend, TypeOK
<1>7. QED BY <1>1, <1>2, <1>3, <1>4, <1>5, <1>6 DEF Appending

-----------------------------------------------------------------------------
(* No update is lost *)

\* A write knows only of finished ones; once it is in place (in the cache), none
\* of those is there.
Order ==
  \A w \in Write :
    /\ call[w].before \subseteq Finished(Write)
    /\ call[w].pc \in {"renamed", "collect", "replace", "done"}
         => disk \notin call[w].before \cup {None}
    /\ call[w].pc \in {"collect", "replace", "done"}
         => cached \notin call[w].before \cup {None}

\* Writes are not the calls that list or append.
LEMMA Apart ==
  /\ \A w \in Write : w \in Call /\ w \notin Reader /\ w \notin Entry /\ w # None
  /\ \A r \in Reader : r \in Call /\ r \notin Write /\ r \notin Entry
  /\ \A e \in Entry : e \in Call /\ e \notin Write /\ e \notin Reader
BY StorageAssumption DEF StorageAssumption, Call

LEMMA OrderInit == Init => Order
BY Apart DEF Init, Order, NotBegun

\* A step that leaves the writes and what they wrote alone.
LEMMA OrderSame ==
  ASSUME Order, disk' = disk, cached' = cached, \A w \in Write : call'[w] = call[w]
  PROVE  Order'
BY DEF Order, Finished

LEMMA GetFact ==
  ASSUME TypeOK, NEW x \in Call, NEW next \in {"done", "write"}, Get(x, next)
  PROVE  /\ UNCHANGED <<part, record, file>>
         /\ \A y \in Call : y # x => call'[y] = call[y]
BY DEF Get, Stat, Found, ReadLines, Keep, Goto, logs, TypeOK, record

LEMMA LogStep ==
  ASSUME TypeOK,
         \/ \E r \in Reader : Listing(r)
         \/ \E e \in Entry : Appending(e)
  PROVE  UNCHANGED <<part, record>> /\ \A w \in Write : call'[w] = call[w]
<1>1. ASSUME NEW r \in Reader, Listing(r)
      PROVE  UNCHANGED <<part, record>> /\ \A w \in Write : call'[w] = call[w]
  <2>1. CASE Get(r, "done") BY <2>1, Apart, GetFact
  <2>2. CASE BeginList(r) \/ SqliteList(r)
    BY <2>2, Apart DEF BeginList, SqliteList, TypeOK, record, logs
  <2>3. QED BY <1>1, <2>1, <2>2 DEF Listing
<1>2. ASSUME NEW e \in Entry, Appending(e)
      PROVE  UNCHANGED <<part, record>> /\ \A w \in Write : call'[w] = call[w]
  <2>1. CASE Get(e, "write") BY <2>1, Apart, GetFact
  <2>2. CASE BeginAppend(e) \/ AppendLine(e) \/ Sized(e) \/ CacheLine(e) \/ SqliteAppend(e)
    BY <2>2, Apart
    DEF BeginAppend, AppendLine, Sized, CacheLine, SqliteAppend, Goto, TypeOK, record, logs
  <2>3. QED BY <1>2, <2>1, <2>2 DEF Appending
<1>3. QED BY <1>1, <1>2

LEMMA OrderNext == TypeOK /\ Order /\ [Next]_vars => Order'
<1> SUFFICES ASSUME TypeOK, Order, [Next]_vars PROVE Order' OBVIOUS
<1> USE Apart
<1>1. CASE Restart
  <2>1. \A w \in Write : /\ call'[w].before = call[w].before
                         /\ call'[w].pc = "done" <=> call[w].pc = "done"
                         /\ call'[w].pc \notin {"renamed", "collect", "replace"}
    BY <1>1 DEF Restart, TypeOK, CallRec
  <2>2. disk' = disk /\ cached' = disk BY <1>1 DEF Restart
  <2>3. QED BY <2>1, <2>2 DEF Order, Finished
<1>2. CASE PublishResult BY <1>2, OrderSame DEF PublishResult
<1>3. ASSUME NEW w \in Write, BeginWrite(w) \/ SqliteUpsert(w) PROVE Order'
  <2>1. call[w].pc = "none" BY <1>3 DEF BeginWrite, SqliteUpsert, At
  <2>2. \A v \in Write : v # w => /\ call'[v].pc = call[v].pc
                                  /\ call'[v].before = call[v].before
    BY <1>3, CrowdedFact DEF BeginWrite, SqliteUpsert
  <2>3. call'[w].before = Finished(Write) /\ w \notin Finished(Write)
    <3>1. Crowded[w] \in CallRec /\ w \in DOMAIN Crowded BY CrowdedFact
    <3>2. call'[w].before = Finished(Write)
      BY <1>3, <3>1 DEF BeginWrite, SqliteUpsert, CallRec
    <3>3. QED BY <2>1, <3>2 DEF Finished
  <2>4. Finished(Write) \subseteq Finished(Write)' BY <2>1, <2>2 DEF Finished
  <2>5. CASE BeginWrite(w)
    <3>1. call'[w].pc = "written" BY <2>5, CrowdedFact DEF BeginWrite
    <3>2. disk' = disk /\ cached' = cached BY <2>5 DEF BeginWrite, record
    <3>3. QED BY <2>2, <2>3, <2>4, <3>1, <3>2 DEF Order
  <2>6. CASE SqliteUpsert(w)
    <3>1. disk' = w /\ cached' = w BY <2>6 DEF SqliteUpsert
    <3>2. \A v \in Write : w \notin call'[v].before
      BY <2>2, <2>3 DEF Order
    <3>3. QED BY <2>2, <2>3, <2>4, <3>1, <3>2 DEF Order
  <2>7. QED BY <1>3, <2>5, <2>6
<1>4. ASSUME NEW w \in Write, Rename(w) \/ Upsert(w) PROVE Order'
  <2>1. call[w].pc \in {"written", "renamed"} BY <1>4 DEF Rename, Upsert, At
  <2>2. \A v \in Write : /\ v # w => call'[v].pc = call[v].pc
                         /\ call'[v].before = call[v].before
    <3>1. Goto(w, "renamed") \/ Goto(w, Indexed) BY <1>4 DEF Rename, Upsert
    <3>2. Indexed \in Place /\ "renamed" \in Place BY DEF Indexed, Place
    <3>3. QED BY <3>1, <3>2, GotoFact
  <2>3. Finished(Write) \subseteq Finished(Write)' BY <2>1, <2>2 DEF Finished
  <2>4. \A v \in Write : w \notin call[v].before BY <2>1 DEF Order, Finished
  <2>5. CASE Rename(w)
    <3>1. disk' = w /\ cached' = cached /\ call'[w].pc = "renamed"
      BY <2>5, GotoFact DEF Rename, Place
    <3>2. QED BY <2>2, <2>3, <2>4, <3>1 DEF Order
  <2>6. CASE Upsert(w)
    <3>1. disk' = disk /\ cached' = w /\ call[w].pc = "renamed" BY <2>6 DEF Upsert, At
    <3>2. QED BY <2>2, <2>3, <2>4, <3>1 DEF Order
  <2>7. QED BY <1>4, <2>5, <2>6
<1>5. ASSUME NEW x \in Write \cup Reader, Collect(x) \/ Replace(x) PROVE Order'
  <2>1. disk' = disk /\ cached' = cached BY <1>5 DEF Collect, Replace, record
  <2>2. CASE x \in Reader
    <3>1. \A v \in Write : call'[v] = call[v]
      BY <1>5, <2>2 DEF Collect, Replace, Goto, TypeOK
    <3>2. QED BY <2>1, <3>1, OrderSame
  <2>3. CASE x \in Write
    <3>1. /\ \A v \in Write : call'[v].before = call[v].before
                              /\ (v # x => call'[v].pc = call[v].pc)
          /\ call[x].pc \in {"collect", "replace"} /\ call'[x].pc \in {"replace", "done"}
      <4>1. CASE Collect(x)
        <5> DEFINE f == result /\ cached # None
        <5>1. call[x] \in CallRec BY <2>3 DEF TypeOK
        <5>2. call'[x] = [call[x] EXCEPT !.pc = "replace", !.found = f]
              /\ \A v \in Write : v # x => call'[v] = call[v]
          BY <2>3, <4>1 DEF Collect, TypeOK
        <5> HIDE DEF f
        <5>3. call[x].pc = "collect" BY <4>1 DEF Collect, At
        <5>4. call'[x].pc = "replace" /\ call'[x].before = call[x].before
          BY <5>1, <5>2 DEF CallRec
        <5>5. QED BY <5>2, <5>3, <5>4
      <4>2. CASE Replace(x)
        <5>1. Goto(x, "done") /\ call[x].pc = "replace" BY <2>3, <4>2 DEF Replace, At
        <5>2. x \in Call /\ "done" \in Place BY <2>3, Apart DEF Place
        <5>3. /\ \A y \in Call \ {x} : call'[y] = call[y]
              /\ call'[x].pc = "done" /\ call'[x].before = call[x].before
          BY <5>1, <5>2, GotoFact
        <5>4. \A v \in Write : v \in Call BY Apart
        <5>5. QED BY <5>1, <5>3, <5>4
      <4>3. Collect(x) \/ Replace(x) BY <1>5
      <4>4. QED BY <4>1, <4>2, <4>3
    <3>2. Finished(Write) \subseteq Finished(Write)' BY <3>1 DEF Finished
    <3>3. ASSUME NEW v \in Write
          PROVE  /\ call'[v].before \subseteq Finished(Write)'
                 /\ call'[v].pc \in {"renamed", "collect", "replace", "done"}
                      => disk' \notin call'[v].before \cup {None}
                 /\ call'[v].pc \in {"collect", "replace", "done"}
                      => cached' \notin call'[v].before \cup {None}
      <4>1. call'[v].before = call[v].before BY <3>1
      <4>2. call'[v].pc = call[v].pc \/ call[v].pc \in {"collect", "replace"} BY <3>1
      <4>3. call[v].before \subseteq Finished(Write) BY DEF Order
      <4>4. call[v].pc \in {"renamed", "collect", "replace", "done"}
              => disk \notin call[v].before \cup {None}
        BY DEF Order
      <4>5. call[v].pc \in {"collect", "replace", "done"} => cached \notin call[v].before \cup {None}
        BY DEF Order
      <4>6. QED BY <2>1, <3>2, <4>1, <4>2, <4>3, <4>4, <4>5
    <3>4. QED BY <3>3 DEF Order
  <2>4. QED BY <2>2, <2>3
<1>6. ASSUME NEW r \in Reader, Find(r) PROVE Order'
  <2>1. disk' = disk /\ cached' = cached BY <1>6 DEF Find, record
  <2>2. \A v \in Write : call'[v].pc = call[v].pc /\ call'[v].before = call[v].before
    BY <1>6, CrowdedFact DEF Find
  <2>3. QED BY <2>1, <2>2 DEF Order, Finished
<1>7. ASSUME NEW r \in Reader, Recheck(r) PROVE Order'
  <2>1. \A v \in Write : call'[v] = call[v] BY <1>7 DEF Recheck, TypeOK
  <2>2. QED BY <1>7, <2>1, OrderSame DEF Recheck, record
<1>8. CASE (\E r \in Reader : Listing(r)) \/ \E e \in Entry : Appending(e)
  BY <1>8, LogStep, OrderSame DEF record
<1>9. CASE UNCHANGED vars BY <1>9, OrderSame DEF vars, record
<1>10. QED BY <1>1, <1>2, <1>3, <1>4, <1>5, <1>6, <1>7, <1>8, <1>9
       DEF Next, Listing, Appending

-----------------------------------------------------------------------------
(* An artifact that is stored is found *)

Quiet == {"none", "done", "lost"}

\* A find knows finished writes of a worker whose result is stored; while it is
\* alone, nothing comes between the index it rebuilds and its second look.
FindGoesWell(r) ==
  /\ call[r].pc \in Quiet \cup {"collect", "replace", "recheck"}
  /\ call[r].before \subseteq Finished(Write)
  /\ call[r].before # {} => result
  /\ call[r].alone /\ call[r].pc \notin Quiet => \A x \in Call \ {r} : call[x].pc \in Quiet
  /\ call[r].pc = "replace" /\ call[r].before # {} => call[r].found
  /\ call[r].pc = "recheck" /\ call[r].alone /\ call[r].before # {} => index
  /\ call[r].pc = "done" /\ call[r].alone /\ call[r].before # {} => call[r].found

Finding == part[1] = "worker" => /\ \A e \in Entry : call[e].pc \in Quiet
                                 /\ \A r \in Reader : FindGoesWell(r)

LEMMA FindingInit == Init => Finding
BY Apart DEF Init, Finding, FindGoesWell, NotBegun, Quiet

\* A call that begins leaves nobody else alone.
LEMMA FindingBegins ==
  ASSUME TypeOK, Finding, NEW w \in Write, BeginWrite(w) \/ SqliteUpsert(w)
  PROVE  Finding'
<1> SUFFICES ASSUME part[1] = "worker" PROVE Finding'
  BY DEF Finding, BeginWrite, SqliteUpsert
<1>1. call[w].pc = "none" BY DEF BeginWrite, SqliteUpsert, At
<1>2. \A v \in Call : v # w => /\ call'[v].pc = call[v].pc /\ call'[v].found = call[v].found
                               /\ call'[v].before = call[v].before
                               /\ call'[v].alone => call[v].pc = "done" /\ call'[v] = call[v]
  BY CrowdedFact, Apart DEF BeginWrite, SqliteUpsert
<1>3. Finished(Write) \subseteq Finished(Write)' BY <1>1, <1>2, Apart DEF Finished
<1>4. UNCHANGED <<part, result, index>> BY DEF BeginWrite, SqliteUpsert, record
<1>5. QED BY <1>2, <1>3, <1>4, Apart DEF Finding, FindGoesWell, Quiet

LEMMA FindingMoves ==
  ASSUME TypeOK, Order, Finding, NEW x \in Write \cup Reader,
         \/ x \in Write /\ (Rename(x) \/ Upsert(x))
         \/ Collect(x) \/ Replace(x)
  PROVE  Finding'
<1> USE Apart DEF Place
<1> SUFFICES ASSUME part[1] = "worker" PROVE Finding'
  BY DEF Finding, Rename, Upsert, Collect, Replace
<1>1. CASE x \in Write
  <2>1. CASE Rename(x) \/ Upsert(x) \/ Replace(x)
    <3>1. call[x].pc \notin Quiet BY <2>1 DEF Rename, Upsert, Replace, At, Quiet
    <3>2. PICK pc \in Place : Goto(x, pc) BY <1>1, <2>1 DEF Rename, Upsert, Replace, Indexed
    <3>3. \A v \in Call : v # x => call'[v] = call[v]
      <4>1. \A v \in Call \ {x} : call'[v] = call[v] BY <1>1, <3>2, GotoFact
      <4>2. QED BY <4>1
    <3>4. Finished(Write) \subseteq Finished(Write)' BY <3>1, <3>3 DEF Finished, Quiet
    <3>5. \A r \in Reader : call[r].alone => call[r].pc \in Quiet BY <1>1, <3>1 DEF Finding, FindGoesWell, Quiet
    <3>6. UNCHANGED <<part, result>> BY <2>1 DEF Rename, Upsert, Replace
    <3>7. QED BY <1>1, <3>3, <3>4, <3>5, <3>6 DEF Finding, FindGoesWell, Quiet
  <2>2. CASE Collect(x)
    <3>1. call[x].pc \notin Quiet BY <2>2 DEF Collect, At, Quiet
    <3>2. \A v \in Call : v # x => call'[v] = call[v] BY <1>1, <2>2 DEF Collect, TypeOK
    <3>3. Finished(Write) \subseteq Finished(Write)' BY <3>1, <3>2 DEF Finished, Quiet
    <3>4. \A r \in Reader : call[r].alone => call[r].pc \in Quiet BY <1>1, <3>1 DEF Finding, FindGoesWell, Quiet
    <3>5. UNCHANGED <<part, result, index>> BY <2>2 DEF Collect, record
    <3>6. QED BY <1>1, <3>2, <3>3, <3>4, <3>5 DEF Finding, FindGoesWell, Quiet
  <2>3. QED BY <1>1, <2>1, <2>2
<1>2. CASE x \in Reader /\ Collect(x)
  <2> DEFINE f == result /\ cached # None
  <2>1. call[x] \in CallRec /\ call[x].pc = "collect" BY <1>2 DEF TypeOK, Collect, At
  <2>2. call'[x] = [call[x] EXCEPT !.pc = "replace", !.found = f]
        /\ \A v \in Call : v # x => call'[v] = call[v]
    BY <1>2 DEF Collect, TypeOK
  <2>3. call[x].before # {} => f
    BY <1>2 DEF Finding, FindGoesWell, Order, Finished
  <2>4. UNCHANGED <<part, result, index>> BY <1>2 DEF Collect, record
  <2> HIDE DEF f
  <2>5. /\ call'[x].pc = "replace" /\ call'[x].before = call[x].before
        /\ call'[x].alone = call[x].alone /\ call'[x].found = f
    BY <2>1, <2>2 DEF CallRec
  <2>6. Finished(Write) = Finished(Write)' BY <1>2, <2>2 DEF Finished
  <2>7. \A v \in Call : v # x => (call'[v].pc \in Quiet <=> call[v].pc \in Quiet)
    BY <2>2
  <2>8. \A r \in Reader : r # x /\ call[r].alone => call[r].pc \in Quiet
    BY <1>2, <2>1 DEF Finding, FindGoesWell, Quiet
  <2>9. \A e \in Entry : call'[e].pc \in Quiet BY <1>2, <2>2 DEF Finding
  <2>10. FindGoesWell(x)'
    <3>1. FindGoesWell(x) BY <1>2 DEF Finding
    <3>2. QED BY <1>2, <2>1, <2>3, <2>4, <2>5, <2>6, <2>7, <3>1 DEF FindGoesWell, Quiet
  <2>11. ASSUME NEW r \in Reader, r # x PROVE FindGoesWell(r)'
    <3>1. FindGoesWell(r) /\ call'[r] = call[r] BY <2>2, <2>11 DEF Finding
    <3>2. QED BY <2>4, <2>6, <2>7, <2>8, <2>11, <3>1 DEF FindGoesWell, Quiet
  <2>12. QED BY <2>9, <2>10, <2>11 DEF Finding
<1>3. CASE x \in Reader /\ Replace(x)
  <2>1. Goto(x, "recheck") /\ call[x].pc = "replace" /\ index' = call[x].found
    BY <1>3 DEF Replace, At
  <2>2. /\ call'[x].pc = "recheck" /\ call'[x].before = call[x].before
        /\ call'[x].alone = call[x].alone
        /\ \A v \in Call \ {x} : call'[v] = call[v]
    BY <1>3, <2>1, GotoFact
  <2>3. UNCHANGED <<part, result>> BY <1>3 DEF Replace
  <2>4. Finished(Write) = Finished(Write)' BY <1>3, <2>2 DEF Finished
  <2>5. \A r \in Reader : r # x /\ call[r].alone => call[r].pc \in Quiet
    BY <1>3, <2>1 DEF Finding, FindGoesWell, Quiet
  <2>6. \A e \in Entry : call'[e].pc \in Quiet BY <1>3, <2>2 DEF Finding
  <2>7. FindGoesWell(x)'
    <3>1. FindGoesWell(x) BY <1>3 DEF Finding
    <3>2. QED BY <1>3, <2>1, <2>2, <2>3, <2>4, <3>1 DEF FindGoesWell, Quiet
  <2>8. ASSUME NEW r \in Reader, r # x PROVE FindGoesWell(r)'
    <3>1. FindGoesWell(r) /\ call'[r] = call[r] BY <2>2, <2>8 DEF Finding
    <3>2. QED BY <2>1, <2>3, <2>4, <2>5, <2>8, <3>1 DEF FindGoesWell, Quiet
  <2>9. QED BY <2>6, <2>7, <2>8 DEF Finding
<1>4. QED BY <1>1, <1>2, <1>3

LEMMA FindingReads ==
  ASSUME TypeOK, Finding, NEW r \in Reader, Find(r) \/ Recheck(r)
  PROVE  Finding'
<1> USE Apart
<1>0. call[r] \in CallRec /\ Crowded[r] \in CallRec BY CrowdedFact DEF TypeOK
<1>1. CASE Find(r)
  <2> DEFINE alone == \A x \in Call : call[x].pc \in {"none", "done", "lost"}
             b == IF result THEN Finished(Write) ELSE {}
             pc == IF index THEN "done" ELSE Missing
  <2>1. part[1] = "worker" /\ call[r].pc = "none" BY <1>1 DEF Find, At
  <2>2. call' = [Crowded EXCEPT ![r] = [Crowded[r] EXCEPT !.pc = pc, !.found = index,
                                                          !.before = b, !.alone = alone]]
    BY <1>1, CrowdedFact DEF Find
  <2>3. b \subseteq Finished(Write) /\ (b # {} => result) /\ pc \in {"done", "collect"}
        /\ (pc = "done" => index) /\ (alone => \A x \in Call : call[x].pc \in Quiet)
    BY DEF Missing, Quiet
  <2> HIDE DEF alone, b, pc
  <2>4. call'[r] = [Crowded[r] EXCEPT !.pc = pc, !.found = index, !.before = b, !.alone = alone]
    BY <2>2, CrowdedFact
  <2>5. call'[r].pc = pc /\ call'[r].found = index /\ call'[r].before = b /\ call'[r].alone = alone
    BY <1>0, <2>4 DEF CallRec
  <2>6. \A v \in Call : v # r => /\ call'[v].pc = call[v].pc /\ call'[v].found = call[v].found
                                 /\ call'[v].before = call[v].before
                                 /\ call'[v].alone => call[v].pc = "done" /\ call'[v] = call[v]
    BY <2>2, CrowdedFact
  <2>7. Finished(Write) = Finished(Write)' BY <2>6 DEF Finished
  <2>8. UNCHANGED <<part, result, index>> BY <1>1 DEF Find, record
  <2>9. \A e \in Entry : call'[e].pc \in Quiet BY <2>1, <2>6 DEF Finding
  <2>10. FindGoesWell(r)'
    <3>1. \A x \in Call \ {r} : call'[x].pc = call[x].pc BY <2>6
    <3>2. QED BY <2>3, <2>5, <2>7, <2>8, <3>1 DEF FindGoesWell, Quiet
  <2>11. ASSUME NEW v \in Reader, v # r PROVE FindGoesWell(v)'
    <3>1. FindGoesWell(v) BY <2>1 DEF Finding
    <3>2. QED BY <2>6, <2>7, <2>8, <2>11, <3>1 DEF FindGoesWell, Quiet
  <2>12. QED BY <2>9, <2>10, <2>11 DEF Finding
<1>2. CASE Recheck(r)
  <2> SUFFICES ASSUME part[1] = "worker" PROVE Finding' BY <1>2 DEF Finding, Recheck
  <2>1. call[r].pc = "recheck" /\ UNCHANGED <<part, result, index>> BY <1>2 DEF Recheck, At, record
  <2>2. /\ call'[r] = [call[r] EXCEPT !.pc = "done", !.found = index]
        /\ \A v \in Call : v # r => call'[v] = call[v]
    BY <1>2 DEF Recheck, TypeOK
  <2>3. /\ call'[r].pc = "done" /\ call'[r].found = index
        /\ call'[r].before = call[r].before /\ call'[r].alone = call[r].alone
    BY <1>0, <2>2 DEF CallRec
  <2>4. Finished(Write) = Finished(Write)' BY <2>2 DEF Finished
  <2>5. \A v \in Reader : v # r /\ call[v].alone => call[v].pc \in Quiet
    BY <2>1 DEF Finding, FindGoesWell, Quiet
  <2>6. \A e \in Entry : call'[e].pc \in Quiet BY <2>2 DEF Finding
  <2>7. FindGoesWell(r)'
    <3>1. FindGoesWell(r) BY DEF Finding
    <3>2. QED BY <2>1, <2>3, <2>4, <3>1 DEF FindGoesWell, Quiet
  <2>8. ASSUME NEW v \in Reader, v # r PROVE FindGoesWell(v)'
    <3>1. FindGoesWell(v) /\ call'[v] = call[v] BY <2>2, <2>8 DEF Finding
    <3>2. QED BY <2>1, <2>4, <2>5, <2>8, <3>1 DEF FindGoesWell, Quiet
  <2>9. QED BY <2>6, <2>7, <2>8 DEF Finding
<1>3. QED BY <1>1, <1>2

LEMMA FindingNext == TypeOK /\ Order /\ Finding /\ [Next]_vars => Finding'
<1> SUFFICES ASSUME TypeOK, Order, Finding, [Next]_vars PROVE Finding' OBVIOUS
<1> USE Apart
<1>1. CASE Restart
  <2>1. \A x \in Call : \/ call[x].pc \in {"none", "done"} /\ call'[x] = call[x]
                        \/ /\ call'[x].pc = "lost" /\ call'[x].before = call[x].before
                           /\ call[x].pc # "done"
    BY <1>1 DEF Restart, TypeOK, CallRec
  <2>2. Finished(Write) = Finished(Write)' BY <2>1 DEF Finished
  <2>3. part' = part /\ result' = result BY <1>1 DEF Restart
  <2>4. QED BY <2>1, <2>2, <2>3 DEF Finding, FindGoesWell, Quiet
<1>2. CASE PublishResult BY <1>2 DEF PublishResult, Finding, FindGoesWell, Finished
<1>3. CASE \/ \E r \in Reader : Listing(r)
           \/ \E e \in Entry : Appending(e)
  <2>1. part' = part BY <1>3, LogStep
  <2>2. ASSUME part[1] = "worker", NEW r \in Reader, Listing(r) PROVE FALSE
    <3>1. call[r].pc \in Quiet \cup {"collect", "replace", "recheck"}
      BY <2>2 DEF Finding, FindGoesWell
    <3>2. ~Log BY <2>2 DEF Log
    <3>3. QED BY <2>2, <3>1, <3>2
      DEF Quiet, Listing, BeginList, SqliteList, Get, Stat, Found, ReadLines, Keep, At
  <2>3. ASSUME part[1] = "worker", NEW e \in Entry, Appending(e) PROVE FALSE
    <3>1. call[e].pc \in Quiet BY <2>3 DEF Finding
    <3>2. ~Log /\ ~EventFile /\ part # <<"transcript", "file">> BY <2>3 DEF Log, EventFile
    <3>3. QED BY <2>3, <3>1, <3>2
      DEF Quiet, Appending, BeginAppend, AppendLine, Sized, CacheLine, SqliteAppend,
          Get, Stat, Found, ReadLines, Keep, At
  <2>4. QED BY <1>3, <2>1, <2>2, <2>3 DEF Finding
<1>4. CASE UNCHANGED vars BY <1>4 DEF vars, record, Finding, FindGoesWell, Finished
<1>5. QED BY <1>1, <1>2, <1>3, <1>4, FindingBegins, FindingMoves, FindingReads
       DEF Next, Listing, Appending
-----------------------------------------------------------------------------
(* A log is a log *)

\* The entries of s are those that the file begins with.
Prefix(s) == Len(s) <= Len(file) /\ \A i \in 1..Len(s) : s[i].id = file[i].id

\* Which entries are in the file, at which point of their append.
Stored ==
  /\ \A i \in 1..Len(file) : call[file[i].id].pc \in {"sized", "cache", "done", "lost"}
  /\ \A e \in Entry : call[e].pc \in {"sized", "cache"} => \E i \in 1..Len(file) : file[i].id = e

\* While an entry is appended to a transcript, no other is: what it found in the
\* cache or read is the file that its line comes behind.
AppendGoesWell(e) ==
  /\ \A f \in Entry : call[e].pc \notin Quiet /\ call[f].pc \notin Quiet => e = f
  /\ call[e].pc \in {"none", "stat", "found", "read"} => call[e].items = <<>>
  /\ call[e].pc \in {"found", "read", "keep"} => call[e].size = Len(file)
  /\ call[e].pc \in {"keep", "write"} => Prefix(call[e].items) /\ Len(call[e].items) = Len(file)
  /\ call[e].pc \in {"sized", "cache"} => /\ Prefix(call[e].items)
                                        /\ Len(file) = Len(call[e].items) + 1
                                        /\ file[Len(file)].id = e
  /\ call[e].pc = "cache" => call[e].size = Len(file)

\* A list finds a size that is not smaller than when it began, and what it reads
\* or finds in the cache is not shorter than the size.
ListGoesWell(r) ==
  /\ call[r].pc \in Quiet \cup {"stat", "found", "read", "keep"}
  /\ call[r].pc \notin Quiet => File
  /\ call[r].pc \in {"none", "stat", "found", "read"} => call[r].items = <<>>
  /\ call[r].pc = "stat" => call[r].from <= Len(file)
  /\ call[r].pc \in {"found", "read"} => call[r].from <= call[r].size /\ call[r].size <= Len(file)
  /\ call[r].pc = "keep" => /\ call[r].from <= call[r].size /\ call[r].size <= Len(call[r].items)
                           /\ Prefix(call[r].items)

CacheBelievable == logCache.valid => Prefix(logCache.items) /\ logCache.size <= Len(logCache.items)

Logging ==
  /\ Stored
  /\ Listed => \A r \in Reader : ListGoesWell(r)
  /\ part = <<"transcript", "file">> => CacheBelievable /\ \A e \in Entry : AppendGoesWell(e)

\* What the steps of reading a log do, by their outcome.
LEMMA GetStep ==
  ASSUME TypeOK, NEW x \in Call, NEW next \in {"done", "write"}, Get(x, next)
  PROVE  /\ UNCHANGED <<part, record, file>>
         /\ \A y \in Call : y # x => call'[y] = call[y]
         /\ call'[x].from = call[x].from
         /\ \/ /\ call[x].pc = "stat" /\ call'[x].pc = "found" /\ logCache' = logCache
               /\ call'[x].size = Len(file) /\ call'[x].items = call[x].items
            \/ /\ call[x].pc = "found" /\ call'[x].pc = next /\ call[x].size = 0
               /\ logCache' = [valid |-> TRUE, size |-> 0, items |-> <<>>]
               /\ call'[x].size = call[x].size /\ call'[x].items = call[x].items
            \/ /\ call[x].pc = "found" /\ call'[x].pc = next /\ logCache' = logCache
               /\ logCache.valid /\ logCache.size = call[x].size
               /\ call'[x].size = call[x].size /\ call'[x].items = logCache.items
            \/ /\ call[x].pc = "found" /\ call'[x].pc = "read" /\ logCache' = logCache
               /\ call'[x].size = call[x].size /\ call'[x].items = call[x].items
            \/ /\ call[x].pc = "read" /\ call'[x].pc = "keep" /\ logCache' = logCache
               /\ call'[x].size = call[x].size /\ call'[x].items = file
            \/ /\ call[x].pc = "keep" /\ call'[x].pc = next
               /\ logCache' = [valid |-> TRUE, size |-> call[x].size, items |-> call[x].items]
               /\ call'[x].size = call[x].size /\ call'[x].items = call[x].items
<1> USE DEF Place
<1>0. call[x] \in CallRec /\ call \in [Call -> CallRec] BY DEF TypeOK
<1>1. UNCHANGED <<part, record, file>> /\ \A y \in Call : y # x => call'[y] = call[y] BY GetFact
<1>2. CASE Stat(x)
  <2>1. call'[x] = [call[x] EXCEPT !.pc = "found", !.size = Len(file)] BY <1>0, <1>2 DEF Stat
  <2>2. QED BY <1>0, <1>1, <1>2, <2>1 DEF Stat, At, logs, CallRec
<1>3. CASE Found(x, next)
  <2>1. CASE call[x].size = 0
    <3>1. Goto(x, next) BY <1>3, <2>1 DEF Found
    <3>2. QED BY <1>1, <1>3, <2>1, <3>1, GotoFact DEF Found, At
  <2>2. CASE call[x].size # 0 /\ Fresh(x)
    <3>1. call'[x] = [call[x] EXCEPT !.pc = next, !.items = logCache.items]
      BY <1>0, <1>3, <2>2 DEF Found
    <3>2. QED BY <1>0, <1>1, <1>3, <2>2, <3>1 DEF Found, At, Fresh, CallRec
  <2>3. CASE call[x].size # 0 /\ ~Fresh(x)
    <3>1. Goto(x, "read") BY <1>3, <2>3 DEF Found
    <3>2. QED BY <1>1, <1>3, <2>3, <3>1, GotoFact DEF Found, At
  <2>4. QED BY <2>1, <2>2, <2>3
<1>4. CASE ReadLines(x)
  <2>1. call'[x] = [call[x] EXCEPT !.items = file, !.pc = "keep"] BY <1>0, <1>4 DEF ReadLines
  <2>2. QED BY <1>0, <1>1, <1>4, <2>1 DEF ReadLines, At, logs, CallRec
<1>5. CASE Keep(x, next)
  <2>1. Goto(x, next) BY <1>5 DEF Keep
  <2>2. QED BY <1>1, <1>5, <2>1, GotoFact DEF Keep, At
<1>6. QED BY <1>2, <1>3, <1>4, <1>5 DEF Get

\* The steps about records touch no log, and while logs are listed no list.
Recording ==
  \/ PublishResult
  \/ \E w \in Write : BeginWrite(w) \/ Rename(w) \/ Upsert(w) \/ SqliteUpsert(w)
  \/ \E x \in Write \cup Reader : Collect(x) \/ Replace(x)
  \/ \E r \in Reader : Find(r) \/ Recheck(r)

SameInLog(x) == /\ call'[x].pc = call[x].pc /\ call'[x].items = call[x].items
                /\ call'[x].size = call[x].size /\ call'[x].from = call[x].from

LEMMA RecordingFact ==
  ASSUME TypeOK, Recording
  PROVE  /\ UNCHANGED <<part, file, logCache>>
         /\ \A e \in Entry : SameInLog(e)
         /\ Listed /\ (\A r \in Reader : ListGoesWell(r)) => \A r \in Reader : SameInLog(r)
<1> USE Apart DEF record, logs, SameInLog
<1>1. CASE PublishResult BY <1>1 DEF PublishResult
<1>2. ASSUME NEW w \in Write, BeginWrite(w) \/ SqliteUpsert(w)
      PROVE  ~Listed /\ UNCHANGED <<part, file, logCache>> /\ \A e \in Entry : SameInLog(e)
  BY <1>2, CrowdedFact DEF BeginWrite, SqliteUpsert, Listed
<1>3. ASSUME NEW w \in Write, Rename(w) \/ Upsert(w)
      PROVE  UNCHANGED <<part, file, logCache>> /\ \A y \in Entry \cup Reader : SameInLog(y)
  BY <1>3 DEF Rename, Upsert, Goto, TypeOK
<1>4. ASSUME NEW x \in Write \cup Reader, Collect(x) \/ Replace(x)
      PROVE  /\ UNCHANGED <<part, file, logCache>> /\ \A y \in Entry \cup Reader : y # x => SameInLog(y)
             /\ call[x].pc \in {"collect", "replace"}
  BY <1>4 DEF Collect, Replace, At, Goto, TypeOK
<1>5. ASSUME NEW r \in Reader, Find(r)
      PROVE  ~Listed /\ UNCHANGED <<part, file, logCache>> /\ \A e \in Entry : SameInLog(e)
  BY <1>5, CrowdedFact DEF Find, Listed, Log
<1>6. ASSUME NEW r \in Reader, Recheck(r)
      PROVE  /\ UNCHANGED <<part, file, logCache>> /\ \A e \in Entry : SameInLog(e)
             /\ call[r].pc = "recheck"
  BY <1>6 DEF Recheck, At, TypeOK
<1>7. \A r \in Reader : ListGoesWell(r) => call[r].pc \notin {"collect", "replace", "recheck"}
  BY DEF ListGoesWell, Quiet
<1>8. QED BY <1>1, <1>2, <1>3, <1>4, <1>5, <1>6, <1>7 DEF Recording

LEMMA LoggingInit == Init => Logging
BY Apart DEF Init, Logging, Stored, ListGoesWell, AppendGoesWell, CacheBelievable, NotBegun,
   NoCache, Quiet, Prefix

\* What BeginAppend, AppendLine, Sized, CacheLine and SqliteAppend change of calls.
LEMMA AppendStep ==
  ASSUME TypeOK, NEW e \in Entry,
         BeginAppend(e) \/ AppendLine(e) \/ Sized(e) \/ CacheLine(e) \/ SqliteAppend(e)
  PROVE  /\ UNCHANGED <<part, record>> /\ \A y \in Call : y # e => call'[y] = call[y]
         /\ call'[e].items = call[e].items
         /\ BeginAppend(e) => /\ call[e].pc = "none" /\ call'[e].pc = "stat"
                              /\ UNCHANGED <<file, logCache>>
         /\ AppendLine(e) => /\ call[e].pc \in {"none", "write"} /\ call'[e].pc \in {"sized", "done"}
                             /\ part[1] = "transcript" => call[e].pc = "write" /\ call'[e].pc = "sized"
                             /\ part[1] \in {"transcript", "events"} /\ logCache' = logCache
         /\ Sized(e) => /\ call[e].pc = "sized" /\ call'[e].pc = "cache"
                        /\ call'[e].size = Len(file) /\ UNCHANGED <<file, logCache>>
         /\ CacheLine(e) => call[e].pc = "cache" /\ call'[e].pc = "done" /\ file' = file
         /\ SqliteAppend(e) => /\ call[e].pc = "none" /\ call'[e].pc = "done"
                               /\ Log /\ ~File /\ logCache' = logCache
<1> USE Apart DEF Place, record, logs, At
<1>0. call[e] \in CallRec /\ e \in Call /\ call \in [Call -> CallRec] BY DEF TypeOK
<1> DEFINE Same == /\ UNCHANGED <<part, record>> /\ \A y \in Call : y # e => call'[y] = call[y]
                   /\ call'[e].items = call[e].items
<1>1. ASSUME BeginAppend(e)
      PROVE  Same /\ call[e].pc = "none" /\ call'[e].pc = "stat" /\ UNCHANGED <<file, logCache>>
  BY <1>1, <1>0, GotoFact DEF BeginAppend
<1>2. ASSUME AppendLine(e)
      PROVE  /\ Same /\ call[e].pc \in {"none", "write"} /\ call'[e].pc \in {"sized", "done"}
             /\ part[1] = "transcript" => call[e].pc = "write" /\ call'[e].pc = "sized"
             /\ part[1] \in {"transcript", "events"} /\ logCache' = logCache
  <2> DEFINE pc == IF part[1] = "events" /\ ~logCache.valid THEN "done" ELSE "sized"
  <2>1. Goto(e, pc) /\ pc \in {"sized", "done"} /\ (part[1] = "transcript" => pc = "sized")
    BY <1>2 DEF AppendLine
  <2> HIDE DEF pc
  <2>2. call'[e].pc = pc /\ call'[e].items = call[e].items /\ \A y \in Call \ {e} : call'[y] = call[y]
    BY <2>1, GotoFact
  <2>3. QED BY <1>2, <2>1, <2>2 DEF AppendLine, EventFile
<1>3. ASSUME Sized(e)
      PROVE  /\ Same /\ call[e].pc = "sized" /\ call'[e].pc = "cache"
             /\ call'[e].size = Len(file) /\ UNCHANGED <<file, logCache>>
  <2>1. call'[e] = [call[e] EXCEPT !.size = Len(file), !.pc = "cache"]
        /\ \A y \in Call : y # e => call'[y] = call[y]
    BY <1>0, <1>3 DEF Sized
  <2>2. QED BY <1>0, <1>3, <2>1 DEF Sized, CallRec
<1>4. ASSUME CacheLine(e)
      PROVE  Same /\ call[e].pc = "cache" /\ call'[e].pc = "done" /\ file' = file
  <2>1. Goto(e, "done") BY <1>4 DEF CacheLine
  <2>2. call'[e].pc = "done" /\ call'[e].items = call[e].items /\ \A y \in Call \ {e} : call'[y] = call[y]
    BY <2>1, GotoFact
  <2>3. QED BY <1>4, <2>2 DEF CacheLine
<1>5. ASSUME SqliteAppend(e)
      PROVE  Same /\ call[e].pc = "none" /\ call'[e].pc = "done" /\ Log /\ ~File /\ logCache' = logCache
  <2>1. Goto(e, "done") BY <1>5 DEF SqliteAppend
  <2>2. call'[e].pc = "done" /\ call'[e].items = call[e].items /\ \A y \in Call \ {e} : call'[y] = call[y]
    BY <2>1, GotoFact
  <2>3. QED BY <1>5, <2>2 DEF SqliteAppend
<1>6. QED BY <1>1, <1>2, <1>3, <1>4, <1>5

\* A line goes behind those of the file.
LEMMA LineAppended ==
  ASSUME TypeOK, NEW e \in Entry, AppendLine(e) \/ SqliteAppend(e)
  PROVE  /\ file' \in Seq(Line) /\ Len(file') = Len(file) + 1
         /\ \A i \in 1..Len(file) : file'[i] = file[i]
         /\ file'[Len(file) + 1].id = e
         /\ \E l \in Line : l.id = e /\ file' = Append(file, l)
<1>1. PICK n \in Nat : file' = Append(file, [id |-> e, number |-> n])
  <2>1. call[e].items \in Seq(Line) /\ file \in Seq(Line) BY Apart DEF TypeOK, CallRec
  <2>2. NextNumber(call[e].items) \in Nat /\ NextNumber(file) \in Nat BY <2>1, NumberFact
  <2>3. QED BY <2>2 DEF AppendLine, SqliteAppend
<1>2. [id |-> e, number |-> n] \in Line BY DEF Line
<1>3. QED BY <1>1, <1>2, AppendProperties DEF TypeOK

LEMMA StoredNext == TypeOK /\ Logging /\ [Next]_vars => Stored'
<1> SUFFICES ASSUME TypeOK, Logging, [Next]_vars PROVE Stored' OBVIOUS
<1> USE Apart
<1>0. Stored /\ file \in Seq(Line) /\ (\A i \in 1..Len(file) : file[i].id \in Entry)
  <2>1. Stored /\ file \in Seq(Line) BY DEF TypeOK, Logging
  <2>2. \A i \in 1..Len(file) : file[i] \in Line BY <2>1, ElementOfSeq
  <2>3. QED BY <2>1, <2>2 DEF Line
<1>1. CASE Restart
  <2>1. \A x \in Call : call'[x].pc = IF call[x].pc \in {"none", "done"} THEN call[x].pc ELSE "lost"
    BY <1>1 DEF Restart, TypeOK, CallRec
  <2>2. file' = file BY <1>1 DEF Restart
  <2>3. QED BY <1>0, <2>1, <2>2 DEF Stored
<1>2. CASE Recording
  <2>1. file' = file /\ \A e \in Entry : call'[e].pc = call[e].pc
    BY <1>2, RecordingFact DEF SameInLog
  <2>2. QED BY <1>0, <2>1 DEF Stored
<1>3. ASSUME NEW r \in Reader, Listing(r) PROVE Stored'
  <2>1. file' = file /\ \A e \in Entry : call'[e] = call[e]
    <3>1. CASE Get(r, "done") BY <3>1, GetFact
    <3>2. CASE BeginList(r) \/ SqliteList(r)
      BY <3>2 DEF BeginList, SqliteList, TypeOK, logs
    <3>3. QED BY <1>3, <3>1, <3>2 DEF Listing
  <2>2. QED BY <1>0, <2>1 DEF Stored
<1>4. ASSUME NEW e \in Entry, Appending(e) PROVE Stored'
  <2>1. CASE Get(e, "write")
    <3>1. /\ file' = file /\ \A f \in Entry : f # e => call'[f] = call[f]
          /\ call[e].pc \in {"stat", "found", "read", "keep"}
          /\ call'[e].pc \in {"found", "read", "keep", "write"}
      BY <2>1, GetStep
    <3>2. QED BY <1>0, <3>1 DEF Stored
  <2>2. CASE BeginAppend(e) \/ Sized(e) \/ CacheLine(e)
    <3>1. /\ file' = file /\ \A f \in Entry : f # e => call'[f] = call[f]
          /\ \/ call[e].pc = "none" /\ call'[e].pc = "stat"
             \/ call[e].pc = "sized" /\ call'[e].pc = "cache"
             \/ call[e].pc = "cache" /\ call'[e].pc = "done"
      BY <2>2, AppendStep
    <3>2. QED BY <1>0, <3>1 DEF Stored
  <2>3. CASE AppendLine(e) \/ SqliteAppend(e)
    <3>1. /\ \A f \in Entry : f # e => call'[f] = call[f]
          /\ call[e].pc \in {"none", "write"} /\ call'[e].pc \in {"sized", "done"}
      BY <2>3, AppendStep
    <3>2. Len(file') \in 1..Len(file') /\ 1..Len(file') = 1..Len(file) \cup {Len(file) + 1}
          /\ Len(file) + 1 = Len(file')
      BY <2>3, <1>0, LineAppended, LenProperties
    <3>3. QED BY <1>0, <2>3, <3>1, <3>2, LineAppended DEF Stored
  <2>4. QED BY <1>4, <2>1, <2>2, <2>3 DEF Appending
<1>5. CASE UNCHANGED vars BY <1>0, <1>5 DEF vars, logs, Stored
<1>6. QED BY <1>1, <1>2, <1>3, <1>4, <1>5 DEF Next, Recording, Listing, Appending

\* What s holds stays a prefix when the file grows at its end.
LEMMA PrefixGrows ==
  ASSUME NEW s \in Seq(Line), Prefix(s), file \in Seq(Line), file' \in Seq(Line),
         Len(file') >= Len(file), \A i \in 1..Len(file) : file'[i] = file[i],
         NEW t \in Seq(Line), t = s
  PROVE  Len(t) <= Len(file') /\ \A i \in 1..Len(t) : t[i].id = file'[i].id
<1>1. Len(s) \in Nat /\ Len(file) \in Nat /\ Len(file') \in Nat BY LenProperties
<1>2. QED BY <1>1 DEF Prefix

\* What goes on with a log whoever goes on: its file grows at its end, if at all.
LEMMA FileGrows ==
  ASSUME TypeOK, [Next]_vars
  PROVE  /\ part' = part /\ file' \in Seq(Line) /\ Len(file') >= Len(file)
         /\ \A i \in 1..Len(file) : file'[i] = file[i]
<1>0. file \in Seq(Line) /\ Len(file) \in Nat BY LenProperties DEF TypeOK
<1> USE Apart
<1>1. ASSUME part' = part, file' = file
      PROVE  /\ part' = part /\ file' \in Seq(Line) /\ Len(file') >= Len(file)
             /\ \A i \in 1..Len(file) : file'[i] = file[i]
  BY <1>0, <1>1
<1>2. CASE Restart BY <1>1, <1>2 DEF Restart
<1>3. CASE Recording BY <1>1, <1>3, RecordingFact
<1>4. ASSUME NEW r \in Reader, Listing(r) PROVE part' = part /\ file' = file
  BY <1>4, GetFact DEF Listing, BeginList, SqliteList, logs
<1>5. ASSUME NEW e \in Entry, Get(e, "write") \/ BeginAppend(e) \/ Sized(e) \/ CacheLine(e)
      PROVE  part' = part /\ file' = file
  BY <1>5, GetFact, AppendStep
<1>6. ASSUME NEW e \in Entry, AppendLine(e) \/ SqliteAppend(e)
      PROVE  /\ part' = part /\ file' \in Seq(Line) /\ Len(file') >= Len(file)
             /\ \A i \in 1..Len(file) : file'[i] = file[i]
  BY <1>0, <1>6, AppendStep, LineAppended
<1>7. CASE UNCHANGED vars BY <1>1, <1>7 DEF vars, logs
<1>8. QED BY <1>1, <1>2, <1>3, <1>4, <1>5, <1>6, <1>7 DEF Next, Recording, Listing, Appending

\* A list that another call leaves alone goes well still.
LEMMA ListSame ==
  ASSUME TypeOK, [Next]_vars, NEW r \in Reader, ListGoesWell(r), SameInLog(r)
  PROVE  ListGoesWell(r)'
<1>0. call[r] \in CallRec /\ file \in Seq(Line) /\ call[r].items \in Seq(Line)
  BY Apart DEF TypeOK, CallRec
<1>1. Len(file) \in Nat /\ Len(file') \in Nat /\ Len(call[r].items) \in Nat
      /\ call[r].from \in Nat /\ call[r].size \in Nat
  BY <1>0, FileGrows, LenProperties DEF CallRec
<1>2. Prefix(call[r].items) => Prefix(call[r].items)'
  <2> SUFFICES ASSUME Prefix(call[r].items) PROVE Prefix(call[r].items)' OBVIOUS
  <2>1. call'[r].items = call[r].items BY DEF SameInLog
  <2>2. QED BY <1>0, <2>1, FileGrows, PrefixGrows DEF Prefix
<1>3. Len(file) <= Len(file') BY FileGrows, <1>1
<1>4. QED BY <1>1, <1>2, <1>3, FileGrows DEF ListGoesWell, SameInLog, File

LEMMA ListsNext ==
  ASSUME TypeOK, Logging, [Next]_vars, Listed, NEW r \in Reader
  PROVE  ListGoesWell(r)'
<1> USE Apart
<1>0. ListGoesWell(r) /\ (\A x \in Reader : ListGoesWell(x)) BY DEF Logging
<1>1. CASE SameInLog(r) BY <1>0, <1>1, ListSame
<1>2. CASE Restart
  <2>1. \/ call[r].pc \in {"none", "done"} /\ call'[r] = call[r]
        \/ call'[r].pc = "lost"
    BY <1>2 DEF Restart, TypeOK, CallRec
  <2>2. CASE call'[r].pc = "lost" BY <2>2 DEF ListGoesWell, Quiet
  <2>3. QED BY <1>1, <2>1, <2>2 DEF SameInLog
<1>3. CASE Recording BY <1>0, <1>1, <1>3, RecordingFact
<1>4. ASSUME NEW x \in Reader, Listing(x), x # r PROVE SameInLog(r)
  <2>1. CASE Get(x, "done") BY <1>4, <2>1, GetFact DEF SameInLog
  <2>2. CASE BeginList(x) \/ SqliteList(x)
    BY <1>4, <2>2 DEF BeginList, SqliteList, TypeOK, SameInLog
  <2>3. QED BY <1>4, <2>1, <2>2 DEF Listing
<1>5. ASSUME NEW e \in Entry, Appending(e) PROVE SameInLog(r)
  BY <1>5, GetFact, AppendStep DEF Appending, SameInLog
<1>6. CASE UNCHANGED vars BY <1>1, <1>6 DEF vars, SameInLog
<1>7. CASE Listing(r)
  <2>0. /\ call[r] \in CallRec /\ call \in [Call -> CallRec]
        /\ file \in Seq(Line) /\ Len(file) \in Nat
    BY LenProperties DEF TypeOK
  <2>1. CASE BeginList(r)
    <3>1. /\ call'[r] = [call[r] EXCEPT !.pc = "stat", !.before = Finished(Entry), !.from = Len(file)]
          /\ file' = file /\ call[r].pc = "none" /\ part' = part /\ File
      BY <2>0, <2>1 DEF BeginList, At, logs
    <3>2. call'[r].pc = "stat" /\ call'[r].from = Len(file) /\ call'[r].items = call[r].items
      BY <2>0, <3>1 DEF CallRec
    <3>3. QED BY <1>0, <2>0, <3>1, <3>2 DEF ListGoesWell, File
  <2>2. CASE SqliteList(r)
    <3>1. call'[r] = [call[r] EXCEPT !.pc = "done", !.before = Finished(Entry),
                                     !.from = Len(file), !.items = file]
      BY <2>0, <2>2 DEF SqliteList
    <3>2. call'[r].pc = "done" BY <2>0, <3>1 DEF CallRec
    <3>3. QED BY <3>2 DEF ListGoesWell, Quiet
  <2>3. CASE Get(r, "done")
    <3>1. file' = file /\ part' = part BY <2>3, GetFact
    <3>2. call[r].from \in Nat /\ call[r].size \in Nat BY <2>0 DEF CallRec
    <3>3. Prefix(file) BY <2>0 DEF Prefix
    <3>4. QED BY <1>0, <2>0, <2>3, <3>1, <3>2, <3>3, GetStep DEF ListGoesWell, Quiet, Prefix, File
  <2>4. QED BY <1>7, <2>1, <2>2, <2>3 DEF Listing
<1>8. QED BY <1>1, <1>2, <1>3, <1>4, <1>5, <1>6, <1>7 DEF Next, Recording, Listing, Appending

Transcript == part = <<"transcript", "file">>

\* A call that leaves the file alone, and the cache believable, and the appends.
LEMMA TranscriptSame ==
  ASSUME Logging, Transcript, part' = part, file' = file,
         logCache' = logCache, \A e \in Entry : SameInLog(e)
  PROVE  CacheBelievable' /\ \A e \in Entry : AppendGoesWell(e)'
<1>0. CacheBelievable /\ \A e \in Entry : AppendGoesWell(e)
  BY DEF Logging, Transcript
<1>1. CacheBelievable' BY <1>0 DEF CacheBelievable, Prefix
<1>2. \A e \in Entry : AppendGoesWell(e)'
  <2>1. TAKE e \in Entry
  <2>2. \A f \in Entry : call'[f].pc = call[f].pc BY DEF SameInLog
  <2>3. \A f \in Entry : call'[e].pc \notin Quiet /\ call'[f].pc \notin Quiet => e = f
    BY <1>0, <2>2 DEF AppendGoesWell
  <2>4. /\ call'[e].items = call[e].items /\ call'[e].size = call[e].size
        /\ call'[e].pc = call[e].pc BY DEF SameInLog
  <2>5. AppendGoesWell(e) BY <1>0
  <2>6. QED BY <2>3, <2>4, <2>5 DEF AppendGoesWell, Prefix
<1>3. QED BY <1>1, <1>2

LEMMA TranscriptNext ==
  ASSUME TypeOK, Logging, [Next]_vars, Transcript
  PROVE  CacheBelievable' /\ \A e \in Entry : AppendGoesWell(e)'
<1> USE Apart
<1>0. /\ CacheBelievable /\ \A e \in Entry : AppendGoesWell(e)
      /\ \A r \in Reader : ListGoesWell(r)
      /\ Log /\ File /\ ~EventFile /\ part[1] = "transcript"
  BY DEF Logging, Transcript, Listed, Log, EventFile, File
<1>t. /\ call \in [Call -> CallRec] /\ file \in Seq(Line) /\ Len(file) \in Nat
      /\ logCache.items \in Seq(Line) /\ Len(logCache.items) \in Nat /\ logCache.size \in Nat
      /\ \A x \in Call : /\ call[x].size \in Nat /\ call[x].items \in Seq(Line)
                         /\ Len(call[x].items) \in Nat
  BY LenProperties DEF TypeOK, CallRec
<1>1. CASE Restart
  <2>1. \A e \in Entry : \/ (call[e].pc \in {"none", "done"} /\ call'[e] = call[e])
                          \/ call'[e].pc = "lost"
    BY <1>1 DEF Restart, TypeOK, CallRec
  <2>2. file' = file /\ ~logCache'.valid BY <1>1 DEF Restart, NoCache
  <2>3. QED BY <1>0, <2>1, <2>2 DEF CacheBelievable, AppendGoesWell, Quiet
<1>2. CASE Recording BY <1>2, RecordingFact, TranscriptSame
<1>3. ASSUME NEW r \in Reader, Listing(r)
      PROVE  CacheBelievable' /\ \A e \in Entry : AppendGoesWell(e)'
  <2>1. CASE BeginList(r) \/ SqliteList(r)
    <3>1. part' = part /\ file' = file /\ logCache' = logCache /\ \A e \in Entry : call'[e] = call[e]
      BY <1>t, <2>1 DEF BeginList, SqliteList, logs
    <3>2. QED BY <3>1, TranscriptSame DEF SameInLog
  <2>2. CASE Get(r, "done")
    <3>1. part' = part /\ file' = file /\ \A e \in Entry : call'[e] = call[e] BY <2>2, GetFact
    <3>2. ASSUME NEW e \in Entry PROVE AppendGoesWell(e)'
      <4>1. \A f \in Entry : call'[e].pc \notin Quiet /\ call'[f].pc \notin Quiet => e = f
        BY <1>0, <3>1 DEF AppendGoesWell
      <4>2. AppendGoesWell(e) /\ call'[e] = call[e] BY <1>0, <3>1
      <4>3. QED BY <3>1, <4>1, <4>2 DEF AppendGoesWell, Prefix
    <3>3. CacheBelievable'
      <4>1. \/ logCache' = logCache
            \/ logCache' = [valid |-> TRUE, size |-> 0, items |-> <<>>]
            \/ /\ call[r].pc = "keep"
               /\ logCache' = [valid |-> TRUE, size |-> call[r].size, items |-> call[r].items]
        BY <2>2, GetStep
      <4>2. QED BY <1>0, <1>t, <3>1, <4>1 DEF CacheBelievable, ListGoesWell, Prefix
    <3>4. QED BY <3>2, <3>3
  <2>3. QED BY <1>3, <2>1, <2>2 DEF Listing
<1>4. ASSUME NEW e \in Entry, Appending(e)
      PROVE  CacheBelievable' /\ \A f \in Entry : AppendGoesWell(f)'
  <2>0. AppendGoesWell(e) BY <1>0
  <2>1. ASSUME \A f \in Entry : f # e => call'[f] = call[f] /\ call[f].pc \in Quiet,
               \/ file' = file
               \/ call[e].pc = "write" /\ call'[e].pc = "sized"
        PROVE  \A f \in Entry : f # e => AppendGoesWell(f)'
    <3>1. \A f \in Entry : f # e => call[f].pc \in Quiet /\ call'[f].pc = call[f].pc
                                  /\ call'[f].items = call[f].items
      BY <2>1
    <3>2. QED BY <1>0, <3>1 DEF AppendGoesWell, Quiet
  <2>2. CASE Get(e, "write")
    <3>1. part' = part /\ file' = file /\ \A f \in Entry : f # e => call'[f] = call[f]
      BY <2>2, GetFact
    <3>2. call[e].pc \in {"stat", "found", "read", "keep"} BY <2>2, GetStep
    <3>3. \A f \in Entry : f # e => call[f].pc \in Quiet BY <1>0, <3>2 DEF AppendGoesWell, Quiet
    <3>4. \A f \in Entry : f # e => AppendGoesWell(f)' BY <2>1, <3>1, <3>3
    <3>5. Prefix(file) BY <1>t DEF Prefix
    <3>6. AppendGoesWell(e)' /\ CacheBelievable'
      <4>1. CASE call[e].pc = "stat"
        BY <1>0, <2>0, <2>2, <3>1, <3>3, <4>1, GetStep
        DEF AppendGoesWell, CacheBelievable, Prefix, Quiet
      <4>2. CASE call[e].pc = "found"
        <5>1. call[e].size = Len(file) /\ call[e].items = <<>> BY <2>0, <4>2 DEF AppendGoesWell
        <5>2. CASE call'[e].pc = "read"
          BY <1>0, <2>2, <3>1, <3>3, <4>2, <5>1, <5>2, GetStep
          DEF AppendGoesWell, CacheBelievable, Prefix, Quiet
        <5>3. CASE /\ call'[e].pc = "write" /\ call[e].size = 0 /\ call'[e].items = call[e].items
                   /\ logCache' = [valid |-> TRUE, size |-> 0, items |-> <<>>]
          BY <1>t, <3>1, <3>3, <5>1, <5>3 DEF AppendGoesWell, CacheBelievable, Prefix, Quiet
        <5>4. CASE /\ call'[e].pc = "write" /\ logCache.valid /\ logCache.size = call[e].size
                   /\ logCache' = logCache /\ call'[e].items = logCache.items
          BY <1>0, <1>t, <3>1, <3>3, <5>1, <5>4 DEF AppendGoesWell, CacheBelievable, Prefix, Quiet
        <5>5. QED BY <2>2, <4>2, <5>2, <5>3, <5>4, GetStep
      <4>3. CASE call[e].pc = "read"
        BY <1>0, <2>0, <2>2, <3>1, <3>3, <3>5, <4>3, GetStep
        DEF AppendGoesWell, CacheBelievable, Prefix, Quiet
      <4>4. CASE call[e].pc = "keep"
        BY <1>0, <1>t, <2>0, <2>2, <3>1, <3>3, <4>4, GetStep
        DEF AppendGoesWell, CacheBelievable, Prefix, Quiet
      <4>5. QED BY <3>2, <4>1, <4>2, <4>3, <4>4
    <3>7. QED BY <3>4, <3>6
  <2>3. CASE BeginAppend(e)
    <3>1. /\ part' = part /\ file' = file /\ logCache' = logCache
          /\ call[e].pc = "none" /\ call'[e].pc = "stat" /\ call'[e].items = call[e].items
          /\ \A f \in Entry : f # e => call'[f] = call[f] /\ call[f].pc \in Quiet
      BY <2>3, AppendStep DEF BeginAppend, Chained, At, Quiet
    <3>2. AppendGoesWell(e)' BY <2>0, <3>1 DEF AppendGoesWell, Quiet
    <3>3. CacheBelievable' BY <1>0, <3>1 DEF CacheBelievable, Prefix
    <3>4. QED BY <2>1, <3>1, <3>2, <3>3
  <2>4. CASE AppendLine(e)
    <3>1. /\ part' = part /\ logCache' = logCache
          /\ call[e].pc = "write" /\ call'[e].pc = "sized" /\ call'[e].items = call[e].items
          /\ \A f \in Entry : f # e => call'[f] = call[f]
      BY <1>0, <2>4, AppendStep
    <3>2. \A f \in Entry : f # e => call[f].pc \in Quiet BY <1>0, <3>1 DEF AppendGoesWell, Quiet
    <3>3. /\ Len(file') = Len(file) + 1 /\ file'[Len(file) + 1].id = e
          /\ \A i \in 1..Len(file) : file'[i] = file[i]
      BY <2>4, LineAppended
    <3>4. AppendGoesWell(e)'
      BY <1>t, <2>0, <3>1, <3>2, <3>3 DEF AppendGoesWell, Quiet, Prefix
    <3>5. CacheBelievable' BY <1>0, <1>t, <3>1, <3>3 DEF CacheBelievable, Prefix
    <3>6. QED BY <2>1, <3>1, <3>2, <3>4, <3>5
  <2>5. CASE Sized(e)
    <3>1. /\ part' = part /\ file' = file /\ logCache' = logCache /\ call'[e].size = Len(file)
          /\ call[e].pc = "sized" /\ call'[e].pc = "cache" /\ call'[e].items = call[e].items
          /\ \A f \in Entry : f # e => call'[f] = call[f]
      BY <2>5, AppendStep
    <3>2. \A f \in Entry : f # e => call[f].pc \in Quiet BY <1>0, <3>1 DEF AppendGoesWell, Quiet
    <3>3. AppendGoesWell(e)' BY <2>0, <3>1, <3>2 DEF AppendGoesWell, Quiet, Prefix
    <3>4. CacheBelievable' BY <1>0, <3>1 DEF CacheBelievable, Prefix
    <3>5. QED BY <2>1, <3>1, <3>2, <3>3, <3>4
  <2>6. CASE CacheLine(e)
    <3>1. /\ part' = part /\ file' = file /\ call[e].pc = "cache" /\ call'[e].pc = "done"
          /\ \A f \in Entry : f # e => call'[f] = call[f]
      BY <2>6, AppendStep
    <3>2. \A f \in Entry : f # e => call[f].pc \in Quiet BY <1>0, <3>1 DEF AppendGoesWell, Quiet
    <3>3. AppendGoesWell(e)' BY <3>1, <3>2 DEF AppendGoesWell, Quiet
    <3>4. CacheBelievable'
      <4> DEFINE line == CHOOSE l \in {file[i] : i \in DOMAIN file} : l.id = e
      <4>1. /\ Prefix(call[e].items) /\ Len(file) = Len(call[e].items) + 1
            /\ file[Len(file)].id = e /\ call[e].size = Len(file)
        BY <2>0, <3>1 DEF AppendGoesWell
      <4>2. Len(file) \in DOMAIN file BY <1>t, <4>1, LenProperties
      <4>3. line \in Line /\ line.id = e BY <4>1, <4>2, LineFact
      <4>4. logCache' = [valid |-> TRUE, size |-> call[e].size, items |-> Append(call[e].items, line)]
        BY <1>0, <2>6 DEF CacheLine
      <4> HIDE DEF line
      <4>5. /\ Len(Append(call[e].items, line)) = Len(call[e].items) + 1
            /\ \A i \in 1..Len(call[e].items) : Append(call[e].items, line)[i] = call[e].items[i]
            /\ Append(call[e].items, line)[Len(call[e].items) + 1] = line
        BY <1>t, <4>3, AppendProperties
      <4>6. QED BY <1>t, <3>1, <4>1, <4>3, <4>4, <4>5 DEF CacheBelievable, Prefix
    <3>5. QED BY <2>1, <3>1, <3>2, <3>3, <3>4
  <2>7. ~SqliteAppend(e) BY <1>0 DEF SqliteAppend
  <2>8. QED BY <1>4, <2>2, <2>3, <2>4, <2>5, <2>6, <2>7 DEF Appending
<1>5. CASE UNCHANGED vars BY <1>5, TranscriptSame DEF vars, logs, SameInLog
<1>6. QED BY <1>1, <1>2, <1>3, <1>4, <1>5 DEF Next, Recording, Listing, Appending

LEMMA LoggingNext == TypeOK /\ Logging /\ [Next]_vars => Logging'
<1> SUFFICES ASSUME TypeOK, Logging, [Next]_vars PROVE Logging' OBVIOUS
<1>1. part' = part BY FileGrows
<1>2. QED BY <1>1, StoredNext, ListsNext, TranscriptNext
          DEF Logging, Transcript, Listed, Log, EventFile

-----------------------------------------------------------------------------
(* The theorems *)

IndInv == TypeOK /\ Order /\ Finding /\ Logging

LEMMA TypeNext == TypeOK /\ Logging /\ [Next]_vars => TypeOK'
<1> SUFFICES ASSUME TypeOK, Logging, [Next]_vars PROVE TypeOK' OBVIOUS
<1>1. CASE Restart \/ Recording BY <1>1, TypeRecords DEF Recording
<1>2. ASSUME NEW r \in Reader, Listing(r) PROVE TypeOK' BY <1>2, TypeListing
<1>3. ASSUME NEW e \in Entry, Appending(e) PROVE TypeOK'
  <2>1. DOMAIN file = 1..Len(file) BY LenProperties DEF TypeOK
  <2>2. At(e, "cache") => \E k \in DOMAIN file : file[k].id = e
    BY <2>1 DEF Logging, Stored, At
  <2>3. QED BY <1>3, <2>2, TypeAppending
<1>4. CASE UNCHANGED vars
  BY <1>4 DEF vars, record, logs, TypeOK
<1>5. QED BY <1>1, <1>2, <1>3, <1>4 DEF Next, Recording, Listing, Appending

\* What the store and the calls under way hold fits together: the types, Order,
\* Finding and Logging hold of every reachable state.
THEOREM Invariance == Spec => []IndInv
<1>1. Init => IndInv BY TypeInit, OrderInit, FindingInit, LoggingInit DEF IndInv
<1>2. IndInv /\ [Next]_vars => IndInv'
  BY TypeNext, OrderNext, FindingNext, LoggingNext DEF IndInv
<1>3. QED BY <1>1, <1>2, PTL DEF Spec

\* No write of a record that another one followed is seen again, in the cache or
\* after a restart (safeWriteFile's rename before the cache is updated).
THEOREM UpdatesKept == Spec => []NoLostUpdate
<1>1. IndInv => NoLostUpdate
  BY Apart DEF IndInv, Order, NoLostUpdate, Finished
<1>2. QED BY <1>1, Invariance, PTL

\* A find that overlaps no other call finds the artifact that was stored before it
\* (findArtifactReference rebuilds the index, and looks again).
THEOREM ArtifactsFound == Spec => []ArtifactFound
<1>1. IndInv => ArtifactFound
  BY DEF IndInv, Finding, FindGoesWell, ArtifactFound, Finished
<1>2. QED BY <1>1, Invariance, PTL

-----------------------------------------------------------------------------
(* The refinement of AppendLog *)

LEMMA IdsFact ==
  ASSUME NEW s \in Seq(Line)
  PROVE  /\ Ids(s) \in Seq(Entry) /\ Len(Ids(s)) = Len(s) /\ DOMAIN Ids(s) = 1..Len(s)
         /\ \A i \in 1..Len(s) : Ids(s)[i] = s[i].id /\ s[i].id \in Entry
<1>1. DOMAIN s = 1..Len(s) /\ Len(s) \in Nat /\ \A i \in 1..Len(s) : s[i] \in Line
  BY LenProperties, ElementOfSeq
<1>2. \A i \in 1..Len(s) : s[i].id \in Entry BY <1>1 DEF Line
<1>3. Ids(s) \in [1..Len(s) -> Entry] BY <1>1, <1>2 DEF Ids
<1>4. Ids(s) \in Seq(Entry) /\ Len(Ids(s)) = Len(s) BY <1>1, <1>3, IsASeq, LenProperties
<1>5. QED BY <1>1, <1>2, <1>3, <1>4 DEF Ids

LEMMA IdsAppend ==
  ASSUME NEW s \in Seq(Line), NEW l \in Line
  PROVE  Ids(Append(s, l)) = Append(Ids(s), l.id)
<1>1. Append(s, l) \in Seq(Line) /\ l.id \in Entry BY AppendProperties DEF Line
<1>2. Ids(Append(s, l)) \in Seq(Entry) /\ Append(Ids(s), l.id) \in Seq(Entry)
  BY <1>1, IdsFact, AppendProperties
<1>3. Len(Ids(Append(s, l))) = Len(s) + 1 /\ Len(Append(Ids(s), l.id)) = Len(s) + 1
  <2>1. Ids(s) \in Seq(Entry) /\ Len(Ids(s)) = Len(s) BY IdsFact
  <2>2. Len(Append(Ids(s), l.id)) = Len(s) + 1 BY <1>1, <2>1, AppendProperties
  <2>3. Len(Ids(Append(s, l))) = Len(Append(s, l)) BY <1>1, IdsFact
  <2>4. Len(Append(s, l)) = Len(s) + 1 BY AppendProperties
  <2>5. QED BY <2>2, <2>3, <2>4
<1>4. ASSUME NEW i \in 1..Len(s) + 1
      PROVE  Ids(Append(s, l))[i] = Append(Ids(s), l.id)[i]
  <2>0. Ids(s) \in Seq(Entry) /\ Len(Ids(s)) = Len(s) BY IdsFact
  <2>1. Len(s) \in Nat BY LenProperties
  <2>2. Len(Append(s, l)) = Len(s) + 1 BY AppendProperties
  <2>3. Ids(Append(s, l))[i] = Append(s, l)[i].id BY <1>1, <2>2, IdsFact
  <2>4. CASE i \in 1..Len(s)
    <3>1. Append(s, l)[i] = s[i] BY <2>4, AppendProperties
    <3>2. Append(Ids(s), l.id)[i] = Ids(s)[i] BY <1>1, <2>0, <2>4, AppendProperties
    <3>3. QED BY <2>3, <2>4, <3>1, <3>2, IdsFact
  <2>5. CASE i = Len(s) + 1
    <3>1. Append(s, l)[i] = l BY <2>5, AppendProperties
    <3>2. Append(Ids(s), l.id)[i] = l.id BY <1>1, <2>0, <2>5, AppendProperties
    <3>3. QED BY <2>3, <3>1, <3>2
  <2>6. i \in 1..Len(s) \/ i = Len(s) + 1 BY <2>1
  <2>7. QED BY <2>4, <2>5, <2>6
<1>5. QED BY <1>2, <1>3, <1>4, SeqEqual

\* A prefix of the file is one of the log.
LEMMA IdsPrefix ==
  ASSUME NEW s \in Seq(Line), file \in Seq(Line), Prefix(s)
  PROVE  Ids(s) = SubSeq(Ids(file), 1, Len(s))
<1>1. Len(s) \in Nat /\ Len(file) \in Nat /\ Len(s) <= Len(file) BY LenProperties DEF Prefix
<1>2. Ids(file) \in Seq(Entry) /\ Len(Ids(file)) = Len(file) BY IdsFact
<1>3. \A i \in 1..Len(s) : Ids(file)[i] \in Entry BY <1>1, <1>2, IdsFact
<1>4. /\ SubSeq(Ids(file), 1, Len(s)) \in Seq(Entry)
      /\ Len(SubSeq(Ids(file), 1, Len(s))) = Len(s)
      /\ \A i \in 1..Len(s) : SubSeq(Ids(file), 1, Len(s))[i] = Ids(file)[i]
  BY <1>1, <1>2, <1>3, SubSeqProperties
<1>5. \A i \in 1..Len(s) : Ids(s)[i] = Ids(file)[i] BY <1>1, IdsFact DEF Prefix
<1>6. QED BY <1>4, <1>5, IdsFact, SeqEqual

\* What a list is in AppendLog, by what it is at.
LEMMA ShownFact ==
  ASSUME NEW r \in Reader
  PROVE  /\ ~Listed => Shown(r) = [state |-> "none", from |-> 0, shows |-> <<>>]
         /\ Listed /\ call[r].pc = "none"
              => Shown(r) = [state |-> "none", from |-> call[r].from, shows |-> <<>>]
         /\ Listed /\ call[r].pc = "done"
              => Shown(r) = [state |-> "shown", from |-> call[r].from, shows |-> Ids(call[r].items)]
         /\ Listed /\ call[r].pc = "lost"
              => Shown(r) = [state |-> "aborted", from |-> call[r].from, shows |-> <<>>]
         /\ Listed /\ call[r].pc \notin Quiet
              => Shown(r) = [state |-> "begun", from |-> call[r].from, shows |-> <<>>]
BY DEF Shown, At, Quiet

\* A list of which neither this nor where it began nor what it shows changes is
\* one that does not change in AppendLog.
LEMMA ShownSame ==
  ASSUME part' = part, NEW r \in Reader, ~Listed \/ SameInLog(r)
  PROVE  Shown(r)' = Shown(r)
BY DEF Shown, SameInLog, At, Listed, Log, EventFile, Ids

lists == [r \in Reader |-> Shown(r)]

\* A step of which the log and no list shows anything is none of AppendLog.
LEMMA Stutter ==
  ASSUME part' = part, file' = file, ~Listed \/ \A r \in Reader : SameInLog(r)
  PROVE  UNCHANGED <<Ids(file), lists>>
BY ShownSame DEF lists, Ids

LEMMA InitRefined == Init => ALog!Init
BY Apart DEF Init, ALog!Init, Shown, At, NotBegun, Ids

\* A list that comes to its end shows a prefix of the log, not shorter than the
\* log was when it began.
LEMMA ShowRefined ==
  ASSUME TypeOK, TypeOK', Listed, part' = part, file' = file, NEW r \in Reader,
         \A x \in Reader : x # r => SameInLog(x),
         call[r].pc \notin {"done", "lost"}, call'[r].pc = "done",
         call'[r].from = IF call[r].pc = "none" THEN Len(file) ELSE call[r].from,
         Prefix(call'[r].items), call'[r].from <= Len(call'[r].items)
  PROVE  ALog!Show(r)
<1> DEFINE from == call'[r].from
           got == call'[r].items
           n == Len(got)
<1>1. got \in Seq(Line) /\ from \in Nat /\ file \in Seq(Line) BY Apart DEF TypeOK, CallRec
<1>2. n \in Nat /\ n <= Len(file) /\ Len(file) \in Nat /\ Len(Ids(file)) = Len(file)
  BY <1>1, LenProperties, IdsFact DEF Prefix
<1>3. Ids(got) = SubSeq(Ids(file), 1, n) BY <1>1, IdsPrefix
<1>4. Shown(r)' = [state |-> "shown", from |-> from, shows |-> SubSeq(Ids(file), 1, n)]
  <2>1. Listed' BY DEF Listed, Log, EventFile
  <2>2. Shown(r)' = [state |-> "shown", from |-> from, shows |-> Ids(got)]
    BY <2>1 DEF Shown, At, Ids
  <2>3. QED BY <2>2, <1>3
<1>5. /\ Shown(r).state = IF call[r].pc = "none" THEN "none" ELSE "begun"
      /\ Shown(r).from = call[r].from
  BY ShownFact DEF Quiet
<1>6. from = IF Shown(r).state = "none" THEN Len(Ids(file)) ELSE Shown(r).from
  BY <1>2, <1>5
<1>7. n \in from..Len(Ids(file)) BY <1>1, <1>2
<1>8. [x \in Reader |-> Shown(x)]' =
        [[x \in Reader |-> Shown(x)] EXCEPT ![r] =
           [state |-> "shown", from |-> from, shows |-> SubSeq(Ids(file), 1, n)]]
  BY <1>4, ShownSame
<1>9. Ids(file)' = Ids(file) BY DEF Ids
<1>10. Shown(r).state \in {"none", "begun"} BY <1>5
<1> HIDE DEF from, got, n
<1>11. QED BY <1>6, <1>7, <1>8, <1>9, <1>10 DEF ALog!Show

LEMMA ListingRefined ==
  ASSUME IndInv, IndInv', NEW r \in Reader, Listing(r)
  PROVE  [ALog!Next]_<<Ids(file), [x \in Reader |-> Shown(x)]>>
<1> USE Apart
<1>0. /\ TypeOK /\ TypeOK' /\ call \in [Call -> CallRec] /\ call[r] \in CallRec
      /\ file \in Seq(Line) /\ Len(file) \in Nat /\ Logging
  BY LenProperties DEF IndInv, TypeOK
<1>1. part' = part /\ file' = file
  BY <1>0, GetFact DEF Listing, BeginList, SqliteList, logs
<1>2. \A x \in Reader : x # r => SameInLog(x)
  <2>1. CASE Get(r, "done") BY <1>0, <2>1, GetFact DEF SameInLog
  <2>2. CASE BeginList(r) \/ SqliteList(r)
    BY <1>0, <2>2 DEF BeginList, SqliteList, SameInLog
  <2>3. QED BY <2>1, <2>2 DEF Listing
<1>3. CASE ~Listed BY <1>1, <1>3, Stutter DEF lists
<1>4. CASE Listed /\ BeginList(r)
  <2>1. call'[r] = [call[r] EXCEPT !.pc = "stat", !.before = Finished(Entry), !.from = Len(file)]
        /\ call[r].pc = "none"
    BY <1>0, <1>4 DEF BeginList, At
  <2>2. call'[r].pc = "stat" /\ call'[r].from = Len(file) BY <1>0, <2>1 DEF CallRec
  <2>3. Shown(r) = [state |-> "none", from |-> call[r].from, shows |-> <<>>]
    BY <1>4, <2>1, ShownFact
  <2>4. Shown(r)' = [state |-> "begun", from |-> Len(file), shows |-> <<>>]
    BY <1>1, <1>4, <2>2 DEF Shown, At, Listed, Log, EventFile
  <2>5. Len(Ids(file)) = Len(file) BY <1>0, IdsFact
  <2>6. [x \in Reader |-> Shown(x)]' =
          [[x \in Reader |-> Shown(x)] EXCEPT ![r] =
             [state |-> "begun", from |-> Len(Ids(file)), shows |-> <<>>]]
    BY <1>1, <1>2, <2>4, <2>5, ShownSame
  <2>7. Ids(file)' = Ids(file) /\ Shown(r).state = "none" BY <1>1, <2>3 DEF Ids
  <2>8. ALog!Begin(r) BY <2>6, <2>7 DEF ALog!Begin
  <2>9. QED BY <2>8 DEF ALog!Next
<1>5. CASE Listed /\ SqliteList(r)
  <2>1. call'[r] = [call[r] EXCEPT !.pc = "done", !.before = Finished(Entry),
                                   !.from = Len(file), !.items = file]
        /\ call[r].pc = "none"
    BY <1>0, <1>5 DEF SqliteList, At
  <2>2. call'[r].pc = "done" /\ call'[r].from = Len(file) /\ call'[r].items = file
    BY <1>0, <2>1 DEF CallRec
  <2>3. Prefix(call'[r].items) BY <1>0, <2>2 DEF Prefix
  <2>4. /\ call'[r].from = IF call[r].pc = "none" THEN Len(file) ELSE call[r].from
        /\ call'[r].from <= Len(call'[r].items) /\ call[r].pc \notin {"done", "lost"}
    BY <1>0, <2>1, <2>2
  <2>5. ALog!Show(r) BY <1>0, <1>1, <1>2, <1>5, <2>2, <2>3, <2>4, ShowRefined
  <2>6. QED BY <2>5 DEF ALog!Next
<1>6. CASE Listed /\ Get(r, "done")
  <2>1. ListGoesWell(r) /\ call[r].pc \in {"stat", "found", "read", "keep"}
        /\ call'[r].pc \in {"found", "read", "keep", "done"} /\ call'[r].from = call[r].from
    BY <1>0, <1>6, GetStep DEF Logging
  <2>2. CASE call'[r].pc # "done"
    <3>1. Shown(r) = [state |-> "begun", from |-> call[r].from, shows |-> <<>>]
      BY <1>6, <2>1, ShownFact DEF Quiet
    <3>2. Shown(r)' = [state |-> "begun", from |-> call[r].from, shows |-> <<>>]
      BY <1>1, <1>6, <2>1, <2>2 DEF Shown, At, Listed, Log, EventFile
    <3>3. [x \in Reader |-> Shown(x)]' = [x \in Reader |-> Shown(x)]
      BY <1>1, <1>2, <3>1, <3>2, ShownSame
    <3>4. QED BY <1>1, <3>3 DEF Ids
  <2>3. CASE call'[r].pc = "done"
    <3>1. Transcript
      <4>1. File BY <2>1 DEF ListGoesWell, Quiet
      <4>2. part \in {"worker", "session", "events", "transcript"} \X {"file", "sqlite"}
        BY <1>0, StorageAssumption DEF TypeOK, StorageAssumption
      <4>3. part = <<part[1], part[2]>> BY <4>2
      <4>4. part = <<"events", "file">> \/ part = <<"transcript", "file">>
        BY <1>6, <4>1, <4>3 DEF Listed, Log, File
      <4>5. QED BY <1>6, <4>4 DEF Listed, EventFile, Transcript
    <3>2. CacheBelievable BY <1>0, <3>1 DEF Logging, Transcript
    <3>3. /\ logCache.items \in Seq(Line) /\ Len(logCache.items) \in Nat /\ logCache.size \in Nat
          /\ call[r].size \in Nat /\ call[r].from \in Nat /\ Len(<<>>) = 0
      BY <1>0, LenProperties DEF TypeOK, CallRec
    <3>4. Prefix(call'[r].items) /\ call'[r].from <= Len(call'[r].items)
      <4>1. /\ call'[r].from = call[r].from
            /\ \/ call[r].pc = "found" /\ call[r].size = 0 /\ call'[r].items = call[r].items
               \/ /\ call[r].pc = "found" /\ logCache.valid /\ logCache.size = call[r].size
                  /\ call'[r].items = logCache.items
               \/ call[r].pc = "keep" /\ call'[r].items = call[r].items
        BY <1>0, <1>6, <2>3, GetStep
      <4>2. CASE call[r].pc = "found" /\ call[r].size = 0 /\ call'[r].items = call[r].items
        <5>1. call'[r].items = <<>> /\ call'[r].from = 0
          BY <2>1, <3>3, <4>1, <4>2 DEF ListGoesWell
        <5>2. QED BY <3>3, <5>1 DEF Prefix
      <4>3. CASE /\ call[r].pc = "found" /\ logCache.valid /\ logCache.size = call[r].size
                 /\ call'[r].items = logCache.items
        BY <2>1, <3>2, <3>3, <4>1, <4>3 DEF ListGoesWell, CacheBelievable
      <4>4. CASE call[r].pc = "keep" /\ call'[r].items = call[r].items
        <5>1. Len(call[r].items) \in Nat BY <1>0, LenProperties DEF TypeOK, CallRec
        <5>2. QED BY <2>1, <3>3, <4>1, <4>4, <5>1 DEF ListGoesWell
      <4>5. QED BY <4>1, <4>2, <4>3, <4>4
    <3>5. ALog!Show(r) BY <1>0, <1>1, <1>2, <1>6, <2>1, <2>3, <3>4, ShowRefined
    <3>6. QED BY <3>5 DEF ALog!Next
  <2>4. QED BY <2>2, <2>3
<1>7. QED BY <1>3, <1>4, <1>5, <1>6 DEF Listing

LEMMA AppendingRefined ==
  ASSUME IndInv, NEW e \in Entry, Appending(e)
  PROVE  [ALog!Next]_<<Ids(file), [x \in Reader |-> Shown(x)]>>
<1> USE Apart
<1>0. TypeOK /\ file \in Seq(Line) /\ Stored BY DEF IndInv, TypeOK, Logging
<1>1. part' = part /\ \A r \in Reader : SameInLog(r)
  BY <1>0, GetFact, AppendStep DEF Appending, SameInLog
<1>2. [x \in Reader |-> Shown(x)]' = [x \in Reader |-> Shown(x)] BY <1>1, ShownSame
<1>3. CASE Get(e, "write") \/ BeginAppend(e) \/ Sized(e) \/ CacheLine(e)
  <2>1. file' = file BY <1>0, <1>3, GetFact, AppendStep
  <2>2. QED BY <1>2, <2>1 DEF Ids
<1>4. CASE AppendLine(e) \/ SqliteAppend(e)
  <2>1. PICK l \in Line : l.id = e /\ file' = Append(file, l) BY <1>0, <1>4, LineAppended
  <2>2. Ids(file)' = Append(Ids(file), e)
    <3>1. Ids(file)' = Ids(Append(file, l)) BY <2>1 DEF Ids
    <3>2. QED BY <1>0, <2>1, <3>1, IdsAppend
  <2>3. \A i \in DOMAIN Ids(file) : Ids(file)[i] # e
    <3>1. call[e].pc \in {"none", "write"} BY <1>0, <1>4, AppendStep
    <3>2. \A i \in 1..Len(file) : file[i].id # e BY <1>0, <3>1 DEF Stored
    <3>3. QED BY <1>0, <3>2, IdsFact
  <2>4. ALog!Extend(e) BY <1>2, <2>2, <2>3 DEF ALog!Extend
  <2>5. QED BY <2>4 DEF ALog!Next
<1>5. QED BY <1>3, <1>4 DEF Appending

LEMMA RestartRefined ==
  ASSUME IndInv, Restart
  PROVE  [ALog!Next]_<<Ids(file), [x \in Reader |-> Shown(x)]>>
<1> USE Apart
<1>1. part' = part /\ file' = file /\ TypeOK BY DEF Restart, IndInv
<1>2. CASE ~Listed BY <1>1, <1>2, Stutter DEF lists
<1>3. CASE Listed
  <2>1. ASSUME NEW r \in Reader
        PROVE  Shown(r)' = IF Shown(r).state = "begun" THEN [Shown(r) EXCEPT !.state = "aborted"]
                           ELSE Shown(r)
    <3>1. \/ call[r].pc \in Quiet /\ SameInLog(r)
          \/ /\ call[r].pc \notin Quiet /\ call'[r].pc = "lost"
             /\ call'[r].from = call[r].from
      BY <1>1 DEF Restart, TypeOK, CallRec, Quiet, SameInLog
    <3>2. CASE call[r].pc \in Quiet /\ SameInLog(r)
      <4>1. Shown(r).state # "begun" BY <1>3, <3>2, ShownFact DEF Quiet
      <4>2. QED BY <1>1, <3>2, <4>1, ShownSame
    <3>3. CASE call[r].pc \notin Quiet /\ call'[r].pc = "lost" /\ call'[r].from = call[r].from
      <4>1. Shown(r) = [state |-> "begun", from |-> call[r].from, shows |-> <<>>]
        BY <1>3, <3>3, ShownFact
      <4>2. Shown(r)' = [state |-> "aborted", from |-> call[r].from, shows |-> <<>>]
        BY <1>1, <1>3, <3>3 DEF Shown, At, Listed, Log, EventFile
      <4>3. QED BY <4>1, <4>2
    <3>4. QED BY <3>1, <3>2, <3>3
  <2>2. ALog!Restart BY <1>1, <2>1 DEF ALog!Restart, Ids
  <2>3. QED BY <2>2 DEF ALog!Next
<1>4. QED BY <1>2, <1>3

\* A transcript, and either log of the sqlite store, is an append-only log: every
\* step of the store is a step of AppendLog or shows nothing (appendEvent,
\* appendSessionTranscriptEntry, listEvents, listSessionTranscript).
THEOREM LogRefined == Spec => IsALog
<1>1. IndInv /\ IndInv' /\ [Next]_vars
        => [ALog!Next]_<<Ids(file), [r \in Reader |-> Shown(r)]>>
  <2> SUFFICES ASSUME IndInv, IndInv', [Next]_vars
               PROVE  [ALog!Next]_<<Ids(file), [r \in Reader |-> Shown(r)]>>
    OBVIOUS
  <2>1. CASE Restart BY <2>1, RestartRefined
  <2>2. CASE Recording
    <3>1. UNCHANGED <<part, file>> /\ (Listed => \A r \in Reader : SameInLog(r))
      BY <2>2, RecordingFact DEF IndInv, Logging
    <3>2. QED BY <3>1, Stutter DEF lists
  <2>3. ASSUME NEW r \in Reader, Listing(r) PROVE [ALog!Next]_<<Ids(file), [x \in Reader |-> Shown(x)]>>
    BY <2>3, ListingRefined
  <2>4. ASSUME NEW e \in Entry, Appending(e) PROVE [ALog!Next]_<<Ids(file), [x \in Reader |-> Shown(x)]>>
    BY <2>4, AppendingRefined
  <2>5. CASE UNCHANGED vars BY <2>5, Stutter DEF vars, logs, SameInLog, lists
  <2>6. QED BY <2>1, <2>2, <2>3, <2>4, <2>5 DEF Next, Recording, Listing, Appending
<1>2. QED BY <1>1, InitRefined, Invariance, PTL DEF Spec, IsALog, ALog!Spec
-----------------------------------------------------------------------------
(* Two backends, one store: what is kept *)

Records == [id: Id, job: Job, status: Status, token: Token \cup {Absent}, at: 1..MaxTime]
Entries == [sequence: 1..MaxCalls, kind: EntryKind]
Events  == [type: EventType]
Tasks   == [what: {"record"}, it: Records] \cup [what: {"entries"}, it: Session]
             \cup [what: {"event"}, it: Events]

TypesInv ==
  /\ backend \in {"file", "sqlite"} /\ times \in SUBSET (1..MaxTime)
  /\ results \in [Owner -> SUBSET Artifact]
  /\ dir \in [Id -> Records \cup {Absent}] /\ rows \in [Id -> Records \cup {Absent}]
  /\ fileLog \in Seq(Events) /\ sqlLog \in Seq(Events)
  /\ fileTranscript \in [Session -> Seq(Entries)] /\ sqlTranscript \in [Session -> SUBSET Entries]
  /\ fileArts \in [Artifact -> Owner \cup {Absent}] /\ sqlArts \in [Artifact -> Owner \cup {Absent}]
  /\ importing \in Seq(Tasks) /\ calls \in 0..MaxCalls /\ starts \in 0..MaxStarts

\* Records are filed under their ids, none of them has an updatedAt that was not
\* given out, and those of one updatedAt are one record; the entity caches are
\* the sorted directories.
Kept == {dir[i] : i \in Id} \cup {rows[i] : i \in Id}
RecordsInv ==
  /\ \A i \in Id : dir[i] # Absent => dir[i].id = i
  /\ \A i \in Id : rows[i] # Absent => rows[i].id = i
  /\ \A r \in Kept : r # Absent => r.at \in times
  /\ \A r, q \in Kept : r # Absent /\ q # Absent /\ r.at = q.at => r = q
  /\ items = [c \in Collection |-> Latest(JsonDirectory(c))]

\* A transcript is numbered as it was appended, on either backend.
Sequenced(t) == \A k \in DOMAIN t : t[k].sequence = k
EntriesInv ==
  /\ \A s \in Session : Sequenced(fileTranscript[s]) /\ Len(fileTranscript[s]) <= calls
  /\ \A s \in Session : \E t \in Seq(Entries) :
       Sequenced(t) /\ Len(t) <= calls /\ sqlTranscript[s] = ToSet(t)

\* An index names the owners that list the artifact and are stored.
ArtsInv ==
  /\ \A a \in Artifact : fileArts[a] # Absent => a \in results[fileArts[a]] /\ dir[fileArts[a]] # Absent
  /\ \A a \in Artifact : sqlArts[a] # Absent => a \in results[sqlArts[a]] /\ rows[sqlArts[a]] # Absent

\* What is imported is what the files hold.
ImportInv ==
  /\ importing # <<>> => backend = "sqlite"
  /\ \A p \in DOMAIN importing : importing[p].what = "record" => \E i \in Id : importing[p].it = dir[i]

KeptInv == TypesInv /\ RecordsInv /\ EntriesInv /\ ArtsInv /\ ImportInv

-----------------------------------------------------------------------------
(* The import *)

\* What is not copied yet is still to be copied.
ImportedRecord(i) ==
  \/ rows[i] = dir[i]
  \/ rows[i] = Absent /\ \E p \in DOMAIN importing : importing[p] = [what |-> "record", it |-> dir[i]]
ImportedEntries(s) ==
  \/ sqlTranscript[s] = ToSet(fileTranscript[s])
  \/ \E p \in DOMAIN importing : importing[p] = [what |-> "entries", it |-> s]
\* The last of what is to be copied are the events that follow those copied.
ImportedEvents ==
  \E n \in Nat :
    /\ Len(fileLog) = Len(sqlLog) + n /\ n <= Len(importing)
    /\ \A k \in 1..Len(sqlLog) : sqlLog[k] = fileLog[k]
    /\ \A p \in DOMAIN importing :
         /\ importing[p].what = "event" <=> p + n > Len(importing)
         /\ importing[p].what = "event" => importing[p].it = fileLog[Len(fileLog) + p - Len(importing)]
Imported ==
  /\ \A i \in Id : ImportedRecord(i)
  /\ \A s \in Session : ImportedEntries(s)
  /\ ImportedEvents

\* Transcripts belong to sessions that are stored, so that IsEmpty says of an
\* open store that nothing at all is stored in it.
Owned ==
  /\ \A s \in Session : fileTranscript[s] # <<>> => dir[s] # Absent
  /\ Open => \A s \in Session : sqlTranscript[s] # {} => rows[s] # Absent
MovedInv == Owned /\ (~Open => Imported)

-----------------------------------------------------------------------------
(* Filters and sorts *)

\* A set of natural numbers has a least element,
LEMMA LeastNumber ==
  ASSUME NEW S, S \subseteq Nat, S # {}
  PROVE  \E m \in S : \A n \in S : m <= n
<1>1. PICK m \in S : \A n \in S : ~ (<<n, m>> \in OpToRel(<, Nat))
  BY NatLessThanWellFounded, WFMin
<1>2. ASSUME NEW n \in S PROVE m <= n
  <2>1. m \in Nat /\ n \in Nat OBVIOUS
  <2>2. ~ (n < m) BY <1>1, <2>1 DEF OpToRel
  <2>3. QED BY <2>1, <2>2
<1>3. QED BY <1>2

\* so that what holds of 0, and of each number if it holds of the one before,
\* holds of all up to a bound.
LEMMA UpTo ==
  ASSUME NEW n \in Nat, NEW G, 0 \in G, \A k \in 1..n : k - 1 \in G => k \in G
  PROVE  \A k \in 0..n : k \in G
<1> SUFFICES ASSUME NEW j \in 0..n, j \notin G PROVE FALSE OBVIOUS
<1>1. PICK S : S = {k \in 0..n : k \notin G} OBVIOUS
<1>2. S \subseteq Nat /\ S # {} BY <1>1
<1>3. PICK m \in S : \A k \in S : m <= k BY <1>2, LeastNumber
<1>4. m \in 0..n /\ m \notin G /\ m # 0 BY <1>1, <1>3
<1>5. m \in 1..n /\ m - 1 \in 0..n BY <1>4
<1>6. m - 1 \in G BY <1>1, <1>3, <1>5
<1>7. QED BY <1>4, <1>5, <1>6

-----------------------------------------------------------------------------
(* Filters *)

\* The elements picked so far.
Picks(f, s, T, n) ==
  f[0] = <<>> /\ \A k \in 1..n : f[k] = IF s[k] \in T THEN Append(f[k - 1], s[k]) ELSE f[k - 1]

LEMMA PicksExist ==
  ASSUME NEW S, NEW s \in Seq(S), NEW T, NEW n \in 0..Len(s)
  PROVE  \E f \in [0..n -> Seq(S)] : Picks(f, s, T, n)
<1>1. PICK G : G = {m \in 0..Len(s) : \E f \in [0..m -> Seq(S)] : Picks(f, s, T, m)} OBVIOUS
<1>2. 0 \in G
  <2>1. PICK f : f = [k \in 0..0 |-> <<>>] OBVIOUS
  <2>2. f \in [0..0 -> Seq(S)] /\ f[0] = <<>> BY <2>1
  <2>3. \A k \in 1..0 : FALSE OBVIOUS
  <2>4. Picks(f, s, T, 0) BY <2>2, <2>3 DEF Picks
  <2>5. 0 \in 0..Len(s) OBVIOUS
  <2>6. QED BY <1>1, <2>2, <2>4, <2>5
<1>3. ASSUME NEW m \in 1..Len(s), m - 1 \in G PROVE m \in G
  <2>1. PICK f \in [0..(m - 1) -> Seq(S)] : Picks(f, s, T, m - 1) BY <1>1, <1>3
  <2>2. PICK x : x = IF s[m] \in T THEN Append(f[m - 1], s[m]) ELSE f[m - 1] OBVIOUS
  <2>3. s[m] \in S /\ f[m - 1] \in Seq(S) OBVIOUS
  <2>4. x \in Seq(S) BY <2>2, <2>3
  <2>5. PICK g : g = [k \in 0..m |-> IF k = m THEN x ELSE f[k]] OBVIOUS
  <2>6. g \in [0..m -> Seq(S)] BY <2>4, <2>5
  <2>7. Picks(g, s, T, m)
    <3>1. g[0] = <<>> BY <2>1, <2>5 DEF Picks
    <3>2. ASSUME NEW k \in 1..m
          PROVE  g[k] = IF s[k] \in T THEN Append(g[k - 1], s[k]) ELSE g[k - 1]
      <4>1. g[k - 1] = f[k - 1] BY <2>5
      <4>2. CASE k = m BY <2>2, <2>5, <4>1, <4>2
      <4>3. CASE k # m
        <5>1. k \in 1..(m - 1) BY <4>3
        <5>2. g[k] = f[k] BY <2>5, <4>3
        <5>3. QED BY <2>1, <4>1, <5>1, <5>2 DEF Picks
      <4>4. QED BY <4>2, <4>3
    <3>3. QED BY <3>1, <3>2 DEF Picks
  <2>8. QED BY <1>1, <2>6, <2>7
<1>4. n \in G
  <2>1. PICK len : len = Len(s) OBVIOUS
  <2>2. len \in Nat /\ n \in 0..len BY <2>1
  <2>3. \A k \in 1..len : k - 1 \in G => k \in G BY <1>3, <2>1
  <2>4. \A k \in 0..len : k \in G BY <1>2, <2>2, <2>3, UpTo
  <2>5. QED BY <2>2, <2>4
<1>5. QED BY <1>1, <1>4

\* Picked is well defined.
LEMMA PickedIs ==
  ASSUME NEW S, NEW s \in Seq(S), NEW T
  PROVE  \E f \in [0..Len(s) -> Seq(S)] : Picks(f, s, T, Len(s)) /\ Picked(s, T) = f[Len(s)]
<1>1. PICK n : n = Len(s) OBVIOUS
<1>2. n \in Nat /\ n \in 0..Len(s) BY <1>1
<1>3. PICK f \in [0..n -> Seq(S)] : Picks(f, s, T, n) BY <1>2, PicksExist
<1> DEFINE Body(g) == [k \in 0..n |-> IF k = 0 THEN <<>>
                                      ELSE IF s[k] \in T THEN Append(g[k - 1], s[k]) ELSE g[k - 1]]
<1>4. f = Body(f)
  <2>1. ASSUME NEW k \in 0..n PROVE f[k] = Body(f)[k]
    <3>1. CASE k = 0 BY <1>3, <3>1 DEF Picks
    <3>2. CASE k # 0
      <4>1. k \in 1..n BY <1>2, <3>2
      <4>2. f[k] = IF s[k] \in T THEN Append(f[k - 1], s[k]) ELSE f[k - 1]
        BY <1>3, <4>1 DEF Picks
      <4>3. QED BY <3>2, <4>2
    <3>3. QED BY <3>1, <3>2
  <2>2. QED BY <2>1
<1>5. PICK g : g = CHOOSE h : h = Body(h) OBVIOUS
<1>6. g = Body(g) BY <1>4, <1>5
<1>7. Picked(s, T) = g[n] BY <1>1, <1>5 DEF Picked
<1>8. PICK G : G = {k \in 0..n : g[k] = f[k]} OBVIOUS
<1>9. 0 \in G BY <1>2, <1>4, <1>6, <1>8
<1>10. ASSUME NEW k \in 1..n, k - 1 \in G PROVE k \in G
  <2>1. g[k - 1] = f[k - 1] BY <1>8, <1>10
  <2>2. k \in 0..n /\ k # 0 BY <1>2
  <2>3. f[k] = IF s[k] \in T THEN Append(f[k - 1], s[k]) ELSE f[k - 1] BY <1>3 DEF Picks
  <2>4. g[k] = IF s[k] \in T THEN Append(g[k - 1], s[k]) ELSE g[k - 1] BY <1>6, <2>2
  <2>5. g[k] = f[k] BY <2>1, <2>3, <2>4
  <2>6. QED BY <1>8, <2>2, <2>5
<1>11. g[n] = f[n]
  <2>1. \A k \in 0..n : k \in G BY <1>2, <1>9, <1>10, UpTo
  <2>2. n \in G BY <1>2, <2>1
  <2>3. QED BY <1>8, <2>2
<1>12. QED BY <1>1, <1>3, <1>7, <1>11

\* The places of the elements picked, and how many there are up to a place.
Matched(s, T) == {k \in DOMAIN s : s[k] \in T}
Nth(k, at) == Cardinality({l \in at : l <= k})

LEMMA NthCounts ==
  ASSUME NEW n \in Nat, NEW at, at \subseteq 1..n
  PROVE  /\ IsFiniteSet(at) /\ Cardinality(at) \in Nat /\ Nth(n, at) = Cardinality(at)
         /\ Nth(0, at) = 0
         /\ \A k \in 0..n : Nth(k, at) \in Nat
         /\ \A k \in 1..n : Nth(k, at) = IF k \in at THEN Nth(k - 1, at) + 1 ELSE Nth(k - 1, at)
<1>0. \A l \in at : l \in Nat /\ 1 <= l /\ l <= n OBVIOUS
<1>1. IsFiniteSet(at) /\ Cardinality(at) \in Nat
  <2>1. IsFiniteSet(1..n) BY FS_Interval
  <2>2. QED BY <2>1, FS_Subset, FS_CardinalityType
<1>2. Nth(n, at) = Cardinality(at)
  <2>1. {l \in at : l <= n} = at BY <1>0
  <2>2. QED BY <2>1 DEF Nth
<1>3. Nth(0, at) = 0
  <2>0. \A l \in at : ~(l <= 0) BY <1>0
  <2>1. {l \in at : l <= 0} = {} BY <2>0
  <2>2. QED BY <2>1, FS_EmptySet DEF Nth
<1>4. ASSUME NEW k \in 0..n PROVE IsFiniteSet({l \in at : l <= k}) /\ Nth(k, at) \in Nat
  <2>1. {l \in at : l <= k} \in SUBSET at OBVIOUS
  <2>2. IsFiniteSet({l \in at : l <= k}) BY <1>1, <2>1, FS_Subset
  <2>3. QED BY <2>2, FS_CardinalityType DEF Nth
<1>5. ASSUME NEW k \in 1..n
      PROVE  Nth(k, at) = IF k \in at THEN Nth(k - 1, at) + 1 ELSE Nth(k - 1, at)
  <2>1. PICK L : L = {l \in at : l <= k - 1} OBVIOUS
  <2>2. k - 1 \in 0..n /\ k \notin L BY <2>1
  <2>3. IsFiniteSet(L) /\ Cardinality(L) = Nth(k - 1, at) BY <1>4, <2>1, <2>2 DEF Nth
  <2>4. CASE k \in at
    <3>0. \A l \in at : l <= k <=> l <= k - 1 \/ l = k BY <1>0
    <3>1. {l \in at : l <= k} = L \cup {k} BY <2>1, <2>4, <3>0
    <3>2. Cardinality(L \cup {k}) = Cardinality(L) + 1 BY <2>2, <2>3, FS_AddElement
    <3>3. QED BY <2>3, <2>4, <3>1, <3>2 DEF Nth
  <2>5. CASE k \notin at
    <3>0. \A l \in at : l <= k <=> l <= k - 1 BY <1>0, <2>5
    <3>1. {l \in at : l <= k} = L BY <2>1, <3>0
    <3>2. QED BY <2>3, <2>5, <3>1 DEF Nth
  <2>6. QED BY <2>4, <2>5
<1>6. QED BY <1>1, <1>2, <1>3, <1>4, <1>5

LEMMA NthGrows ==
  ASSUME NEW n \in Nat, NEW at, at \subseteq 1..n, NEW k \in 0..n, NEW l \in k..n
  PROVE  Nth(k, at) <= Nth(l, at) /\ (k < l /\ l \in at => Nth(k, at) < Nth(l, at))
<1>1. PICK K, L : K = {m \in at : m <= k} /\ L = {m \in at : m <= l} OBVIOUS
<1>2. IsFiniteSet(at) BY NthCounts
<1>3. L \in SUBSET at BY <1>1
<1>4. IsFiniteSet(L) BY <1>2, <1>3, FS_Subset
<1>0. \A m \in at : m <= k => m <= l
  <2>1. \A m \in at : m \in Nat OBVIOUS
  <2>2. k \in Nat /\ l \in Nat /\ k <= l OBVIOUS
  <2>3. QED BY <2>1, <2>2
<1>5. K \in SUBSET L BY <1>0, <1>1
<1>6. Cardinality(K) <= Cardinality(L) /\ (Cardinality(L) = Cardinality(K) => L = K)
  BY <1>4, <1>5, FS_Subset
<1>7. Cardinality(K) = Nth(k, at) /\ Cardinality(L) = Nth(l, at) BY <1>1 DEF Nth
<1>8. Nth(k, at) \in Nat /\ Nth(l, at) \in Nat
  <2>1. k \in 0..n /\ l \in 0..n OBVIOUS
  <2>2. QED BY <2>1, NthCounts
<1>9. ASSUME k < l, l \in at PROVE Nth(k, at) < Nth(l, at)
  <2>1. l \in L /\ l \notin K BY <1>1, <1>9
  <2>2. L # K BY <2>1
  <2>3. QED BY <1>6, <1>7, <1>8, <2>2
<1>10. QED BY <1>6, <1>7, <1>9

\* What Picked returns: the k-th element that is picked is the k-th.
LEMMA PickedAt ==
  ASSUME NEW S, NEW s \in Seq(S), NEW T, NEW at, at = Matched(s, T), NEW p, p = Picked(s, T)
  PROVE  /\ p \in Seq(S) /\ Len(p) = Cardinality(at)
         /\ \A k \in at : Nth(k, at) \in 1..Len(p) /\ p[Nth(k, at)] = s[k]
         /\ \A i \in 1..Len(p) : \E k \in at : Nth(k, at) = i
<1>1. PICK f \in [0..Len(s) -> Seq(S)] : Picks(f, s, T, Len(s)) /\ Picked(s, T) = f[Len(s)]
  BY PickedIs
<1>2. PICK n : n = Len(s) OBVIOUS
<1>3. n \in Nat /\ at \subseteq 1..n BY <1>2 DEF Matched
<1>4. PICK G : G = {m \in 0..n :
                      /\ Len(f[m]) = Nth(m, at)
                      /\ \A k \in at : k <= m => Nth(k, at) \in 1..Len(f[m]) /\ f[m][Nth(k, at)] = s[k]
                      /\ \A i \in 1..Len(f[m]) : \E k \in at : Nth(k, at) = i}
  OBVIOUS
<1>5. 0 \in G
  <2>1. f[0] = <<>> /\ Len(f[0]) = 0 BY <1>1 DEF Picks
  <2>2. Nth(0, at) = 0 BY <1>3, NthCounts
  <2>3. \A k \in at : ~(k <= 0) BY <1>3
  <2>4. \A i \in 1..Len(f[0]) : FALSE BY <2>1
  <2>5. QED BY <1>3, <1>4, <2>1, <2>2, <2>3, <2>4
<1>6. ASSUME NEW m \in 1..n, m - 1 \in G PROVE m \in G
  <2>1. PICK e : e = f[m - 1] OBVIOUS
  <2>2. PICK g : g = f[m] OBVIOUS
  <2>3. m - 1 \in 0..n /\ m \in 0..n /\ m \in 1..Len(s) BY <1>2, <1>3
  <2>4. e \in Seq(S) /\ s[m] \in S BY <1>2, <2>1, <2>3
  <2>5. /\ Len(e) = Nth(m - 1, at)
        /\ \A k \in at : k <= m - 1 => Nth(k, at) \in 1..Len(e) /\ e[Nth(k, at)] = s[k]
        /\ \A i \in 1..Len(e) : \E k \in at : Nth(k, at) = i
    BY <1>4, <1>6, <2>1
  <2>6. g = IF s[m] \in T THEN Append(e, s[m]) ELSE e BY <1>1, <2>1, <2>2, <2>3 DEF Picks
  <2>7. m \in at <=> s[m] \in T BY <2>3 DEF Matched
  <2>8. Nth(m, at) = IF m \in at THEN Nth(m - 1, at) + 1 ELSE Nth(m - 1, at)
    BY <1>3, NthCounts
  <2>9. /\ Len(g) = Nth(m, at)
        /\ \A k \in at : k <= m => Nth(k, at) \in 1..Len(g) /\ g[Nth(k, at)] = s[k]
        /\ \A i \in 1..Len(g) : \E k \in at : Nth(k, at) = i
    <3>1. CASE s[m] \in T
      <4>1. /\ g = Append(e, s[m]) /\ g \in Seq(S) /\ Len(g) = Len(e) + 1
            /\ g[Len(g)] = s[m] /\ \A i \in 1..Len(e) : g[i] = e[i]
        BY <2>4, <2>6, <3>1, AppendProperties
      <4>2. m \in at /\ Nth(m, at) = Len(e) + 1 BY <2>5, <2>7, <2>8, <3>1
      <4>3. ASSUME NEW k \in at, k <= m PROVE Nth(k, at) \in 1..Len(g) /\ g[Nth(k, at)] = s[k]
        <5>1. CASE k = m
          <6>1. Len(e) \in Nat BY <2>4
          <6>2. QED BY <4>1, <4>2, <5>1, <6>1
        <5>2. CASE k # m
          <6>1. k <= m - 1 BY <1>3, <4>3, <5>2
          <6>2. Nth(k, at) \in 1..Len(e) /\ e[Nth(k, at)] = s[k] BY <2>5, <6>1
          <6>3. Len(e) \in Nat BY <2>4
          <6>4. QED BY <4>1, <6>2, <6>3
        <5>3. QED BY <5>1, <5>2
      <4>4. ASSUME NEW i \in 1..Len(g) PROVE \E k \in at : Nth(k, at) = i
        <5>1. CASE i = Len(g) BY <4>1, <4>2, <5>1
        <5>2. CASE i # Len(g)
          <6>1. Len(e) \in Nat BY <2>4
          <6>2. i \in 1..Len(e) BY <4>1, <5>2, <6>1
          <6>3. QED BY <2>5, <6>2
        <5>3. QED BY <5>1, <5>2
      <4>5. QED BY <4>1, <4>2, <4>3, <4>4
    <3>2. CASE s[m] \notin T
      <4>1. g = e /\ m \notin at /\ Nth(m, at) = Nth(m - 1, at) BY <2>6, <2>7, <2>8, <3>2
      <4>2. \A k \in at : k <= m => k <= m - 1 BY <1>3, <4>1
      <4>3. QED BY <2>5, <4>1, <4>2
    <3>3. QED BY <3>1, <3>2
  <2>10. QED BY <1>4, <2>2, <2>3, <2>9
<1>7. n \in G
  <2>1. \A k \in 0..n : k \in G BY <1>3, <1>5, <1>6, UpTo
  <2>2. QED BY <1>3, <2>1
<1>8. p = f[n] /\ p \in Seq(S) BY <1>1, <1>2, <1>3
<1>9. /\ Len(p) = Nth(n, at)
      /\ \A k \in at : k <= n => Nth(k, at) \in 1..Len(p) /\ p[Nth(k, at)] = s[k]
      /\ \A i \in 1..Len(p) : \E k \in at : Nth(k, at) = i
  BY <1>4, <1>7, <1>8
<1>10. Nth(n, at) = Cardinality(at) BY <1>3, NthCounts
<1>11. \A k \in at : k <= n BY <1>3
<1>12. QED BY <1>8, <1>9, <1>10, <1>11

\* What is picked are the elements of s that are in T, and in their order.
LEMMA PickedKeeps ==
  ASSUME NEW S, NEW s \in Seq(S), NEW T, NEW p, p = Picked(s, T)
  PROVE  /\ ToSet(p) = ToSet(s) \cap T
         /\ \A i, j \in 1..Len(p) : i < j =>
              \E k, l \in 1..Len(s) : k < l /\ p[i] = s[k] /\ p[j] = s[l]
<1>1. PICK at : at = Matched(s, T) OBVIOUS
<1>2. /\ p \in Seq(S) /\ Len(p) = Cardinality(at)
      /\ \A k \in at : Nth(k, at) \in 1..Len(p) /\ p[Nth(k, at)] = s[k]
      /\ \A i \in 1..Len(p) : \E k \in at : Nth(k, at) = i
  BY <1>1, PickedAt
<1>3. at = {k \in 1..Len(s) : s[k] \in T} BY <1>1 DEF Matched
<1>4. ASSUME NEW i \in 1..Len(p), NEW j \in 1..Len(p), i < j
      PROVE  \E k, l \in 1..Len(s) : k < l /\ p[i] = s[k] /\ p[j] = s[l]
  <2>1. PICK k \in at : Nth(k, at) = i BY <1>2
  <2>2. PICK l \in at : Nth(l, at) = j BY <1>2
  <2>3. k \in 1..Len(s) /\ l \in 1..Len(s) /\ Len(s) \in Nat BY <1>3
  <2>4. ~(l <= k)
    <3>1. SUFFICES ASSUME l <= k PROVE FALSE OBVIOUS
    <3>2. at \subseteq 1..Len(s) /\ l \in 0..Len(s) /\ k \in l..Len(s) BY <1>3, <2>3, <3>1
    <3>3. Nth(l, at) <= Nth(k, at) BY <2>3, <3>2, NthGrows
    <3>4. Len(p) \in Nat BY <1>2
    <3>5. QED BY <1>4, <2>1, <2>2, <3>3, <3>4
  <2>5. p[i] = s[k] /\ p[j] = s[l] BY <1>2, <2>1, <2>2
  <2>6. QED BY <2>3, <2>4, <2>5
<1>5. ASSUME NEW x \in ToSet(p) PROVE x \in ToSet(s) \cap T
  <2>1. PICK i \in 1..Len(p) : x = p[i] BY <1>2 DEF ToSet
  <2>2. PICK k \in at : Nth(k, at) = i BY <1>2
  <2>3. x = s[k] /\ k \in 1..Len(s) /\ s[k] \in T BY <1>2, <1>3, <2>1, <2>2
  <2>4. QED BY <2>3 DEF ToSet
<1>6. ASSUME NEW x \in ToSet(s) \cap T PROVE x \in ToSet(p)
  <2>1. PICK k \in 1..Len(s) : x = s[k] /\ s[k] \in T BY DEF ToSet
  <2>2. k \in at BY <1>3, <2>1
  <2>3. Nth(k, at) \in 1..Len(p) /\ p[Nth(k, at)] = x BY <1>2, <2>1, <2>2
  <2>4. QED BY <1>2, <2>3 DEF ToSet
<1>7. QED BY <1>4, <1>5, <1>6

-----------------------------------------------------------------------------
(* Orders *)

Keyed(S, key) ==
  /\ \A r \in S : key[r] \in Nat
  /\ \A r, q \in S : key[r] = key[q] => r = q
Increasing(s, key) == \A k, l \in DOMAIN s : k < l => key[s[k]] < key[s[l]]
Before(S, key, r) == {q \in S : key[q] < key[r]}

LEMMA RanksGrow ==
  ASSUME NEW S, IsFiniteSet(S), NEW key, Keyed(S, key), NEW r \in S
  PROVE  /\ Cardinality(Before(S, key, r)) \in 0..(Cardinality(S) - 1)
         /\ \A q \in S : key[q] < key[r]
              => Cardinality(Before(S, key, q)) < Cardinality(Before(S, key, r))
<1>1. PICK R : R = Before(S, key, r) OBVIOUS
<1>2. R \in SUBSET S /\ r \notin R BY <1>1 DEF Before, Keyed
<1>3. IsFiniteSet(R) /\ Cardinality(R) \in Nat BY <1>2, FS_Subset, FS_CardinalityType
<1>4. Cardinality(R) <= Cardinality(S) - 1
  <2>1. Cardinality(R) <= Cardinality(S) /\ (Cardinality(S) = Cardinality(R) => S = R)
    BY <1>2, FS_Subset
  <2>2. Cardinality(S) # Cardinality(R) BY <1>2, <2>1
  <2>3. Cardinality(S) \in Nat BY FS_CardinalityType
  <2>4. QED BY <1>3, <2>1, <2>2, <2>3
<1>5. ASSUME NEW q \in S, key[q] < key[r]
      PROVE  Cardinality(Before(S, key, q)) < Cardinality(Before(S, key, r))
  <2>1. PICK Q : Q = Before(S, key, q) OBVIOUS
  <2>2. \A x \in S : key[x] < key[q] => key[x] < key[r]
    <3>1. \A x \in S : key[x] \in Nat BY DEF Keyed
    <3>2. QED BY <1>5, <3>1
  <2>3. Q \in SUBSET R BY <1>1, <2>1, <2>2 DEF Before
  <2>4. q \in R /\ q \notin Q BY <1>1, <1>5, <2>1 DEF Before, Keyed
  <2>5. Cardinality(Q) <= Cardinality(R) /\ (Cardinality(R) = Cardinality(Q) => R = Q)
    BY <1>3, <2>3, FS_Subset
  <2>6. IsFiniteSet(Q) BY <1>3, <2>3, FS_Subset
  <2>7. Cardinality(Q) \in Nat BY <2>6, FS_CardinalityType
  <2>8. Cardinality(R) # Cardinality(Q) BY <2>4, <2>5
  <2>9. QED BY <1>1, <1>3, <2>1, <2>5, <2>7, <2>8
<1>6. Cardinality(S) \in Nat BY FS_CardinalityType
<1>7. QED BY <1>1, <1>3, <1>4, <1>5, <1>6

\* One element has each rank.
LEMMA RankHeld ==
  ASSUME NEW S, IsFiniteSet(S), NEW key, Keyed(S, key), NEW k \in 1..Cardinality(S)
  PROVE  /\ \E r \in S : Cardinality(Before(S, key, r)) = k - 1
         /\ \A r, q \in S : Cardinality(Before(S, key, r)) = Cardinality(Before(S, key, q)) => r = q
<1>1. PICK n : n = Cardinality(S) OBVIOUS
<1>2. n \in Nat BY <1>1, FS_CardinalityType
<1>3. \A r \in S : Cardinality(Before(S, key, r)) \in 0..(n - 1) BY <1>1, RanksGrow
<1>4. ASSUME NEW r \in S, NEW q \in S,
             Cardinality(Before(S, key, r)) = Cardinality(Before(S, key, q))
      PROVE  r = q
  <2>1. ~(key[q] < key[r]) /\ ~(key[r] < key[q]) BY <1>3, <1>4, RanksGrow
  <2>2. key[r] \in Nat /\ key[q] \in Nat BY DEF Keyed
  <2>3. key[r] = key[q] BY <2>1, <2>2
  <2>4. QED BY <2>3 DEF Keyed
<1>5. PICK f : f = [r \in S |-> Cardinality(Before(S, key, r)) + 1] OBVIOUS
<1>6. ASSUME NEW r \in S PROVE f[r] \in 1..n
  <2>1. Cardinality(Before(S, key, r)) \in 0..(n - 1) BY <1>3
  <2>2. f[r] = Cardinality(Before(S, key, r)) + 1 BY <1>5
  <2>3. QED BY <1>2, <2>1, <2>2
<1>7. ASSUME NEW r \in S, NEW q \in S, f[r] = f[q] PROVE r = q
  <2>1. Cardinality(Before(S, key, r)) + 1 = Cardinality(Before(S, key, q)) + 1 BY <1>5, <1>7
  <2>2. Cardinality(Before(S, key, r)) \in Nat /\ Cardinality(Before(S, key, q)) \in Nat
    BY <1>2, <1>3
  <2>3. QED BY <1>4, <2>1, <2>2
<1>8. f \in Injection(S, 1..n) BY <1>5, <1>6, <1>7 DEF Injection, IsInjective
<1>9. IsFiniteSet(1..n) /\ Cardinality(1..n) = n BY <1>2, FS_Interval
<1>10. f \in Surjection(S, 1..n) BY <1>1, <1>8, <1>9, FS_Injection
<1>11. PICK r \in S : f[r] = k BY <1>1, <1>10 DEF Surjection
<1>12. Cardinality(Before(S, key, r)) = k - 1
  <2>1. Cardinality(Before(S, key, r)) \in 0..(n - 1) BY <1>3
  <2>2. f[r] = Cardinality(Before(S, key, r)) + 1 BY <1>5
  <2>3. QED BY <1>2, <1>11, <2>1, <2>2
<1>13. QED BY <1>4, <1>12

\* Sorted returns all of S, in the order of the keys,
LEMMA SortedIs ==
  ASSUME NEW S, IsFiniteSet(S), NEW key, Keyed(S, key), NEW s, s = Sorted(S, key)
  PROVE  s \in Seq(S) /\ Len(s) = Cardinality(S) /\ ToSet(s) = S /\ Increasing(s, key)
<1>1. PICK n : n = Cardinality(S) OBVIOUS
<1>2. n \in Nat BY <1>1, FS_CardinalityType
<1>3. s = [k \in 1..n |-> CHOOSE r \in S : Cardinality(Before(S, key, r)) = k - 1]
  BY <1>1 DEF Sorted, Before
<1>4. ASSUME NEW k \in 1..n PROVE s[k] \in S /\ Cardinality(Before(S, key, s[k])) = k - 1
  <2>1. \E r \in S : Cardinality(Before(S, key, r)) = k - 1 BY <1>1, RankHeld
  <2>2. QED BY <1>3, <2>1
<1>5. s \in [1..n -> S]
  <2>1. DOMAIN s = 1..n BY <1>3
  <2>2. \A k \in 1..n : s[k] \in S BY <1>4
  <2>3. QED BY <1>3, <2>1, <2>2
<1>6. s \in Seq(S) /\ Len(s) = n BY <1>2, <1>5
<1>7. ASSUME NEW r \in S PROVE \E k \in 1..n : s[k] = r
  <2>1. Cardinality(Before(S, key, r)) \in 0..(n - 1) BY <1>1, RanksGrow
  <2>2. PICK k : k = Cardinality(Before(S, key, r)) + 1 OBVIOUS
  <2>3. k \in 1..n /\ Cardinality(Before(S, key, r)) = k - 1 BY <1>2, <2>1, <2>2
  <2>4. s[k] \in S /\ Cardinality(Before(S, key, s[k])) = k - 1 BY <1>4, <2>3
  <2>5. s[k] = r BY <1>1, <2>3, <2>4, RankHeld
  <2>6. QED BY <2>3, <2>5
<1>8. ToSet(s) = S
  <2>1. \A k \in 1..n : s[k] \in S BY <1>4
  <2>2. DOMAIN s = 1..n BY <1>5
  <2>3. QED BY <1>7, <2>1, <2>2 DEF ToSet
<1>9. ASSUME NEW k \in DOMAIN s, NEW l \in DOMAIN s, k < l PROVE key[s[k]] < key[s[l]]
  <2>1. k \in 1..n /\ l \in 1..n BY <1>5
  <2>2. /\ s[k] \in S /\ Cardinality(Before(S, key, s[k])) = k - 1
        /\ s[l] \in S /\ Cardinality(Before(S, key, s[l])) = l - 1
    BY <1>4, <2>1
  <2>3. key[s[k]] \in Nat /\ key[s[l]] \in Nat BY <2>2 DEF Keyed
  <2>4. ~(key[s[l]] < key[s[k]])
    <3>1. SUFFICES ASSUME key[s[l]] < key[s[k]] PROVE FALSE OBVIOUS
    <3>2. l - 1 < k - 1 BY <2>2, <3>1, RanksGrow
    <3>3. QED BY <1>9, <2>1, <3>2
  <2>5. key[s[k]] # key[s[l]]
    <3>1. SUFFICES ASSUME key[s[k]] = key[s[l]] PROVE FALSE OBVIOUS
    <3>2. s[k] = s[l] BY <2>2, <3>1 DEF Keyed
    <3>3. k - 1 = l - 1 BY <2>2, <3>2
    <3>4. QED BY <1>9, <2>1, <3>3
  <2>6. QED BY <2>3, <2>4, <2>5
<1>10. QED BY <1>1, <1>6, <1>8, <1>9 DEF Increasing


\* and is the only sequence that does: a sequence whose keys grow is Sorted of
\* its elements.
LEMMA SortedOnly ==
  ASSUME NEW S, NEW s \in Seq(S), NEW key, Keyed(ToSet(s), key), Increasing(s, key)
  PROVE  IsFiniteSet(ToSet(s)) /\ Len(s) = Cardinality(ToSet(s)) /\ s = Sorted(ToSet(s), key)
<1>1. PICK n : n = Len(s) OBVIOUS
<1>2. n \in Nat /\ DOMAIN s = 1..n BY <1>1
<1>3. PICK R : R = ToSet(s) OBVIOUS
<1>4. \A k \in 1..n : s[k] \in R BY <1>2, <1>3 DEF ToSet
<1>5. \A r \in R : \E k \in 1..n : s[k] = r BY <1>2, <1>3 DEF ToSet
<1>6. \A k, l \in 1..n : k < l => key[s[k]] < key[s[l]] BY <1>2 DEF Increasing
<1>7. \A r \in R : key[r] \in Nat BY <1>3 DEF Keyed
<1>8. ASSUME NEW k \in 1..n, NEW l \in 1..n, s[k] = s[l] PROVE k = l
  <2>1. key[s[k]] \in Nat /\ key[s[l]] \in Nat BY <1>4, <1>7
  <2>2. ~(k < l) /\ ~(l < k) BY <1>6, <1>8, <2>1
  <2>3. QED BY <2>2
<1>9. ASSUME NEW m \in 0..n, NEW L, L = {s[l] : l \in 1..m}
      PROVE  IsFiniteSet(L) /\ Cardinality(L) = m
  <2>1. PICK f : f = [l \in 1..m |-> s[l]] OBVIOUS
  <2>2. \A l \in 1..m : l \in 1..n BY <1>2
  <2>3. f \in [1..m -> L] BY <1>9, <2>1
  <2>4. f \in Injection(1..m, L) BY <1>8, <2>1, <2>2, <2>3 DEF Injection, IsInjective
  <2>5. f \in Surjection(1..m, L) BY <1>9, <2>1, <2>3 DEF Surjection
  <2>6. IsFiniteSet(1..m) /\ Cardinality(1..m) = m BY FS_Interval
  <2>7. QED BY <2>4, <2>5, <2>6, FS_Surjection
<1>10. R = {s[l] : l \in 1..n} BY <1>4, <1>5
<1>11. n \in 0..n BY <1>2
<1>12. IsFiniteSet(R) /\ Cardinality(R) = n BY <1>9, <1>10, <1>11
<1>13. ASSUME NEW k \in 1..n PROVE Cardinality(Before(R, key, s[k])) = k - 1
  <2>1. ASSUME NEW l \in 1..n PROVE key[s[l]] < key[s[k]] <=> l <= k - 1
    <3>1. key[s[k]] \in Nat /\ key[s[l]] \in Nat BY <1>4, <1>7
    <3>2. CASE l < k BY <1>6, <3>2
    <3>3. CASE l = k BY <3>1, <3>3
    <3>4. CASE k < l
      <4>1. key[s[k]] < key[s[l]] BY <1>6, <3>4
      <4>2. QED BY <3>1, <3>4, <4>1
    <3>5. QED BY <3>2, <3>3, <3>4
  <2>2. k - 1 \in 0..n BY <1>2
  <2>3. \A l \in 1..(k - 1) : l \in 1..n /\ l <= k - 1 BY <1>2
  <2>4. Before(R, key, s[k]) = {s[l] : l \in 1..(k - 1)}
    <3>1. ASSUME NEW r \in Before(R, key, s[k]) PROVE r \in {s[l] : l \in 1..(k - 1)}
      <4>1. r \in R /\ key[r] < key[s[k]] BY DEF Before
      <4>2. PICK l \in 1..n : s[l] = r BY <1>5, <4>1
      <4>3. l \in 1..(k - 1) BY <2>1, <4>1, <4>2
      <4>4. QED BY <4>2, <4>3
    <3>2. ASSUME NEW l \in 1..(k - 1) PROVE s[l] \in Before(R, key, s[k])
      BY <1>4, <2>1, <2>3 DEF Before
    <3>3. QED BY <3>1, <3>2
  <2>5. QED BY <1>9, <2>2, <2>4
<1>14. PICK t : t = Sorted(R, key) OBVIOUS
<1>15. Keyed(R, key) BY <1>3
<1>16. t = [k \in 1..n |-> CHOOSE r \in R : Cardinality(Before(R, key, r)) = k - 1]
  BY <1>12, <1>14 DEF Sorted, Before
<1>17. ASSUME NEW k \in 1..n PROVE t[k] = s[k]
  <2>1. s[k] \in R /\ Cardinality(Before(R, key, s[k])) = k - 1 BY <1>4, <1>13
  <2>2. t[k] = CHOOSE r \in R : Cardinality(Before(R, key, r)) = k - 1 BY <1>16
  <2>3. t[k] \in R /\ Cardinality(Before(R, key, t[k])) = k - 1 BY <2>1, <2>2
  <2>4. k \in 1..Cardinality(R) BY <1>12
  <2>5. QED BY <1>12, <1>15, <2>1, <2>3, <2>4, RankHeld
<1>18. t = s
  <2>1. DOMAIN t = 1..n BY <1>16
  <2>2. t = [k \in 1..n |-> t[k]] BY <1>16
  <2>3. s = [k \in 1..n |-> s[k]] BY <1>1
  <2>4. QED BY <1>17, <2>2, <2>3
<1>19. QED BY <1>1, <1>3, <1>12, <1>14, <1>18

\* Filtering a sorted sequence sorts what is left.
LEMMA PickedSorted ==
  ASSUME NEW S, IsFiniteSet(S), NEW key, Keyed(S, key), NEW T, T \subseteq S, NEW other,
         \A r \in T : other[r] = key[r]
  PROVE  Picked(Sorted(S, key), T) = Sorted(T, other)
<1>1. PICK s : s = Sorted(S, key) OBVIOUS
<1>2. s \in Seq(S) /\ ToSet(s) = S /\ Increasing(s, key) BY <1>1, SortedIs
<1>3. PICK p : p = Picked(s, T) OBVIOUS
<1>4. /\ ToSet(p) = ToSet(s) \cap T
      /\ \A i, j \in 1..Len(p) : i < j =>
           \E k, l \in 1..Len(s) : k < l /\ p[i] = s[k] /\ p[j] = s[l]
  <2>1. s \in Seq(S) BY <1>2
  <2>2. QED BY <1>3, <2>1, PickedKeeps
<1>5. PICK at : at = Matched(s, T) OBVIOUS
<1>6. p \in Seq(S) BY <1>2, <1>3, <1>5, PickedAt
<1>7. ToSet(p) = T BY <1>2, <1>4
<1>8. Keyed(T, other) BY DEF Keyed
<1>9. Increasing(p, other)
  <2>1. DOMAIN p = 1..Len(p) /\ DOMAIN s = 1..Len(s) BY <1>2, <1>6
  <2>2. ASSUME NEW i \in 1..Len(p), NEW j \in 1..Len(p), i < j
        PROVE  other[p[i]] < other[p[j]]
    <3>1. PICK k, l \in 1..Len(s) : k < l /\ p[i] = s[k] /\ p[j] = s[l] BY <1>4, <2>2
    <3>2. key[s[k]] < key[s[l]] BY <1>2, <2>1, <3>1 DEF Increasing
    <3>3. p[i] \in T /\ p[j] \in T BY <1>7, <2>1 DEF ToSet
    <3>4. QED BY <3>1, <3>2, <3>3
  <2>3. QED BY <2>1, <2>2 DEF Increasing
<1>10. p = Sorted(T, other) BY <1>6, <1>7, <1>8, <1>9, SortedOnly
<1>11. QED BY <1>1, <1>3, <1>10

-----------------------------------------------------------------------------
(* Pages *)

\* What a page holds of a sequence.
Holds(t, s, offset, limit) ==
  /\ Len(s) <= offset => Len(t) = 0
  /\ offset < Len(s) /\ Len(s) <= offset + limit => Len(t) = Len(s) - offset
  /\ offset + limit < Len(s) => Len(t) = limit
  /\ \A i \in 1..Len(t) : offset + i \in 1..Len(s) /\ t[i] = s[offset + i]

LEMMA SliceIs ==
  ASSUME NEW S, NEW s \in Seq(S), NEW offset \in Nat, NEW limit \in Nat,
         NEW t, t = Slice(s, offset, limit)
  PROVE  t \in Seq(S) /\ Holds(t, s, offset, limit)
<1>1. PICK m, n : m = offset + 1 /\ n = IF offset + limit < Len(s) THEN offset + limit ELSE Len(s)
  OBVIOUS
<1>2. m \in Int /\ n \in Int /\ Len(s) \in Nat /\ 1 <= m /\ n <= Len(s) BY <1>1
<1>3. \A i \in m..n : s[i] \in S
  <2>1. \A i \in m..n : i \in 1..Len(s) BY <1>2
  <2>2. QED BY <2>1
<1>4. t = SubSeq(s, m, n) BY <1>1 DEF Slice
<1>5. /\ t \in Seq(S) /\ Len(t) = (IF m <= n THEN n - m + 1 ELSE 0)
      /\ \A i \in 1..(n - m + 1) : t[i] = s[m + i - 1]
  BY <1>2, <1>3, <1>4, SubSeqProperties
<1>6. /\ Len(s) <= offset => Len(t) = 0
      /\ offset < Len(s) /\ Len(s) <= offset + limit => Len(t) = Len(s) - offset
      /\ offset + limit < Len(s) => Len(t) = limit
  BY <1>1, <1>2, <1>5
<1>7. ASSUME NEW i \in 1..Len(t) PROVE offset + i \in 1..Len(s) /\ t[i] = s[offset + i]
  <2>1. m <= n /\ i \in 1..(n - m + 1) BY <1>2, <1>5
  <2>2. m + i - 1 = offset + i BY <1>1
  <2>3. offset + i \in 1..Len(s) BY <1>1, <1>2, <2>1
  <2>4. QED BY <1>5, <2>1, <2>2, <2>3
<1>8. QED BY <1>5, <1>6, <1>7 DEF Holds

\* A page of what is picked is what IsPartOf asks for.
Within(at, offset, limit) == {k \in at : Nth(k, at) > offset /\ Nth(k, at) <= offset + limit}
Paged(p, s, at, offset, limit) ==
  /\ Len(p) = Cardinality(Within(at, offset, limit))
  /\ \A k \in Within(at, offset, limit) : p[Nth(k, at) - offset] = s[k]

LEMMA PageIs ==
  ASSUME NEW S, NEW s \in Seq(S), NEW T, NEW at, at = Matched(s, T),
         NEW offset \in Nat, NEW limit \in Nat, NEW p, p = Slice(Picked(s, T), offset, limit)
  PROVE  Paged(p, s, at, offset, limit)
<1>0. PICK in : in = {k \in at : Nth(k, at) > offset /\ Nth(k, at) <= offset + limit} OBVIOUS
<1>1. PICK q : q = Picked(s, T) OBVIOUS
<1>2. /\ q \in Seq(S)
      /\ \A k \in at : Nth(k, at) \in 1..Len(q) /\ q[Nth(k, at)] = s[k]
      /\ \A i \in 1..Len(q) : \E k \in at : Nth(k, at) = i
  BY <1>1, PickedAt
<1>3. /\ p \in Seq(S)
      /\ Len(q) <= offset => Len(p) = 0
      /\ offset < Len(q) /\ Len(q) <= offset + limit => Len(p) = Len(q) - offset
      /\ offset + limit < Len(q) => Len(p) = limit
      /\ \A i \in 1..Len(p) : offset + i \in 1..Len(q) /\ p[i] = q[offset + i]
  <2>1. q \in Seq(S) /\ p = Slice(q, offset, limit) BY <1>1, <1>2
  <2>2. p \in Seq(S) /\ Holds(p, q, offset, limit) BY <2>1, SliceIs
  <2>3. QED BY <2>2 DEF Holds
<1>4. Len(p) \in Nat /\ Len(q) \in Nat BY <1>2, <1>3
<1>5. ASSUME NEW k \in in
      PROVE  /\ k \in at /\ Nth(k, at) - offset \in 1..Len(p)
             /\ p[Nth(k, at) - offset] = s[k]
  <2>1. PICK c : c = Nth(k, at) OBVIOUS
  <2>2. k \in at /\ c \in 1..Len(q) /\ c > offset /\ c <= offset + limit /\ q[c] = s[k]
    BY <1>0, <1>2, <2>1
  <2>3. c - offset \in 1..Len(p) BY <1>3, <1>4, <2>2
  <2>4. offset + (c - offset) = c BY <1>4, <2>2
  <2>5. p[c - offset] = q[c] BY <1>3, <2>3, <2>4
  <2>6. QED BY <2>1, <2>2, <2>3, <2>5
<1>6. ASSUME NEW i \in 1..Len(p) PROVE \E k \in in : Nth(k, at) - offset = i
  <2>1. offset + i \in 1..Len(q) BY <1>3
  <2>2. PICK k \in at : Nth(k, at) = offset + i BY <1>2, <2>1
  <2>3. offset + i > offset /\ offset + i <= offset + limit /\ (offset + i) - offset = i
    BY <1>3, <1>4
  <2>4. k \in in BY <1>0, <2>2, <2>3
  <2>5. QED BY <2>2, <2>3, <2>4
<1>7. ASSUME NEW k \in in, NEW l \in in, Nth(k, at) - offset = Nth(l, at) - offset PROVE k = l
  <2>1. k \in at /\ l \in at BY <1>5
  <2>2. Nth(k, at) \in 1..Len(q) /\ Nth(l, at) \in 1..Len(q) BY <1>2, <2>1
  <2>3. Nth(k, at) = Nth(l, at) BY <1>7, <2>2, <1>4
  <2>4. PICK n : n = Len(s) OBVIOUS
  <2>5. n \in Nat /\ at \subseteq 1..n BY <2>4 DEF Matched
  <2>6. ASSUME NEW x \in at, NEW y \in at, Nth(x, at) = Nth(y, at) PROVE ~(x < y)
    <3>1. SUFFICES ASSUME x < y PROVE FALSE OBVIOUS
    <3>2. x \in 0..n /\ y \in x..n BY <2>5, <3>1
    <3>3. Nth(x, at) < Nth(y, at) BY <2>5, <3>1, <3>2, NthGrows
    <3>4. Nth(x, at) \in Nat BY <2>5, <3>2, NthCounts
    <3>5. QED BY <2>6, <3>3, <3>4
  <2>7. ~(k < l) /\ ~(l < k) BY <2>1, <2>3, <2>6
  <2>8. k \in Nat /\ l \in Nat BY <2>1, <2>5
  <2>9. QED BY <2>7, <2>8
<1>8. PICK f : f = [k \in in |-> Nth(k, at) - offset] OBVIOUS
<1>9. f \in [in -> 1..Len(p)] BY <1>5, <1>8
<1>10. f \in Injection(in, 1..Len(p)) BY <1>7, <1>8, <1>9 DEF Injection, IsInjective
<1>11. f \in Surjection(in, 1..Len(p))
  <2>1. \A i \in 1..Len(p) : \E k \in in : f[k] = i BY <1>6, <1>8
  <2>2. QED BY <1>9, <2>1 DEF Surjection
<1>12. IsFiniteSet(1..Len(p)) /\ Cardinality(1..Len(p)) = Len(p)
  <2>1. \A m \in Nat : IsFiniteSet(1..m) /\ Cardinality(1..m) = m BY FS_Interval
  <2>2. QED BY <1>4, <2>1
<1>13. Cardinality(in) = Cardinality(1..Len(p)) BY <1>10, <1>11, <1>12, FS_Injection
<1>14. QED BY <1>0, <1>5, <1>12, <1>13 DEF Paged, Within

-----------------------------------------------------------------------------
(* Lists of records *)

\* Finitely many records no two of which carry one updatedAt.
Stamped(S) ==
  /\ IsFiniteSet(S)
  /\ \A r \in S : r.at \in 1..MaxTime
  /\ \A r, q \in S : r.at = q.at => r = q

LEMMA LatestKeyed ==
  ASSUME NEW S, Stamped(S), NEW key, key = [r \in S |-> MaxTime - r.at]
  PROVE  Keyed(S, key)
<1>1. MaxTime \in Nat BY StateStoresAssumption
<1>2. ASSUME NEW r \in S PROVE key[r] = MaxTime - r.at /\ r.at \in 1..MaxTime /\ key[r] \in Nat
  <2>1. key[r] = MaxTime - r.at OBVIOUS
  <2>2. r.at \in 1..MaxTime BY DEF Stamped
  <2>3. QED BY <1>1, <2>1, <2>2
<1>3. ASSUME NEW r \in S, NEW q \in S, key[r] = key[q] PROVE r = q
  <2>1. r.at = q.at BY <1>1, <1>2, <1>3
  <2>2. QED BY <2>1 DEF Stamped
<1>4. QED BY <1>2, <1>3 DEF Keyed

\* The sort returns all records, the latest update first;
LEMMA LatestIs ==
  ASSUME NEW S, Stamped(S), NEW s, s = Latest(S)
  PROVE  /\ s \in Seq(S) /\ Len(s) = Cardinality(S) /\ ToSet(s) = S
         /\ \A k, l \in DOMAIN s : k < l => s[k].at > s[l].at
<1>1. PICK key : key = [r \in S |-> MaxTime - r.at] OBVIOUS
<1>2. Keyed(S, key) /\ IsFiniteSet(S) BY <1>1, LatestKeyed DEF Stamped
<1>3. s = Sorted(S, key) BY <1>1 DEF Latest
<1>4. s \in Seq(S) /\ Len(s) = Cardinality(S) /\ ToSet(s) = S /\ Increasing(s, key)
  BY <1>2, <1>3, SortedIs
<1>5. ASSUME NEW k \in DOMAIN s, NEW l \in DOMAIN s, k < l PROVE s[k].at > s[l].at
  <2>1. s[k] \in S /\ s[l] \in S BY <1>4 DEF ToSet
  <2>2. key[s[k]] < key[s[l]] BY <1>4, <1>5 DEF Increasing
  <2>3. key[s[k]] = MaxTime - s[k].at /\ key[s[l]] = MaxTime - s[l].at BY <1>1, <2>1
  <2>4. s[k].at \in 1..MaxTime /\ s[l].at \in 1..MaxTime BY <2>1 DEF Stamped
  <2>5. MaxTime \in Nat BY StateStoresAssumption
  <2>6. QED BY <2>2, <2>3, <2>4, <2>5
<1>6. QED BY <1>4, <1>5

\* what a filter leaves of it is the sort of the records that match;
LEMMA LatestPicked ==
  ASSUME NEW S, Stamped(S), NEW T, T \subseteq S
  PROVE  Stamped(T) /\ Picked(Latest(S), T) = Latest(T)
<1>1. PICK key : key = [r \in S |-> MaxTime - r.at] OBVIOUS
<1>2. PICK other : other = [r \in T |-> MaxTime - r.at] OBVIOUS
<1>3. Keyed(S, key) /\ IsFiniteSet(S) BY <1>1, LatestKeyed DEF Stamped
<1>4. \A r \in T : other[r] = key[r] BY <1>1, <1>2
<1>5. Picked(Sorted(S, key), T) = Sorted(T, other) BY <1>3, <1>4, PickedSorted
<1>6. T \in SUBSET S OBVIOUS
<1>7. IsFiniteSet(T) BY <1>3, <1>6, FS_Subset
<1>8. Stamped(T) BY <1>7 DEF Stamped
<1>9. Latest(S) = Sorted(S, key) /\ Latest(T) = Sorted(T, other) BY <1>1, <1>2 DEF Latest
<1>10. QED BY <1>5, <1>8, <1>9

\* and its beginning is what IsLatestOf asks for.
LEMMA LatestPage ==
  ASSUME NEW S, Stamped(S), NEW limit \in Nat
  PROVE  IsLatestOf(Slice(Latest(S), 0, limit), S, limit)
<1>1. PICK s : s = Latest(S) OBVIOUS
<1>2. /\ s \in Seq(S) /\ Len(s) = Cardinality(S) /\ ToSet(s) = S
      /\ \A k, l \in DOMAIN s : k < l => s[k].at > s[l].at
  BY <1>1, LatestIs
<1>3. PICK t : t = Slice(s, 0, limit) OBVIOUS
<1>4. t \in Seq(S) /\ Holds(t, s, 0, limit) BY <1>2, <1>3, SliceIs
<1>5. /\ DOMAIN s = 1..Len(s) /\ DOMAIN t = 1..Len(t) /\ Len(s) \in Nat /\ Len(t) \in Nat
  BY <1>2, <1>4
<1>6. ASSUME NEW k \in 1..Len(t) PROVE k \in 1..Len(s) /\ t[k] = s[k]
  <2>1. 0 + k \in 1..Len(s) /\ t[k] = s[0 + k] BY <1>4 DEF Holds
  <2>2. 0 + k = k BY <1>5
  <2>3. QED BY <2>1, <2>2
<1>7. ToSet(t) \subseteq S BY <1>4 DEF ToSet
<1>8. Len(t) = IF Cardinality(S) < limit THEN Cardinality(S) ELSE limit
  <2>1. PICK m, n : m = Len(s) /\ n = Len(t) OBVIOUS
  <2>2. m \in Nat /\ n \in Nat BY <1>5, <2>1
  <2>3. /\ m <= 0 => n = 0
        /\ 0 < m /\ m <= 0 + limit => n = m - 0
        /\ 0 + limit < m => n = limit
    BY <1>4, <2>1 DEF Holds
  <2>4. n = IF m < limit THEN m ELSE limit BY <2>2, <2>3
  <2>5. QED BY <1>2, <2>1, <2>4
<1>9. \A k, l \in DOMAIN t : k < l => t[k].at > t[l].at BY <1>2, <1>5, <1>6
<1>10. ASSUME NEW r \in S \ ToSet(t), NEW k \in DOMAIN t PROVE t[k].at > r.at
  <2>1. PICK l \in 1..Len(s) : s[l] = r BY <1>2, <1>5 DEF ToSet
  <2>2. l \notin 1..Len(t)
    <3>1. SUFFICES ASSUME l \in 1..Len(t) PROVE FALSE OBVIOUS
    <3>2. t[l] = r BY <1>6, <2>1, <3>1
    <3>3. QED BY <1>5, <1>10, <3>1, <3>2 DEF ToSet
  <2>3. k \in 1..Len(s) /\ t[k] = s[k] /\ k <= Len(t) /\ k \in Nat BY <1>5, <1>6
  <2>4. k < l BY <1>5, <2>1, <2>2, <2>3
  <2>5. s[k].at > s[l].at BY <1>2, <1>5, <2>1, <2>3, <2>4
  <2>6. QED BY <2>1, <2>3, <2>5
<1>11. IsLatestOf(t, S, limit) BY <1>7, <1>8, <1>9, <1>10 DEF IsLatestOf
<1>12. QED BY <1>1, <1>3, <1>11

LEMMA LatestFirst ==
  ASSUME NEW S, Stamped(S)
  PROVE  /\ Latest(S) = <<>> <=> S = {}
         /\ S # {} => Head(Latest(S)) \in S /\ IsLatestOf(<<Head(Latest(S))>>, S, 1)
<1>1. PICK s : s = Latest(S) OBVIOUS
<1>2. s \in Seq(S) /\ Len(s) = Cardinality(S) /\ ToSet(s) = S BY <1>1, LatestIs
<1>3. DOMAIN s = 1..Len(s) /\ Len(s) \in Nat BY <1>2
<1>4. s = <<>> <=> S = {}
  <2>1. S = {} => s = <<>>
    <3>1. SUFFICES ASSUME S = {} PROVE s = <<>> OBVIOUS
    <3>2. ~ \E k \in 1..Len(s) : TRUE BY <1>2, <3>1
    <3>3. Len(s) = 0 BY <1>3, <3>2
    <3>4. QED BY <1>2, <3>3
  <2>2. ASSUME s = <<>> PROVE S = {}
    <3>1. DOMAIN s = {} BY <2>2
    <3>2. QED BY <1>2, <3>1 DEF ToSet
  <2>3. QED BY <2>1, <2>2
<1>5. ASSUME S # {} PROVE Head(s) \in S /\ IsLatestOf(<<Head(s)>>, S, 1)
  <2>1. s # <<>> BY <1>4, <1>5
  <2>2. 1 <= Len(s) /\ Head(s) = s[1] /\ Head(s) \in S BY <1>2, <2>1
  <2>3. PICK t : t = Slice(s, 0, 1) OBVIOUS
  <2>4. t \in Seq(S) /\ Holds(t, s, 0, 1) BY <1>2, <2>3, SliceIs
  <2>5. Len(t) = 1
    <3>1. PICK m, n : m = Len(s) /\ n = Len(t) OBVIOUS
    <3>2. m \in Nat /\ 1 <= m BY <1>3, <2>2, <3>1
    <3>3. /\ 0 < m /\ m <= 0 + 1 => n = m - 0
          /\ 0 + 1 < m => n = 1
      BY <2>4, <3>1 DEF Holds
    <3>4. n = 1 BY <3>2, <3>3
    <3>5. QED BY <3>1, <3>4
  <2>6. t[1] = s[1]
    <3>1. 1 \in 1..Len(t) BY <2>5
    <3>2. t[1] = s[0 + 1] BY <2>4, <3>1 DEF Holds
    <3>3. QED BY <3>2
  <2>7. t = <<Head(s)>>
    <3>1. <<Head(s)>> \in Seq(S) /\ Len(<<Head(s)>>) = 1 /\ <<Head(s)>>[1] = Head(s) BY <2>2
    <3>2. \A i \in 1..Len(t) : t[i] = <<Head(s)>>[i] BY <2>2, <2>5, <2>6, <3>1
    <3>3. QED BY <2>4, <2>5, <3>1, <3>2, SeqEqual
  <2>8. IsLatestOf(t, S, 1) BY <1>1, <2>3, LatestPage
  <2>9. QED BY <2>2, <2>7, <2>8
<1>6. QED BY <1>1, <1>4, <1>5

-----------------------------------------------------------------------------
(* Directories and tables *)

\* A directory or a table with one record, at most, for each id.
Filed(d) ==
  /\ d \in [Id -> Records \cup {Absent}]
  /\ \A i \in Id : d[i] # Absent => d[i].id = i
  /\ \A i, j \in Id : d[i] # Absent /\ d[j] # Absent /\ d[i].at = d[j].at => d[i] = d[j]
RecordsOf(d, c) == {d[i] : i \in {j \in c : d[j] # Absent}}

LEMMA CollectionIs ==
  ASSUME NEW c \in Collection, NEW i \in c
  PROVE  /\ i \in Id /\ CollectionOf(i) = c
         /\ \A e \in Collection : i \in e => e = c
<1>1. \A e \in Collection : i \in e => e = c
  BY StateStoresAssumption DEF Collection, Owner
<1>2. CollectionOf(i) = c BY <1>1 DEF CollectionOf
<1>3. i \in Id BY DEF Collection, Id, Owner
<1>4. QED BY <1>1, <1>2, <1>3

LEMMA CollectionHas ==
  ASSUME NEW i \in Id
  PROVE  CollectionOf(i) \in Collection /\ i \in CollectionOf(i)
<1>1. PICK c \in Collection : i \in c BY DEF Collection, Id, Owner
<1>2. CollectionOf(i) = c BY <1>1, CollectionIs
<1>3. QED BY <1>1, <1>2

\* The records found in a collection can be sorted, and each is that of its id.
LEMMA RecordsOfAre ==
  ASSUME NEW d, Filed(d), NEW c \in Collection
  PROVE  /\ Stamped(RecordsOf(d, c)) /\ RecordsOf(d, c) \subseteq Records
         /\ \A r \in RecordsOf(d, c) : r # Absent /\ r.id \in c /\ r = d[r.id]
         /\ \A i \in c : d[i] # Absent => d[i] \in RecordsOf(d, c)
<1>1. PICK F : F = RecordsOf(d, c) OBVIOUS
<1>2. PICK D : D = {j \in c : d[j] # Absent} OBVIOUS
<1>3. F = {d[i] : i \in D} BY <1>1, <1>2 DEF RecordsOf
<1>4. c \in SUBSET Id BY DEF Collection, Id, Owner
<1>5. \A i \in D : i \in Id /\ i \in c /\ d[i] # Absent /\ d[i] \in Records /\ d[i].id = i
  BY <1>2, <1>4 DEF Filed
<1>6. IsFiniteSet(F)
  <2>1. D \in SUBSET Id BY <1>5
  <2>2. IsFiniteSet(D) BY <2>1, StateStoresAssumption, FS_Subset
  <2>3. PICK f : f = [i \in D |-> d[i]] OBVIOUS
  <2>4. f \in Surjection(D, F) BY <1>3, <2>3 DEF Surjection
  <2>5. QED BY <2>2, <2>4, FS_Surjection
<1>7. ASSUME NEW r \in F
      PROVE  r \in Records /\ r # Absent /\ r.id \in c /\ r.id \in Id /\ r = d[r.id]
  <2>1. PICK i \in D : r = d[i] BY <1>3
  <2>2. QED BY <1>5, <2>1
<1>8. \A r \in F : r.at \in 1..MaxTime BY <1>7 DEF Records
<1>9. ASSUME NEW r \in F, NEW q \in F, r.at = q.at PROVE r = q
  <2>1. PICK i \in D : r = d[i] BY <1>3
  <2>2. PICK j \in D : q = d[j] BY <1>3
  <2>3. QED BY <1>5, <1>9, <2>1, <2>2 DEF Filed
<1>10. Stamped(F) BY <1>6, <1>8, <1>9 DEF Stamped
<1>11. \A i \in c : d[i] # Absent => d[i] \in F BY <1>2, <1>3
<1>12. QED BY <1>1, <1>7, <1>10, <1>11

\* The records of a collection with one more, without the one it replaces.
Without(S, r) == {q \in S : q.id # r.id}
With(e, d, r) == \A i \in Id : e[i] = IF i = r.id THEN r ELSE d[i]

LEMMA RecordsOfPut ==
  ASSUME NEW d, Filed(d), NEW r \in Records, NEW e, With(e, d, r),
         NEW c \in Collection
  PROVE  RecordsOf(e, c) = IF r.id \in c THEN Without(RecordsOf(d, c), r) \cup {r} ELSE RecordsOf(d, c)
<1>1. r \in Records /\ r # Absent /\ r.id \in Id
  <2>1. r # Absent BY StateStoresAssumption DEF Records
  <2>2. QED BY <2>1 DEF Records
<1>2. c \subseteq Id BY DEF Collection, Id, Owner
<1>3. \A i \in Id : e[i] = IF i = r.id THEN r ELSE d[i] BY DEF With
<1>4. \A i \in c : d[i] # Absent => d[i].id = i BY <1>2 DEF Filed
<1>5. CASE r.id \in c
  <2>1. ASSUME NEW q \in RecordsOf(e, c) PROVE q \in {p \in RecordsOf(d, c) : p.id # r.id} \cup {r}
    <3>1. PICK i \in c : e[i] # Absent /\ q = e[i] BY DEF RecordsOf
    <3>2. CASE i = r.id BY <1>2, <1>3, <3>1, <3>2
    <3>3. CASE i # r.id
      <4>1. q = d[i] /\ d[i] # Absent BY <1>2, <1>3, <3>1, <3>3
      <4>2. q.id = i /\ q \in RecordsOf(d, c) BY <1>4, <4>1 DEF RecordsOf
      <4>3. QED BY <3>3, <4>2
    <3>4. QED BY <3>2, <3>3
  <2>2. ASSUME NEW q \in RecordsOf(d, c), q.id # r.id PROVE q \in RecordsOf(e, c)
    <3>1. PICK i \in c : d[i] # Absent /\ q = d[i] BY DEF RecordsOf
    <3>2. i # r.id BY <1>4, <2>2, <3>1
    <3>3. e[i] = d[i] BY <1>2, <1>3, <3>2
    <3>4. QED BY <3>1, <3>3 DEF RecordsOf
  <2>3. r \in RecordsOf(e, c)
    <3>1. e[r.id] = r BY <1>1, <1>3
    <3>2. QED BY <1>1, <1>5, <3>1 DEF RecordsOf
  <2>4. RecordsOf(e, c) = {p \in RecordsOf(d, c) : p.id # r.id} \cup {r} BY <2>1, <2>2, <2>3
  <2>5. QED BY <1>5, <2>4 DEF Without
<1>6. CASE r.id \notin c
  <2>1. \A i \in c : e[i] = d[i] BY <1>2, <1>3, <1>6
  <2>2. RecordsOf(e, c) = RecordsOf(d, c) BY <2>1 DEF RecordsOf
  <2>3. QED BY <1>6, <2>2
<1>7. QED BY <1>5, <1>6

\* The cache holds the records of the directory, so that a get reads the file.
LEMMA CacheHolds ==
  ASSUME Filed(dir), items = [c \in Collection |-> Latest(JsonDirectory(c))]
  PROVE  /\ \A c \in Collection : /\ JsonDirectory(c) = RecordsOf(dir, c)
                                  /\ items[c] \in Seq(Records) /\ items[c] = Latest(JsonDirectory(c))
                                  /\ ToSet(items[c]) = JsonDirectory(c)
         /\ \A i \in Id : FileGet(i) = dir[i]
<1>1. ASSUME NEW c \in Collection
      PROVE  /\ JsonDirectory(c) = RecordsOf(dir, c)
             /\ items[c] \in Seq(Records) /\ items[c] = Latest(JsonDirectory(c))
             /\ ToSet(items[c]) = JsonDirectory(c)
  <2>1. JsonDirectory(c) = RecordsOf(dir, c) BY DEF JsonDirectory, RecordsOf
  <2>2. Stamped(RecordsOf(dir, c)) /\ RecordsOf(dir, c) \subseteq Records BY RecordsOfAre
  <2>3. items[c] = Latest(RecordsOf(dir, c)) BY <2>1
  <2>4. items[c] \in Seq(RecordsOf(dir, c)) /\ ToSet(items[c]) = RecordsOf(dir, c)
    BY <2>2, <2>3, LatestIs
  <2>5. items[c] \in Seq(Records) BY <2>2, <2>4, SeqMonotonic
  <2>6. QED BY <2>1, <2>3, <2>4, <2>5
<1>2. ASSUME NEW i \in Id PROVE FileGet(i) = dir[i]
  <2>1. PICK c : c = CollectionOf(i) OBVIOUS
  <2>2. c \in Collection /\ i \in c BY <2>1, CollectionHas
  <2>3. ToSet(items[c]) = RecordsOf(dir, c) BY <1>1, <2>2
  <2>4. PICK F : F = RecordsOf(dir, c) OBVIOUS
  <2>5. /\ \A r \in F : r # Absent /\ r.id \in c /\ r = dir[r.id]
        /\ \A j \in c : dir[j] # Absent => dir[j] \in F
    BY <2>2, <2>4, RecordsOfAre
  <2>6. FileGet(i) = IF \E r \in F : r.id = i THEN CHOOSE r \in F : r.id = i ELSE Absent
    BY <2>1, <2>3, <2>4 DEF FileGet
  <2>7. CASE dir[i] = Absent
    <3>1. ~ \E r \in F : r.id = i BY <2>5, <2>7
    <3>2. QED BY <2>6, <2>7, <3>1
  <2>8. CASE dir[i] # Absent
    <3>1. dir[i] \in F /\ dir[i].id = i BY <2>2, <2>5, <2>8 DEF Filed
    <3>2. \A r \in F : r.id = i => r = dir[i] BY <2>5
    <3>3. QED BY <2>6, <3>1, <3>2
  <2>9. QED BY <2>7, <2>8
<1>3. QED BY <1>1, <1>2

-----------------------------------------------------------------------------
(* The answers *)

LEMMA KeptFiled ==
  ASSUME KeptInv
  PROVE  Filed(dir) /\ Filed(rows)
<1>1. /\ dir \in [Id -> Records \cup {Absent}] /\ rows \in [Id -> Records \cup {Absent}]
      /\ \A i \in Id : dir[i] # Absent => dir[i].id = i
      /\ \A i \in Id : rows[i] # Absent => rows[i].id = i
      /\ \A r, q \in Kept : r # Absent /\ q # Absent /\ r.at = q.at => r = q
  BY DEF KeptInv, TypesInv, RecordsInv
<1>2. \A i \in Id : dir[i] \in Kept /\ rows[i] \in Kept BY DEF Kept
<1>3. QED BY <1>1, <1>2 DEF Filed

\* The records of the store in use.
InUse == IF backend = "file" THEN dir ELSE rows

LEMMA StoredIs ==
  ASSUME KeptInv
  PROVE  /\ Filed(InUse) /\ \A i \in Id : Fetch(i) = InUse[i]
         /\ \A c \in Collection : StoredIn(c) = RecordsOf(InUse, c)
<1>1. Filed(dir) /\ Filed(rows) BY KeptFiled
<1>2. items = [c \in Collection |-> Latest(JsonDirectory(c))] BY DEF KeptInv, RecordsInv
<1>3. \A i \in Id : FileGet(i) = dir[i] BY <1>1, <1>2, CacheHolds
<1>4. \A i \in Id : Fetch(i) = InUse[i] BY <1>3 DEF Fetch, SqlGet, InUse
<1>5. ASSUME NEW c \in Collection PROVE StoredIn(c) = RecordsOf(InUse, c)
  <2>1. \A i \in c : Fetch(i) = InUse[i] BY <1>4 DEF Collection, Id, Owner
  <2>2. QED BY <2>1 DEF StoredIn, RecordsOf
<1>6. QED BY <1>1, <1>4, <1>5 DEF InUse

\* A list is sorted before or after it is filtered.
LEMMA ListIs ==
  ASSUME KeptInv, NEW c \in Collection, NEW f, NEW limit
  PROVE  List(c, f, limit) = Slice(Latest(Matching(RecordsOf(InUse, c), f)), 0, limit)
<1>1. Filed(dir) /\ Filed(rows) BY KeptFiled
<1>2. items = [e \in Collection |-> Latest(JsonDirectory(e))] BY DEF KeptInv, RecordsInv
<1>3. CASE backend = "file"
  <2>1. items[c] = Latest(RecordsOf(dir, c)) /\ ToSet(items[c]) = RecordsOf(dir, c)
    BY <1>1, <1>2, CacheHolds
  <2>2. Stamped(RecordsOf(dir, c)) BY <1>1, RecordsOfAre
  <2>3. Matching(RecordsOf(dir, c), f) \subseteq RecordsOf(dir, c) BY DEF Matching
  <2>4. Picked(items[c], Matching(RecordsOf(dir, c), f)) = Latest(Matching(RecordsOf(dir, c), f))
    BY <2>1, <2>2, <2>3, LatestPicked
  <2>5. List(c, f, limit) = Slice(Picked(items[c], Matching(RecordsOf(dir, c), f)), 0, limit)
    BY <1>3, <2>1 DEF List, FileList
  <2>6. QED BY <1>3, <2>4, <2>5 DEF InUse
<1>4. CASE backend # "file"
  <2>1. Table(c) = RecordsOf(rows, c) BY DEF Table, RecordsOf
  <2>2. QED BY <1>4, <2>1 DEF List, SqlList, InUse
<1>5. QED BY <1>3, <1>4

LEMMA ListAnswers ==
  ASSUME KeptInv, NEW c \in Collection, NEW f \in Filter, NEW limit \in Limits
  PROVE  IsLatestOf(List(c, f, limit),
           {r \in StoredIn(c) : Passes(f.job, r.job) /\ Passes(f.status, r.status)}, limit)
<1>1. PICK T : T = Matching(RecordsOf(InUse, c), f) OBVIOUS
<1>2. Filed(InUse) /\ StoredIn(c) = RecordsOf(InUse, c) BY StoredIs
<1>3. T = {r \in StoredIn(c) : Passes(f.job, r.job) /\ Passes(f.status, r.status)}
  BY <1>1, <1>2 DEF Matching
<1>4. Stamped(RecordsOf(InUse, c)) /\ T \subseteq RecordsOf(InUse, c) BY <1>1, <1>2, RecordsOfAre DEF Matching
<1>5. Stamped(T) BY <1>4, LatestPicked
<1>6. limit \in Nat BY StateStoresAssumption DEF Limits
<1>7. IsLatestOf(Slice(Latest(T), 0, limit), T, limit) BY <1>5, <1>6, LatestPage
<1>8. List(c, f, limit) = Slice(Latest(T), 0, limit) BY <1>1, ListIs
<1>9. QED BY <1>3, <1>7, <1>8

LEMMA FindAnswers ==
  ASSUME KeptInv, NEW id \in Session \cup {Absent}, NEW token \in Token \cup {Absent}
  PROVE  LET S == {r \in StoredIn(Session) : /\ <<id, token>> # <<Absent, Absent>>
                                             /\ Passes(id, r.id) /\ Passes(token, r.token)}
             r == FindSession([id |-> id, token |-> token])
         IN IF S = {} THEN r = Absent ELSE IsLatestOf(<<r>>, S, 1)
<1>1. PICK F : F = RecordsOf(InUse, Session) OBVIOUS
<1>2. PICK lookup : lookup = [id |-> id, token |-> token] OBVIOUS
<1>3. PICK T : T = MatchingLookup(F, lookup) OBVIOUS
<1>4. PICK S : S = {r \in StoredIn(Session) : /\ <<id, token>> # <<Absent, Absent>>
                                              /\ Passes(id, r.id) /\ Passes(token, r.token)}
  OBVIOUS
<1>5. Session \in Collection BY DEF Collection
<1>6. Filed(InUse) /\ StoredIn(Session) = F BY <1>1, <1>5, StoredIs
<1>7. Stamped(F) /\ T \subseteq F BY <1>1, <1>3, <1>5, <1>6, RecordsOfAre DEF MatchingLookup
<1>8. Stamped(T) BY <1>7, LatestPicked
<1>9. FindSession(lookup) = IF ~Asks(lookup) \/ Latest(T) = <<>> THEN Absent ELSE Head(Latest(T))
  <2>1. CASE backend = "file"
    <3>1. Filed(dir) BY KeptFiled
    <3>2. items = [e \in Collection |-> Latest(JsonDirectory(e))] BY DEF KeptInv, RecordsInv
    <3>3. items[Session] = Latest(F) /\ ToSet(items[Session]) = F
      BY <1>1, <1>5, <2>1, <3>1, <3>2, CacheHolds DEF InUse
    <3>4. Picked(items[Session], MatchingLookup(ToSet(items[Session]), lookup)) = Latest(T)
      BY <1>3, <1>7, <3>3, LatestPicked
    <3>5. QED BY <2>1, <3>4 DEF FindSession, FileFindSession
  <2>2. CASE backend # "file"
    <3>1. Table(Session) = F BY <1>1, <2>2 DEF Table, RecordsOf, InUse
    <3>2. QED BY <1>3, <2>2, <3>1 DEF FindSession, SqlFindSession
  <2>3. QED BY <2>1, <2>2
<1>10. Asks(lookup) <=> <<id, token>> # <<Absent, Absent>> BY <1>2 DEF Asks
<1>11. S = IF Asks(lookup) THEN T ELSE {}
  BY <1>2, <1>3, <1>4, <1>6, <1>10 DEF MatchingLookup
<1>12. CASE ~Asks(lookup) BY <1>2, <1>4, <1>9, <1>11, <1>12
<1>13. CASE Asks(lookup)
  <2>1. S = T BY <1>11, <1>13
  <2>2. Latest(T) = <<>> <=> T = {} BY <1>8, LatestFirst
  <2>3. T # {} => IsLatestOf(<<Head(Latest(T))>>, T, 1) BY <1>8, LatestFirst
  <2>4. CASE T = {} BY <1>2, <1>4, <1>9, <2>1, <2>2, <2>4
  <2>5. CASE T # {}
    <3>1. FindSession(lookup) = Head(Latest(T)) BY <1>9, <1>13, <2>2, <2>5
    <3>2. IsLatestOf(<<FindSession(lookup)>>, S, 1) BY <2>1, <2>3, <2>5, <3>1
    <3>3. S # {} BY <2>1, <2>5
    <3>4. QED BY <1>2, <1>4, <3>2, <3>3
  <2>6. QED BY <2>4, <2>5
<1>14. QED BY <1>12, <1>13

LEMMA EventsAnswer ==
  ASSUME KeptInv, NEW types, NEW offset \in Nat, NEW limit \in Nat
  PROVE  IsPartOf(ListEvents(types, offset, limit), IF backend = "file" THEN fileLog ELSE sqlLog,
                  LAMBDA e : e.type \in types, offset, limit)
<1>1. PICK log : log = IF backend = "file" THEN fileLog ELSE sqlLog OBVIOUS
<1>2. log \in Seq(Events) BY <1>1 DEF KeptInv, TypesInv
<1>3. PICK T : T = [type: types] OBVIOUS
<1>4. PICK p : p = ListEvents(types, offset, limit) OBVIOUS
<1>5. p = Slice(Picked(log, T), offset, limit)
  BY <1>1, <1>3, <1>4 DEF ListEvents, FileEvents, SqlEvents
<1>6. PICK at : at = {k \in DOMAIN log : log[k].type \in types} OBVIOUS
<1>7. at = Matched(log, T)
  <2>1. ASSUME NEW k \in DOMAIN log PROVE log[k].type \in types <=> log[k] \in T
    <3>1. log[k] \in Events BY <1>2
    <3>2. log[k] = [type |-> log[k].type] BY <3>1 DEF Events
    <3>3. QED BY <1>3, <3>2
  <2>2. QED BY <1>6, <2>1 DEF Matched
<1>8. Paged(p, log, at, offset, limit) BY <1>2, <1>5, <1>7, PageIs
<1>9. IsPartOf(p, log, LAMBDA e : e.type \in types, offset, limit)
  BY <1>6, <1>8 DEF IsPartOf, Paged, Within, Nth
<1>10. QED BY <1>1, <1>4, <1>9

\* A transcript is the sort of its entries, as are the parts that are asked for.
LEMMA SequencedIs ==
  ASSUME NEW t \in Seq(Entries), Sequenced(t), NEW T, T \subseteq ToSet(t)
  PROVE  InSequence(T) = Picked(t, T) /\ Picked(t, ToSet(t)) = t
<1>1. PICK S : S = ToSet(t) OBVIOUS
<1>2. PICK key : key = [e \in S |-> e.sequence] OBVIOUS
<1>3. DOMAIN t = 1..Len(t) /\ Len(t) \in Nat OBVIOUS
<1>4. \A k \in 1..Len(t) : t[k] \in S /\ t[k].sequence = k /\ key[t[k]] = k
  BY <1>1, <1>2, <1>3 DEF ToSet, Sequenced
<1>5. \A e \in S : \E k \in 1..Len(t) : t[k] = e BY <1>1, <1>3 DEF ToSet
<1>6. Keyed(S, key)
  <2>1. \A e \in S : key[e] \in 1..Len(t) /\ e = t[key[e]] BY <1>4, <1>5
  <2>2. \A e \in S : key[e] \in Nat BY <1>3, <2>1
  <2>3. QED BY <2>1, <2>2 DEF Keyed
<1>7. Increasing(t, key) BY <1>3, <1>4 DEF Increasing
<1>8. IsFiniteSet(S) /\ t = Sorted(S, key) BY <1>1, <1>6, <1>7, SortedOnly
<1>9. ASSUME NEW U, U \subseteq S PROVE Picked(t, U) = InSequence(U)
  <2>1. PICK other : other = [e \in U |-> e.sequence] OBVIOUS
  <2>2. \A e \in U : other[e] = key[e] BY <1>2, <1>9, <2>1
  <2>3. Picked(Sorted(S, key), U) = Sorted(U, other) BY <1>6, <1>8, <1>9, <2>2, PickedSorted
  <2>4. QED BY <1>8, <2>1, <2>3 DEF InSequence
<1>10. Picked(t, T) = InSequence(T) BY <1>1, <1>9
<1>11. Picked(t, S) = t
  <2>1. Picked(t, S) = InSequence(S) BY <1>9
  <2>2. InSequence(S) = Sorted(S, key) BY <1>2 DEF InSequence
  <2>3. QED BY <1>8, <2>1, <2>2
<1>12. QED BY <1>1, <1>10, <1>11

\* A whole transcript is asked for as what comes after 0, of any kind.
LEMMA WholeIs ==
  ASSUME NEW t \in Seq(Entries), Sequenced(t), Len(t) <= MaxCalls
  PROVE  /\ EntriesAfter(ToSet(t), 0, EntryKind) = ToSet(t)
         /\ Slice(t, 0, MaxCalls) = t
<1>1. \A e \in ToSet(t) : e \in Entries BY DEF ToSet
<1>2. MaxCalls \in Nat BY StateStoresAssumption
<1>3. \A e \in ToSet(t) : e.sequence > 0 /\ e.kind \in EntryKind BY <1>1, <1>2 DEF Entries
<1>4. EntriesAfter(ToSet(t), 0, EntryKind) = ToSet(t) BY <1>3 DEF EntriesAfter
<1>5. PICK u : u = Slice(t, 0, MaxCalls) OBVIOUS
<1>6. 0 \in Nat OBVIOUS
<1>7. u \in Seq(Entries) /\ Holds(u, t, 0, MaxCalls) BY <1>2, <1>5, <1>6, SliceIs
<1>8. Len(u) = Len(t)
  <2>1. PICK m, n : m = Len(t) /\ n = Len(u) OBVIOUS
  <2>2. m \in Nat /\ m <= MaxCalls BY <2>1
  <2>3. /\ m <= 0 => n = 0
        /\ 0 < m /\ m <= 0 + MaxCalls => n = m - 0
    BY <1>7, <2>1 DEF Holds
  <2>4. m = n BY <1>2, <2>2, <2>3
  <2>5. QED BY <2>1, <2>4
<1>9. ASSUME NEW i \in 1..Len(u) PROVE u[i] = t[i]
  <2>1. u[i] = t[0 + i] BY <1>7 DEF Holds
  <2>2. 0 + i = i OBVIOUS
  <2>3. QED BY <2>1, <2>2
<1>10. u = t BY <1>7, <1>8, <1>9, SeqEqual
<1>11. QED BY <1>4, <1>5, <1>10

\* The transcript a table or a file holds.
LEMMA TranscriptIs ==
  ASSUME KeptInv, NEW s \in Session
  PROVE  \E t \in Seq(Entries) :
           /\ Sequenced(t) /\ Len(t) <= calls /\ Len(t) <= MaxCalls
           /\ IF backend = "file" THEN fileTranscript[s] = t ELSE sqlTranscript[s] = ToSet(t)
<1>1. calls \in 0..MaxCalls /\ MaxCalls \in Nat BY StateStoresAssumption DEF KeptInv, TypesInv
<1>2. \A t \in Seq(Entries) : Len(t) <= calls => Len(t) <= MaxCalls BY <1>1
<1>3. CASE backend = "file"
  <2>1. fileTranscript[s] \in Seq(Entries) BY DEF KeptInv, TypesInv
  <2>2. Sequenced(fileTranscript[s]) /\ Len(fileTranscript[s]) <= calls
    BY DEF KeptInv, EntriesInv
  <2>3. QED BY <1>2, <1>3, <2>1, <2>2
<1>4. CASE backend # "file"
  <2>1. PICK t \in Seq(Entries) : Sequenced(t) /\ Len(t) <= calls /\ sqlTranscript[s] = ToSet(t)
    BY DEF KeptInv, EntriesInv
  <2>2. QED BY <1>2, <1>4, <2>1
<1>5. QED BY <1>3, <1>4

LEMMA EntriesAnswer ==
  ASSUME KeptInv, NEW s \in Session, NEW after, NEW kinds, NEW limit \in Nat
  PROVE  IsPartOf(ListEntries(s, after, kinds, limit), ListEntries(s, 0, EntryKind, MaxCalls),
                  LAMBDA e : e.sequence > after /\ e.kind \in kinds, 0, limit)
<1>1. PICK t \in Seq(Entries) :
        /\ Sequenced(t) /\ Len(t) <= calls /\ Len(t) <= MaxCalls
        /\ IF backend = "file" THEN fileTranscript[s] = t ELSE sqlTranscript[s] = ToSet(t)
  BY TranscriptIs
<1>2. ASSUME NEW a, NEW K, NEW l
      PROVE  ListEntries(s, a, K, l) = Slice(Picked(t, EntriesAfter(ToSet(t), a, K)), 0, l)
  <2>1. EntriesAfter(ToSet(t), a, K) \subseteq ToSet(t) BY DEF EntriesAfter
  <2>2. InSequence(EntriesAfter(ToSet(t), a, K)) = Picked(t, EntriesAfter(ToSet(t), a, K))
    BY <1>1, <2>1, SequencedIs
  <2>3. CASE backend = "file" BY <1>1, <2>3 DEF ListEntries, FileEntries
  <2>4. CASE backend # "file" BY <1>1, <2>2, <2>4 DEF ListEntries, SqlEntries
  <2>5. QED BY <2>3, <2>4
<1>3. ListEntries(s, 0, EntryKind, MaxCalls) = t
  <2>1. Picked(t, ToSet(t)) = t BY <1>1, SequencedIs
  <2>2. EntriesAfter(ToSet(t), 0, EntryKind) = ToSet(t) /\ Slice(t, 0, MaxCalls) = t
    BY <1>1, WholeIs
  <2>3. ListEntries(s, 0, EntryKind, MaxCalls)
          = Slice(Picked(t, EntriesAfter(ToSet(t), 0, EntryKind)), 0, MaxCalls)
    BY <1>2
  <2>4. QED BY <2>1, <2>2, <2>3
<1>4. PICK T : T = EntriesAfter(ToSet(t), after, kinds) OBVIOUS
<1>5. PICK p : p = ListEntries(s, after, kinds, limit) OBVIOUS
<1>6. p = Slice(Picked(t, T), 0, limit) BY <1>2, <1>4, <1>5
<1>7. PICK at : at = {k \in DOMAIN t : t[k].sequence > after /\ t[k].kind \in kinds} OBVIOUS
<1>8. at = Matched(t, T)
  <2>1. \A k \in DOMAIN t : t[k] \in ToSet(t) BY DEF ToSet
  <2>2. \A k \in DOMAIN t : t[k] \in T <=> (t[k].sequence > after /\ t[k].kind \in kinds)
    BY <1>4, <2>1 DEF EntriesAfter
  <2>3. QED BY <1>7, <2>2 DEF Matched
<1>9. Paged(p, t, at, 0, limit)
  <2>1. 0 \in Nat OBVIOUS
  <2>2. QED BY <1>6, <1>8, <2>1, PageIs
<1>10. IsPartOf(p, t, LAMBDA e : e.sequence > after /\ e.kind \in kinds, 0, limit)
  BY <1>7, <1>9 DEF IsPartOf, Paged, Within, Nth
<1>11. QED BY <1>3, <1>5, <1>10

\* What collecting the artifacts of the records of a list finds.
LEMMA RebuiltIs ==
  ASSUME NEW list \in Seq(Records), NEW a \in Artifact
  PROVE  IF \E r \in ToSet(list) : a \in results[r.id]
         THEN \E r \in ToSet(list) : a \in results[r.id] /\ Rebuilt(list)[a] = r.id
         ELSE Rebuilt(list)[a] = Absent
<1>1. PICK T : T = {r \in ToSet(list) : a \in results[r.id]} OBVIOUS
<1>2. PICK found : found = Picked(list, T) OBVIOUS
<1>3. PICK at : at = Matched(list, T) OBVIOUS
<1>4. found \in Seq(Records) BY <1>2, <1>3, PickedAt
<1>5. ToSet(found) = T
  <2>1. ToSet(found) = ToSet(list) \cap T BY <1>2, PickedKeeps
  <2>2. QED BY <1>1, <2>1
<1>6. Rebuilt(list)[a] = IF found = <<>> THEN Absent ELSE Last(found).id
  BY <1>1, <1>2 DEF Rebuilt
<1>7. CASE found = <<>>
  <2>1. DOMAIN found = {} BY <1>7
  <2>2. T = {} BY <1>5, <2>1 DEF ToSet
  <2>3. ~ \E r \in ToSet(list) : a \in results[r.id] BY <1>1, <2>2
  <2>4. QED BY <1>6, <1>7, <2>3
<1>8. CASE found # <<>>
  <2>1. Len(found) \in DOMAIN found BY <1>4, <1>8
  <2>2. Last(found) \in T BY <1>5, <2>1 DEF Last, ToSet
  <2>3. Last(found) \in ToSet(list) /\ a \in results[Last(found).id] BY <1>1, <2>2
  <2>4. Rebuilt(list)[a] = Last(found).id BY <1>6, <1>8
  <2>5. QED BY <2>3, <2>4
<1>9. QED BY <1>7, <1>8

\* Of the jobs and then the workers of a store.
JobsThenWorkers(d) == Latest(RecordsOf(d, Job)) \o Latest(RecordsOf(d, Worker))

LEMMA JobsThenWorkersAre ==
  ASSUME NEW d, Filed(d)
  PROVE  /\ JobsThenWorkers(d) \in Seq(Records)
         /\ ToSet(JobsThenWorkers(d)) = {d[o] : o \in {i \in Owner : d[i] # Absent}}
<1>1. PICK s, t : s = Latest(RecordsOf(d, Job)) /\ t = Latest(RecordsOf(d, Worker)) OBVIOUS
<1>2. Job \in Collection /\ Worker \in Collection BY DEF Collection
<1>3. /\ Stamped(RecordsOf(d, Job)) /\ Stamped(RecordsOf(d, Worker))
      /\ RecordsOf(d, Job) \subseteq Records /\ RecordsOf(d, Worker) \subseteq Records
  BY <1>2, RecordsOfAre
<1>4. s \in Seq(RecordsOf(d, Job)) /\ ToSet(s) = RecordsOf(d, Job) BY <1>1, <1>3, LatestIs
<1>5. t \in Seq(RecordsOf(d, Worker)) /\ ToSet(t) = RecordsOf(d, Worker) BY <1>1, <1>3, LatestIs
<1>6. s \in Seq(Records) /\ t \in Seq(Records) BY <1>3, <1>4, <1>5, SeqMonotonic
<1>7. PICK l : l = s \o t OBVIOUS
<1>8. /\ l \in Seq(Records) /\ Len(l) = Len(s) + Len(t)
      /\ \A i \in 1..(Len(s) + Len(t)) : l[i] = IF i <= Len(s) THEN s[i] ELSE t[i - Len(s)]
  BY <1>6, <1>7, ConcatProperties
<1>9. /\ DOMAIN l = 1..(Len(s) + Len(t)) /\ DOMAIN s = 1..Len(s) /\ DOMAIN t = 1..Len(t)
      /\ Len(s) \in Nat /\ Len(t) \in Nat
  BY <1>6, <1>8
<1>10. ToSet(l) = ToSet(s) \cup ToSet(t)
  <2>1. ASSUME NEW x \in ToSet(l) PROVE x \in ToSet(s) \cup ToSet(t)
    <3>1. PICK i \in 1..(Len(s) + Len(t)) : x = l[i] BY <1>9 DEF ToSet
    <3>2. CASE i <= Len(s)
      <4>1. i \in 1..Len(s) /\ x = s[i] BY <1>8, <1>9, <3>1, <3>2
      <4>2. QED BY <1>9, <4>1 DEF ToSet
    <3>3. CASE ~(i <= Len(s))
      <4>1. i - Len(s) \in 1..Len(t) /\ x = t[i - Len(s)] BY <1>8, <1>9, <3>1, <3>3
      <4>2. QED BY <1>9, <4>1 DEF ToSet
    <3>4. QED BY <3>2, <3>3
  <2>2. ASSUME NEW x \in ToSet(s) PROVE x \in ToSet(l)
    <3>1. PICK i \in 1..Len(s) : x = s[i] BY <1>9 DEF ToSet
    <3>2. i \in 1..(Len(s) + Len(t)) /\ l[i] = x BY <1>8, <1>9, <3>1
    <3>3. QED BY <1>9, <3>2 DEF ToSet
  <2>3. ASSUME NEW x \in ToSet(t) PROVE x \in ToSet(l)
    <3>1. PICK i \in 1..Len(t) : x = t[i] BY <1>9 DEF ToSet
    <3>2. PICK j : j = Len(s) + i OBVIOUS
    <3>3. j \in 1..(Len(s) + Len(t)) /\ ~(j <= Len(s)) /\ j - Len(s) = i BY <1>9, <3>2
    <3>4. l[j] = x BY <1>8, <3>1, <3>3
    <3>5. QED BY <1>9, <3>3, <3>4 DEF ToSet
  <2>4. QED BY <2>1, <2>2, <2>3
<1>11. RecordsOf(d, Job) \cup RecordsOf(d, Worker) = {d[o] : o \in {i \in Owner : d[i] # Absent}}
  BY DEF RecordsOf, Owner
<1>12. QED BY <1>1, <1>4, <1>5, <1>7, <1>8, <1>10, <1>11 DEF JobsThenWorkers

\* The artifacts collected from a store are those its jobs and workers list.
LEMMA CollectedIs ==
  ASSUME NEW d, Filed(d), NEW a \in Artifact, NEW o, o = Rebuilt(JobsThenWorkers(d))[a]
  PROVE  \/ o \in Owner /\ d[o] # Absent /\ a \in results[o]
         \/ o = Absent /\ \A i \in Owner : d[i] # Absent => a \notin results[i]
<1>1. PICK L : L = JobsThenWorkers(d) OBVIOUS
<1>2. L \in Seq(Records) /\ ToSet(L) = {d[i] : i \in {j \in Owner : d[j] # Absent}}
  BY <1>1, JobsThenWorkersAre
<1>3. IF \E r \in ToSet(L) : a \in results[r.id]
      THEN \E r \in ToSet(L) : a \in results[r.id] /\ Rebuilt(L)[a] = r.id
      ELSE Rebuilt(L)[a] = Absent
  BY <1>2, RebuiltIs
<1>4. \A i \in Owner : d[i] # Absent => d[i].id = i BY DEF Filed, Id
<1>5. \A r \in ToSet(L) : r.id \in Owner /\ d[r.id] # Absent BY <1>2, <1>4
<1>6. CASE \E r \in ToSet(L) : a \in results[r.id]
  <2>1. PICK r \in ToSet(L) : a \in results[r.id] /\ Rebuilt(L)[a] = r.id BY <1>3, <1>6
  <2>2. o = r.id BY <1>1, <2>1
  <2>3. QED BY <1>5, <2>1, <2>2
<1>7. CASE ~ \E r \in ToSet(L) : a \in results[r.id]
  <2>1. o = Absent BY <1>1, <1>3, <1>7
  <2>2. \A i \in Owner : d[i] # Absent => a \notin results[i] BY <1>2, <1>4, <1>7
  <2>3. QED BY <2>1, <2>2
<1>8. QED BY <1>6, <1>7

\* The list either backend collects them from.
LEMMA CollectsFrom ==
  ASSUME KeptInv
  PROVE  /\ items[Job] \o items[Worker] = JobsThenWorkers(dir)
         /\ Latest(Table(Job)) \o Latest(Table(Worker)) = JobsThenWorkers(rows)
<1>1. Filed(dir) BY KeptFiled
<1>2. items = [c \in Collection |-> Latest(JsonDirectory(c))] BY DEF KeptInv, RecordsInv
<1>3. items[Job] = Latest(RecordsOf(dir, Job)) /\ items[Worker] = Latest(RecordsOf(dir, Worker))
  BY <1>1, <1>2, CacheHolds DEF Collection
<1>4. Table(Job) = RecordsOf(rows, Job) /\ Table(Worker) = RecordsOf(rows, Worker) BY DEF Table, RecordsOf
<1>5. QED BY <1>3, <1>4 DEF JobsThenWorkers

LEMMA ArtifactsAnswer ==
  ASSUME KeptInv, NEW a \in Artifact
  PROVE  LET who == {o \in Owner : Fetch(o) # Absent /\ a \in results[o]}
         IN FindArtifact(a) \in who \/ (who = {} /\ FindArtifact(a) = Absent)
<1>1. PICK who : who = {o \in Owner : Fetch(o) # Absent /\ a \in results[o]} OBVIOUS
<1>2. Owner \subseteq Id BY DEF Id
<1>3. \A o \in Owner : Fetch(o) = InUse[o] BY <1>2, StoredIs
<1>4. PICK arts : arts = IF backend = "file" THEN fileArts ELSE sqlArts OBVIOUS
<1>5. arts[a] \in Owner \cup {Absent} BY <1>4 DEF KeptInv, TypesInv
<1>6. arts[a] # Absent => a \in results[arts[a]] /\ InUse[arts[a]] # Absent
  BY <1>4 DEF KeptInv, ArtsInv, InUse
<1>7. FindArtifact(a) = IF arts[a] # Absent THEN arts[a] ELSE Rebuilt(JobsThenWorkers(InUse))[a]
  BY <1>4, CollectsFrom DEF FindArtifact, SqlRebuilt, InUse
<1>8. CASE arts[a] # Absent
  <2>1. arts[a] \in who BY <1>1, <1>3, <1>5, <1>6, <1>8
  <2>2. QED BY <1>1, <1>7, <1>8, <2>1
<1>9. CASE arts[a] = Absent
  <2>1. PICK o : o = Rebuilt(JobsThenWorkers(InUse))[a] OBVIOUS
  <2>2. \/ o \in Owner /\ InUse[o] # Absent /\ a \in results[o]
        \/ o = Absent /\ \A i \in Owner : InUse[i] # Absent => a \notin results[i]
    BY <2>1, StoredIs, CollectedIs
  <2>3. o \in who \/ (who = {} /\ o = Absent) BY <1>1, <1>3, <2>2
  <2>4. QED BY <1>1, <1>7, <1>9, <2>1, <2>3
<1>10. QED BY <1>8, <1>9

\* A store that is kept so answers every query.
LEMMA KeptAnswers ==
  ASSUME KeptInv
  PROVE  Answers
<1>1. MaxCalls \in Nat BY StateStoresAssumption
<1>2. \A n \in 0..MaxCalls : n \in Nat OBVIOUS
<1>3. \A c \in Collection, f \in Filter, limit \in Limits :
        IsLatestOf(List(c, f, limit),
          {r \in StoredIn(c) : Passes(f.job, r.job) /\ Passes(f.status, r.status)}, limit)
  BY ListAnswers
<1>4. \A id \in Session \cup {Absent}, token \in Token \cup {Absent} :
        LET S == {r \in StoredIn(Session) : /\ <<id, token>> # <<Absent, Absent>>
                                            /\ Passes(id, r.id) /\ Passes(token, r.token)}
            r == FindSession([id |-> id, token |-> token])
        IN IF S = {} THEN r = Absent ELSE IsLatestOf(<<r>>, S, 1)
  BY FindAnswers
<1>5. \A types \in SUBSET EventType, offset, limit \in 0..MaxCalls :
        IsPartOf(ListEvents(types, offset, limit), IF backend = "file" THEN fileLog ELSE sqlLog,
                 LAMBDA e : e.type \in types, offset, limit)
  BY <1>2, EventsAnswer
<1>6. \A s \in Session, after \in 0..MaxCalls, kinds \in SUBSET EntryKind, limit \in 0..MaxCalls :
        IsPartOf(ListEntries(s, after, kinds, limit), ListEntries(s, 0, EntryKind, MaxCalls),
                 LAMBDA e : e.sequence > after /\ e.kind \in kinds, 0, limit)
  BY <1>2, EntriesAnswer
<1>7. \A a \in Artifact :
        LET who == {o \in Owner : Fetch(o) # Absent /\ a \in results[o]}
        IN FindArtifact(a) \in who \/ (who = {} /\ FindArtifact(a) = Absent)
  BY ArtifactsAnswer
<1>8. QED BY <1>3, <1>4, <1>5, <1>6, <1>7 DEF Answers

-----------------------------------------------------------------------------
(* What each step keeps *)

\* A record that is put is new, or a copy of the one the other backend holds.
NewOrCopied(r) ==
  \/ r.at \notin times /\ times' = times \cup {r.at}
  \/ r \in Kept /\ times' = times

LEMMA NewOrCopiedKeeps ==
  ASSUME KeptInv, NEW r \in Records, NewOrCopied(r), Kept' \subseteq Kept \cup {r}
  PROVE  /\ \A q \in Kept' : q # Absent => q.at \in times'
         /\ \A p, q \in Kept' : p # Absent /\ q # Absent /\ p.at = q.at => p = q
<1>1. /\ \A q \in Kept : q # Absent => q.at \in times
      /\ \A p, q \in Kept : p # Absent /\ q # Absent /\ p.at = q.at => p = q
  BY DEF KeptInv, RecordsInv
<1>2. r # Absent BY StateStoresAssumption DEF Records
<1>3. CASE r.at \notin times /\ times' = times \cup {r.at} BY <1>1, <1>2, <1>3
<1>4. CASE r \in Kept /\ times' = times BY <1>1, <1>2, <1>4
<1>5. QED BY <1>3, <1>4 DEF NewOrCopied

LEMMA FilePutKeeps ==
  ASSUME KeptInv, NEW r \in Records, NewOrCopied(r), FilePut(r), results' = results
  PROVE  /\ dir' \in [Id -> Records \cup {Absent}]
         /\ fileArts' \in [Artifact -> Owner \cup {Absent}]
         /\ RecordsInv' /\ ArtsInv'
<1>1. Filed(dir) BY KeptFiled
<1>2. PICK i : i = r.id OBVIOUS
<1>3. i \in Id /\ r # Absent BY <1>2, StateStoresAssumption DEF Records
<1>4. /\ dir \in [Id -> Records \cup {Absent}] /\ fileArts \in [Artifact -> Owner \cup {Absent}]
      /\ items = [c \in Collection |-> Latest(JsonDirectory(c))]
      /\ \A j \in Id : dir[j] # Absent => dir[j].id = j
      /\ \A j \in Id : rows[j] # Absent => rows[j].id = j
  BY DEF KeptInv, TypesInv, RecordsInv
<1>5. dir' = [dir EXCEPT ![i] = r] /\ rows' = rows /\ sqlArts' = sqlArts
  BY <1>2 DEF FilePut, tables
<1>6. dir' \in [Id -> Records \cup {Absent}] /\ \A j \in Id : dir'[j] = IF j = i THEN r ELSE dir[j]
  BY <1>3, <1>4, <1>5
<1>7. Kept' \subseteq Kept \cup {r} BY <1>5, <1>6 DEF Kept
<1>8. items' = [c \in Collection |-> Latest(JsonDirectory(c)')]
  <2>1. ASSUME NEW c \in Collection PROVE items'[c] = Latest(JsonDirectory(c)')
    <3>1. ToSet(items[c]) = RecordsOf(dir, c) /\ items[c] = Latest(RecordsOf(dir, c))
      BY <1>1, <1>4, CacheHolds
    <3>2. JsonDirectory(c)' = RecordsOf(dir', c) BY DEF JsonDirectory, RecordsOf
    <3>3. RecordsOf(dir', c) = IF i \in c THEN {q \in RecordsOf(dir, c) : q.id # i} \cup {r}
                                      ELSE RecordsOf(dir, c)
      <4>1. PICK e : e = dir' OBVIOUS
      <4>2. With(e, dir, r) BY <1>2, <1>6, <4>1 DEF With
      <4>3. RecordsOf(e, c) = IF r.id \in c THEN Without(RecordsOf(dir, c), r) \cup {r} ELSE RecordsOf(dir, c)
        BY <1>1, <4>2, RecordsOfPut
      <4>4. QED BY <1>2, <4>1, <4>3 DEF Without
    <3>4. i \in c <=> CollectionOf(i) = c BY <1>3, CollectionIs, CollectionHas
    <3>5. items'[c] = IF CollectionOf(i) = c THEN Upserted(items[c], r) ELSE items[c]
      BY <1>2, <1>4 DEF FilePut
    <3>6. Upserted(items[c], r) = Latest({q \in RecordsOf(dir, c) : q.id # i} \cup {r})
      BY <1>2, <3>1 DEF Upserted, EntityCache
    <3>7. QED BY <3>1, <3>2, <3>3, <3>4, <3>5, <3>6
  <2>2. items' = [c \in Collection |-> items'[c]] BY <1>4 DEF FilePut
  <2>3. QED BY <2>1, <2>2
<1>9. RecordsInv'
  <2>1. \A j \in Id : dir'[j] # Absent => dir'[j].id = j BY <1>2, <1>4, <1>6
  <2>2. \A j \in Id : rows'[j] # Absent => rows'[j].id = j BY <1>4, <1>5
  <2>3. /\ \A q \in Kept' : q # Absent => q.at \in times'
        /\ \A p, q \in Kept' : p # Absent /\ q # Absent /\ p.at = q.at => p = q
    BY <1>7, NewOrCopiedKeeps
  <2>4. QED BY <1>8, <2>1, <2>2, <2>3 DEF RecordsInv
<1>10. fileArts' = IF i \in Owner THEN Replaced(fileArts, i) ELSE fileArts
  BY <1>2 DEF FilePut
<1>11. \A a \in Artifact : fileArts'[a] \in {fileArts[a], Absent}
                           \/ (i \in Owner /\ fileArts'[a] = i /\ a \in results[i])
  BY <1>10 DEF Replaced
<1>12. fileArts' \in [Artifact -> Owner \cup {Absent}]
  <2>1. fileArts' = [a \in Artifact |-> fileArts'[a]] BY <1>4, <1>10 DEF Replaced
  <2>2. \A a \in Artifact : fileArts'[a] \in Owner \cup {Absent} BY <1>4, <1>11
  <2>3. QED BY <2>1, <2>2
<1>13. ArtsInv'
  <2>1. /\ \A a \in Artifact : fileArts[a] # Absent => a \in results[fileArts[a]] /\ dir[fileArts[a]] # Absent
        /\ \A a \in Artifact : sqlArts[a] # Absent => a \in results[sqlArts[a]] /\ rows[sqlArts[a]] # Absent
    BY DEF KeptInv, ArtsInv
  <2>2. \A j \in Id : dir[j] # Absent => dir'[j] # Absent BY <1>3, <1>6
  <2>3. Owner \subseteq Id BY DEF Id
  <2>4. \A a \in Artifact : fileArts'[a] # Absent => a \in results[fileArts'[a]] /\ dir'[fileArts'[a]] # Absent
    BY <1>3, <1>4, <1>6, <1>11, <2>1, <2>2, <2>3
  <2>5. QED BY <1>5, <2>1, <2>4 DEF ArtsInv
<1>14. QED BY <1>6, <1>9, <1>12, <1>13

LEMMA SqlPutKeeps ==
  ASSUME KeptInv, NEW r \in Records, NewOrCopied(r), SqlPut(r), results' = results
  PROVE  /\ rows' \in [Id -> Records \cup {Absent}]
         /\ sqlArts' \in [Artifact -> Owner \cup {Absent}]
         /\ RecordsInv' /\ ArtsInv'
<1>2. PICK i : i = r.id OBVIOUS
<1>3. i \in Id /\ r # Absent BY <1>2, StateStoresAssumption DEF Records
<1>4. /\ rows \in [Id -> Records \cup {Absent}] /\ sqlArts \in [Artifact -> Owner \cup {Absent}]
      /\ items = [c \in Collection |-> Latest(JsonDirectory(c))]
      /\ \A j \in Id : dir[j] # Absent => dir[j].id = j
      /\ \A j \in Id : rows[j] # Absent => rows[j].id = j
  BY DEF KeptInv, TypesInv, RecordsInv
<1>5. rows' = [rows EXCEPT ![i] = r] /\ dir' = dir /\ items' = items /\ fileArts' = fileArts
  BY <1>2 DEF SqlPut, files
<1>6. rows' \in [Id -> Records \cup {Absent}] /\ \A j \in Id : rows'[j] = IF j = i THEN r ELSE rows[j]
  BY <1>3, <1>4, <1>5
<1>7. Kept' \subseteq Kept \cup {r} BY <1>5, <1>6 DEF Kept
<1>8. items' = [c \in Collection |-> Latest(JsonDirectory(c)')]
  <2>1. \A c \in Collection : JsonDirectory(c)' = JsonDirectory(c) BY <1>5 DEF JsonDirectory
  <2>2. QED BY <1>4, <1>5, <2>1
<1>9. RecordsInv'
  <2>1. \A j \in Id : rows'[j] # Absent => rows'[j].id = j BY <1>2, <1>4, <1>6
  <2>2. \A j \in Id : dir'[j] # Absent => dir'[j].id = j BY <1>4, <1>5
  <2>3. /\ \A q \in Kept' : q # Absent => q.at \in times'
        /\ \A p, q \in Kept' : p # Absent /\ q # Absent /\ p.at = q.at => p = q
    BY <1>7, NewOrCopiedKeeps
  <2>4. QED BY <1>8, <2>1, <2>2, <2>3 DEF RecordsInv
<1>10. sqlArts' = IF i \in Owner THEN SqlReplaced(sqlArts, i) ELSE sqlArts
  BY <1>2 DEF SqlPut
<1>11. \A a \in Artifact : sqlArts'[a] \in {sqlArts[a], Absent}
                           \/ (i \in Owner /\ sqlArts'[a] = i /\ a \in results[i])
  BY <1>10 DEF SqlReplaced
<1>12. sqlArts' \in [Artifact -> Owner \cup {Absent}]
  <2>1. sqlArts' = [a \in Artifact |-> sqlArts'[a]] BY <1>4, <1>10 DEF SqlReplaced
  <2>2. \A a \in Artifact : sqlArts'[a] \in Owner \cup {Absent} BY <1>4, <1>11
  <2>3. QED BY <2>1, <2>2
<1>13. ArtsInv'
  <2>1. /\ \A a \in Artifact : fileArts[a] # Absent => a \in results[fileArts[a]] /\ dir[fileArts[a]] # Absent
        /\ \A a \in Artifact : sqlArts[a] # Absent => a \in results[sqlArts[a]] /\ rows[sqlArts[a]] # Absent
    BY DEF KeptInv, ArtsInv
  <2>2. \A j \in Id : rows[j] # Absent => rows'[j] # Absent BY <1>3, <1>6
  <2>3. Owner \subseteq Id BY DEF Id
  <2>4. \A a \in Artifact : sqlArts'[a] # Absent => a \in results[sqlArts'[a]] /\ rows'[sqlArts'[a]] # Absent
    BY <1>3, <1>4, <1>6, <1>11, <2>1, <2>2, <2>3
  <2>5. QED BY <1>5, <2>1, <2>4 DEF ArtsInv
<1>14. QED BY <1>6, <1>9, <1>12, <1>13

LEMMA EntriesKept ==
  ASSUME KeptInv, UNCHANGED <<fileTranscript, sqlTranscript>>, calls' \in {calls, calls + 1}
  PROVE  EntriesInv'
<1>1. calls \in Nat BY StateStoresAssumption DEF KeptInv, TypesInv
<1>2. \A n \in Nat : n <= calls => n <= calls' BY <1>1
<1>3. \A s \in Session : Sequenced(fileTranscript[s]) /\ Len(fileTranscript[s]) <= calls
  BY DEF KeptInv, EntriesInv
<1>4. \A s \in Session : fileTranscript[s] \in Seq(Entries) BY DEF KeptInv, TypesInv
<1>5. \A s \in Session : Len(fileTranscript[s]) \in Nat BY <1>4
<1>6. \A s \in Session : Sequenced(fileTranscript'[s]) /\ Len(fileTranscript'[s]) <= calls'
  BY <1>2, <1>3, <1>5
<1>7. ASSUME NEW s \in Session
      PROVE  \E t \in Seq(Entries) : Sequenced(t) /\ Len(t) <= calls' /\ sqlTranscript'[s] = ToSet(t)
  <2>1. PICK t \in Seq(Entries) : Sequenced(t) /\ Len(t) <= calls /\ sqlTranscript[s] = ToSet(t)
    BY DEF KeptInv, EntriesInv
  <2>2. Len(t) \in Nat OBVIOUS
  <2>3. QED BY <1>2, <2>1, <2>2
<1>8. QED BY <1>6, <1>7 DEF EntriesInv, Sequenced

LEMMA RecordsKept ==
  ASSUME KeptInv, UNCHANGED <<dir, rows, items, times>>
  PROVE  RecordsInv'
<1>1. Kept' = Kept BY DEF Kept
<1>2. \A c \in Collection : JsonDirectory(c)' = JsonDirectory(c) BY DEF JsonDirectory
<1>3. QED BY <1>1, <1>2 DEF KeptInv, RecordsInv

\* A store of one more record.
LEMMA StoreKeeps ==
  ASSUME KeptInv, NEW i \in Id, NEW status \in Status, NEW token \in Token \cup {Absent},
         NEW t \in 1..MaxTime, Store(i, status, token, t)
  PROVE  KeptInv'
<1>1. PICK r : r = NewRecord(i, status, token, t) OBVIOUS
<1>2. r \in Records /\ r.at = t /\ r.id = i
  <2>1. JobOfId(i) \in Job BY StateStoresAssumption DEF JobOfId, Id, Owner
  <2>2. QED BY <1>1, <2>1 DEF NewRecord, Records
<1>3. /\ t \notin times /\ times' = times \cup {t} /\ UNCHANGED <<backend, results, importing, starts>>
      /\ importing = <<>> /\ calls < MaxCalls /\ calls' = calls + 1
  BY DEF Store, Calling, Open
<1>4. NewOrCopied(r) BY <1>2, <1>3 DEF NewOrCopied
<1>5. calls \in 0..MaxCalls /\ MaxCalls \in Nat /\ times \in SUBSET (1..MaxTime)
  BY StateStoresAssumption DEF KeptInv, TypesInv
<1>6. calls' \in 0..MaxCalls /\ times' \in SUBSET (1..MaxTime) BY <1>3, <1>5
<1>7. ImportInv' BY <1>3 DEF ImportInv
<1>8. CASE backend = "file"
  <2>1. FilePut(r) BY <1>1, <1>8 DEF Store
  <2>2. UNCHANGED <<fileLog, fileTranscript, rows, sqlLog, sqlTranscript, sqlArts>>
    BY <2>1 DEF FilePut, tables
  <2>3. /\ dir' \in [Id -> Records \cup {Absent}] /\ fileArts' \in [Artifact -> Owner \cup {Absent}]
        /\ RecordsInv' /\ ArtsInv'
    BY <1>2, <1>3, <1>4, <2>1, FilePutKeeps
  <2>4. TypesInv' BY <1>3, <1>6, <2>2, <2>3 DEF KeptInv, TypesInv
  <2>5. EntriesInv' BY <1>3, <2>2, EntriesKept
  <2>6. QED BY <1>7, <2>3, <2>4, <2>5 DEF KeptInv
<1>9. CASE backend # "file"
  <2>1. SqlPut(r) BY <1>1, <1>9 DEF Store
  <2>2. UNCHANGED <<sqlLog, sqlTranscript, dir, items, fileLog, fileTranscript, fileArts>>
    BY <2>1 DEF SqlPut, files
  <2>3. /\ rows' \in [Id -> Records \cup {Absent}] /\ sqlArts' \in [Artifact -> Owner \cup {Absent}]
        /\ RecordsInv' /\ ArtsInv'
    BY <1>2, <1>3, <1>4, <2>1, SqlPutKeeps
  <2>4. TypesInv' BY <1>3, <1>6, <2>2, <2>3 DEF KeptInv, TypesInv
  <2>5. EntriesInv' BY <1>3, <2>2, EntriesKept
  <2>6. QED BY <1>7, <2>3, <2>4, <2>5 DEF KeptInv
<1>10. QED BY <1>8, <1>9

LEMMA ResultKeeps ==
  ASSUME KeptInv, NEW o \in Owner, NEW S \in SUBSET Artifact, WriteResult(o, S)
  PROVE  KeptInv'
<1>1. /\ importing = <<>> /\ calls < MaxCalls /\ calls' = calls + 1
      /\ results[o] = {} /\ results' = [results EXCEPT ![o] = S]
      /\ UNCHANGED <<backend, times, importing, starts>>
      /\ UNCHANGED <<dir, items, fileLog, fileTranscript, fileArts>>
      /\ UNCHANGED <<rows, sqlLog, sqlTranscript, sqlArts>>
  BY DEF WriteResult, Calling, Open, files, tables
<1>2. TypesInv'
  <2>1. calls' \in 0..MaxCalls BY <1>1, StateStoresAssumption DEF KeptInv, TypesInv
  <2>2. results' \in [Owner -> SUBSET Artifact] BY <1>1 DEF KeptInv, TypesInv
  <2>3. QED BY <1>1, <2>1, <2>2 DEF KeptInv, TypesInv
<1>3. RecordsInv' BY <1>1, RecordsKept
<1>4. EntriesInv' BY <1>1, EntriesKept
<1>5. ArtsInv'
  <2>1. results \in [Owner -> SUBSET Artifact] BY DEF KeptInv, TypesInv
  <2>2. \A p \in Owner, a \in Artifact : a \in results[p] => a \in results'[p] BY <1>1, <2>1
  <2>3. /\ fileArts \in [Artifact -> Owner \cup {Absent}]
        /\ sqlArts \in [Artifact -> Owner \cup {Absent}]
    BY DEF KeptInv, TypesInv
  <2>4. ArtsInv BY DEF KeptInv
  <2>5. QED BY <1>1, <2>2, <2>3, <2>4 DEF ArtsInv
<1>6. ImportInv' BY <1>1 DEF ImportInv
<1>7. QED BY <1>2, <1>3, <1>4, <1>5, <1>6 DEF KeptInv

LEMMA EventKeeps ==
  ASSUME KeptInv, NEW type \in EventType, AppendEvent(type)
  PROVE  KeptInv'
<1>1. /\ importing = <<>> /\ calls < MaxCalls /\ calls' = calls + 1
      /\ UNCHANGED <<backend, times, results, importing, starts>>
      /\ UNCHANGED <<dir, items, fileTranscript, fileArts>>
      /\ UNCHANGED <<rows, sqlTranscript, sqlArts>>
  BY DEF AppendEvent, Calling, Open, files, tables
<1>2. \/ fileLog' = Append(fileLog, [type |-> type]) /\ sqlLog' = sqlLog
      \/ sqlLog' = Append(sqlLog, [type |-> type]) /\ fileLog' = fileLog
  BY DEF AppendEvent, files, tables
<1>3. TypesInv'
  <2>1. calls' \in 0..MaxCalls BY <1>1, StateStoresAssumption DEF KeptInv, TypesInv
  <2>2. [type |-> type] \in Events BY DEF Events
  <2>3. fileLog \in Seq(Events) /\ sqlLog \in Seq(Events) BY DEF KeptInv, TypesInv
  <2>4. fileLog' \in Seq(Events) /\ sqlLog' \in Seq(Events) BY <1>2, <2>2, <2>3, AppendProperties
  <2>5. QED BY <1>1, <2>1, <2>4 DEF KeptInv, TypesInv
<1>4. RecordsInv' BY <1>1, RecordsKept
<1>5. EntriesInv' BY <1>1, EntriesKept
<1>6. ArtsInv' BY <1>1 DEF KeptInv, ArtsInv
<1>7. ImportInv' BY <1>1 DEF ImportInv
<1>8. QED BY <1>3, <1>4, <1>5, <1>6, <1>7 DEF KeptInv

\* A transcript with one more entry.
LEMMA SequencedAppend ==
  ASSUME NEW t \in Seq(Entries), Sequenced(t), Len(t) < MaxCalls, NEW kind \in EntryKind,
         NEW e, e = [sequence |-> Len(t) + 1, kind |-> kind]
  PROVE  /\ Append(t, e) \in Seq(Entries) /\ Sequenced(Append(t, e))
         /\ Len(Append(t, e)) = Len(t) + 1
         /\ ToSet(Append(t, e)) = ToSet(t) \cup {e}
         /\ (IF t = <<>> THEN 1 ELSE Last(t).sequence + 1) = Len(t) + 1
         /\ 1 + Cardinality(ToSet(t)) = Len(t) + 1
<1>1. Len(t) \in Nat /\ MaxCalls \in Nat BY StateStoresAssumption
<1>2. e \in Entries BY <1>1 DEF Entries
<1>3. PICK u : u = Append(t, e) OBVIOUS
<1>4. /\ u \in Seq(Entries) /\ Len(u) = Len(t) + 1 /\ u[Len(t) + 1] = e
      /\ \A k \in 1..Len(t) : u[k] = t[k]
  BY <1>2, <1>3, AppendProperties
<1>5. DOMAIN u = 1..(Len(t) + 1) /\ DOMAIN t = 1..Len(t) BY <1>4
<1>6. \A k \in 1..(Len(t) + 1) : k \in 1..Len(t) \/ k = Len(t) + 1 BY <1>1
<1>7. Sequenced(u) BY <1>4, <1>5, <1>6 DEF Sequenced
<1>8. ToSet(u) = ToSet(t) \cup {e}
  <2>1. \A k \in 1..Len(t) : k \in 1..(Len(t) + 1) BY <1>1
  <2>2. Len(t) + 1 \in 1..(Len(t) + 1) BY <1>1
  <2>3. QED BY <1>4, <1>5, <1>6, <2>1, <2>2 DEF ToSet
<1>9. (IF t = <<>> THEN 1 ELSE Last(t).sequence + 1) = Len(t) + 1
  <2>1. CASE t = <<>> BY <2>1
  <2>2. CASE t # <<>>
    <3>1. Len(t) \in DOMAIN t BY <2>2
    <3>2. Last(t).sequence = Len(t) BY <3>1 DEF Last, Sequenced
    <3>3. QED BY <2>2, <3>2
  <2>3. QED BY <2>1, <2>2
<1>10. Cardinality(ToSet(t)) = Len(t)
  <2>1. PICK key : key = [x \in ToSet(t) |-> x.sequence] OBVIOUS
  <2>2. \A k \in 1..Len(t) : t[k] \in ToSet(t) /\ key[t[k]] = k
    BY <1>5, <2>1 DEF ToSet, Sequenced
  <2>3. \A x \in ToSet(t) : \E k \in 1..Len(t) : t[k] = x BY <1>5 DEF ToSet
  <2>4. \A x \in ToSet(t) : key[x] \in 1..Len(t) /\ x = t[key[x]] BY <2>2, <2>3
  <2>5. \A x \in ToSet(t) : key[x] \in Nat BY <2>4
  <2>6. Keyed(ToSet(t), key) BY <2>4, <2>5 DEF Keyed
  <2>7. Increasing(t, key) BY <1>5, <2>2 DEF Increasing
  <2>8. QED BY <2>6, <2>7, SortedOnly
<1>11. 1 + Cardinality(ToSet(t)) = Len(t) + 1 BY <1>1, <1>10
<1>12. QED BY <1>3, <1>4, <1>7, <1>8, <1>9, <1>11

\* What appending an entry does to a transcript.
LEMMA EntryAppended ==
  ASSUME KeptInv, NEW s \in Session, NEW kind \in EntryKind, AppendEntry(s, kind),
         NEW t \in Seq(Entries), Sequenced(t), Len(t) <= calls,
         IF backend = "file" THEN fileTranscript[s] = t ELSE sqlTranscript[s] = ToSet(t)
  PROVE  \E e \in Entries :
           /\ Append(t, e) \in Seq(Entries) /\ Sequenced(Append(t, e))
           /\ Len(Append(t, e)) = Len(t) + 1
           /\ backend = "file" => fileTranscript' = [fileTranscript EXCEPT ![s] = Append(t, e)]
           /\ backend # "file" => sqlTranscript' = [sqlTranscript EXCEPT ![s] = ToSet(Append(t, e))]
<1>1. PICK e : e = [sequence |-> Len(t) + 1, kind |-> kind] OBVIOUS
<1>2. calls < MaxCalls /\ calls \in Nat /\ MaxCalls \in Nat
  BY StateStoresAssumption DEF AppendEntry, Calling, KeptInv, TypesInv
<1>3. Len(t) < MaxCalls BY <1>2
<1>4. /\ Append(t, e) \in Seq(Entries) /\ Sequenced(Append(t, e))
      /\ Len(Append(t, e)) = Len(t) + 1
      /\ ToSet(Append(t, e)) = ToSet(t) \cup {e}
      /\ (IF t = <<>> THEN 1 ELSE Last(t).sequence + 1) = Len(t) + 1
      /\ 1 + Cardinality(ToSet(t)) = Len(t) + 1
  BY <1>1, <1>3, SequencedAppend
<1>5. e \in Entries
  <2>1. Len(t) \in Nat OBVIOUS
  <2>2. QED BY <1>1, <1>2, <1>3, <2>1 DEF Entries
<1>6. ASSUME backend = "file" PROVE fileTranscript' = [fileTranscript EXCEPT ![s] = Append(t, e)]
  <2>1. PICK x : x = [sequence |-> IF t = <<>> THEN 1 ELSE Last(t).sequence + 1, kind |-> kind]
    OBVIOUS
  <2>2. x = e BY <1>1, <1>4, <2>1
  <2>3. fileTranscript[s] = t BY <1>6
  <2>4. fileTranscript' = [fileTranscript EXCEPT ![s] =
           Append(fileTranscript[s],
             [sequence |-> IF fileTranscript[s] = <<>> THEN 1
                           ELSE Last(fileTranscript[s]).sequence + 1, kind |-> kind])]
    BY <1>6 DEF AppendEntry
  <2>5. QED BY <2>1, <2>2, <2>3, <2>4
<1>7. ASSUME backend # "file"
      PROVE  sqlTranscript' = [sqlTranscript EXCEPT ![s] = ToSet(Append(t, e))]
  <2>1. sqlTranscript[s] = ToSet(t) BY <1>7
  <2>2. sqlTranscript' = [sqlTranscript EXCEPT ![s] =
           sqlTranscript[s] \cup {[sequence |-> 1 + Cardinality(sqlTranscript[s]), kind |-> kind]}]
    BY <1>7 DEF AppendEntry
  <2>3. [sequence |-> 1 + Cardinality(ToSet(t)), kind |-> kind] = e BY <1>1, <1>4
  <2>4. QED BY <1>4, <2>1, <2>2, <2>3
<1>8. QED BY <1>4, <1>5, <1>6, <1>7

LEMMA EntryKeeps ==
  ASSUME KeptInv, NEW s \in Session, NEW kind \in EntryKind, AppendEntry(s, kind)
  PROVE  KeptInv'
<1>1. /\ importing = <<>> /\ calls < MaxCalls /\ calls' = calls + 1
      /\ UNCHANGED <<backend, times, results, importing, starts>>
      /\ UNCHANGED <<dir, items, fileLog, fileArts, rows, sqlLog, sqlArts>>
      /\ backend = "file" => sqlTranscript' = sqlTranscript
      /\ backend # "file" => fileTranscript' = fileTranscript
  BY DEF AppendEntry, Calling, Open, files, tables
<1>2. PICK t \in Seq(Entries) :
        /\ Sequenced(t) /\ Len(t) <= calls /\ Len(t) <= MaxCalls
        /\ IF backend = "file" THEN fileTranscript[s] = t ELSE sqlTranscript[s] = ToSet(t)
  BY TranscriptIs
<1>3. PICK e \in Entries :
        /\ Append(t, e) \in Seq(Entries) /\ Sequenced(Append(t, e))
        /\ Len(Append(t, e)) = Len(t) + 1
        /\ backend = "file" => fileTranscript' = [fileTranscript EXCEPT ![s] = Append(t, e)]
        /\ backend # "file" => sqlTranscript' = [sqlTranscript EXCEPT ![s] = ToSet(Append(t, e))]
  BY <1>2, EntryAppended
<1>4. PICK u : u = Append(t, e) OBVIOUS
<1>5. u \in Seq(Entries) /\ Sequenced(u) /\ Len(u) <= calls' /\ ToSet(u) \in SUBSET Entries
  <2>1. Len(t) \in Nat /\ calls \in Nat BY <1>2, StateStoresAssumption DEF KeptInv, TypesInv
  <2>2. Len(u) <= calls' BY <1>1, <1>2, <1>3, <1>4, <2>1
  <2>3. QED BY <1>3, <1>4, <2>2 DEF ToSet
<1>6. /\ fileTranscript \in [Session -> Seq(Entries)] /\ sqlTranscript \in [Session -> SUBSET Entries]
      /\ calls \in 0..MaxCalls /\ MaxCalls \in Nat
  BY StateStoresAssumption DEF KeptInv, TypesInv
<1>7. /\ fileTranscript' \in [Session -> Seq(Entries)]
      /\ \A z \in Session : fileTranscript'[z] = fileTranscript[z]
           \/ (backend = "file" /\ z = s /\ fileTranscript'[z] = u)
  <2>1. CASE backend = "file" BY <1>3, <1>4, <1>5, <1>6, <2>1
  <2>2. CASE backend # "file" BY <1>1, <1>6, <2>2
  <2>3. QED BY <2>1, <2>2
<1>8. /\ sqlTranscript' \in [Session -> SUBSET Entries]
      /\ \A z \in Session : sqlTranscript'[z] = sqlTranscript[z] \/ sqlTranscript'[z] = ToSet(u)
  <2>1. CASE backend = "file" BY <1>1, <1>6, <2>1
  <2>2. CASE backend # "file" BY <1>3, <1>4, <1>5, <1>6, <2>2
  <2>3. QED BY <2>1, <2>2
<1>9. TypesInv'
  <2>1. calls' \in 0..MaxCalls BY <1>1, <1>6
  <2>2. QED BY <1>1, <1>7, <1>8, <2>1 DEF KeptInv, TypesInv
<1>10. RecordsInv' BY <1>1, RecordsKept
<1>11. EntriesInv'
  <2>1. \A z \in Session : Sequenced(fileTranscript[z]) /\ Len(fileTranscript[z]) <= calls
    BY DEF KeptInv, EntriesInv
  <2>2. \A z \in Session : Sequenced(fileTranscript'[z])
    <3>1. ASSUME NEW z \in Session PROVE Sequenced(fileTranscript'[z])
      <4>1. PICK x : x = fileTranscript'[z] OBVIOUS
      <4>2. Sequenced(x) BY <1>5, <1>7, <2>1, <4>1
      <4>3. QED BY <4>1, <4>2 DEF Sequenced
    <3>2. QED BY <3>1
  <2>3. \A z \in Session : Len(fileTranscript'[z]) <= calls'
    <3>1. \A n \in Nat : n <= calls => n <= calls' BY <1>1, <1>6
    <3>2. \A z \in Session : Len(fileTranscript[z]) \in Nat BY <1>6
    <3>3. QED BY <1>5, <1>7, <2>1, <3>1, <3>2
  <2>4. ASSUME NEW z \in Session
        PROVE  \E x \in Seq(Entries) : Sequenced(x) /\ Len(x) <= calls' /\ sqlTranscript'[z] = ToSet(x)
    <3>1. PICK x \in Seq(Entries) : Sequenced(x) /\ Len(x) <= calls /\ sqlTranscript[z] = ToSet(x)
      BY DEF KeptInv, EntriesInv
    <3>2. Len(x) \in Nat OBVIOUS
    <3>3. Len(x) <= calls' BY <1>1, <1>6, <3>1, <3>2
    <3>4. CASE sqlTranscript'[z] = sqlTranscript[z] BY <3>1, <3>3, <3>4
    <3>5. CASE sqlTranscript'[z] = ToSet(u) BY <1>5, <3>5
    <3>6. QED BY <1>8, <3>4, <3>5
  <2>5. QED BY <2>2, <2>3, <2>4 DEF EntriesInv, Sequenced
<1>12. ArtsInv' BY <1>1 DEF KeptInv, ArtsInv
<1>13. ImportInv' BY <1>1 DEF ImportInv
<1>14. QED BY <1>9, <1>10, <1>11, <1>12, <1>13 DEF KeptInv

\* An index collected from a store lists what its jobs and workers list.
LEMMA CollectKeeps ==
  ASSUME NEW d, Filed(d), NEW arts, arts = Rebuilt(JobsThenWorkers(d))
  PROVE  /\ arts \in [Artifact -> Owner \cup {Absent}]
         /\ \A a \in Artifact : arts[a] # Absent => a \in results[arts[a]] /\ d[arts[a]] # Absent
<1>1. \A a \in Artifact : \/ (arts[a] \in Owner /\ d[arts[a]] # Absent /\ a \in results[arts[a]])
                          \/ arts[a] = Absent
  BY CollectedIs
<1>2. arts = [a \in Artifact |-> arts[a]] BY DEF Rebuilt
<1>3. \A a \in Artifact : arts[a] \in Owner \cup {Absent} BY <1>1
<1>4. \A a \in Artifact : arts[a] # Absent => a \in results[arts[a]] /\ d[arts[a]] # Absent BY <1>1
<1>5. QED BY <1>2, <1>3, <1>4

LEMMA RebuildKeeps ==
  ASSUME KeptInv, NEW a \in Artifact, Rebuild(a)
  PROVE  KeptInv'
<1>1. /\ importing = <<>>
      /\ UNCHANGED <<backend, times, results, importing, calls, starts>>
      /\ UNCHANGED <<dir, items, fileLog, fileTranscript>>
      /\ UNCHANGED <<rows, sqlLog, sqlTranscript>>
      /\ (fileArts' = Rebuilt(JobsThenWorkers(dir)) /\ sqlArts' = sqlArts)
         \/ (sqlArts' = Rebuilt(JobsThenWorkers(rows)) /\ fileArts' = fileArts)
  BY CollectsFrom DEF Rebuild, SqlRebuilt, Open, files, tables
<1>2. Filed(dir) /\ Filed(rows) BY KeptFiled
<1>3. /\ fileArts \in [Artifact -> Owner \cup {Absent}]
      /\ sqlArts \in [Artifact -> Owner \cup {Absent}]
      /\ \A b \in Artifact : fileArts[b] # Absent => b \in results[fileArts[b]] /\ dir[fileArts[b]] # Absent
      /\ \A b \in Artifact : sqlArts[b] # Absent => b \in results[sqlArts[b]] /\ rows[sqlArts[b]] # Absent
  BY DEF KeptInv, TypesInv, ArtsInv
<1>4. /\ fileArts' \in [Artifact -> Owner \cup {Absent}]
      /\ \A b \in Artifact : fileArts'[b] # Absent => b \in results[fileArts'[b]] /\ dir[fileArts'[b]] # Absent
  <2>1. CASE fileArts' = Rebuilt(JobsThenWorkers(dir))
    <3>1. PICK arts : arts = fileArts' OBVIOUS
    <3>2. arts = Rebuilt(JobsThenWorkers(dir)) BY <2>1, <3>1
    <3>3. /\ arts \in [Artifact -> Owner \cup {Absent}]
          /\ \A b \in Artifact : arts[b] # Absent => b \in results[arts[b]] /\ dir[arts[b]] # Absent
      BY <1>2, <3>2, CollectKeeps
    <3>4. QED BY <3>1, <3>3
  <2>2. CASE fileArts' = fileArts BY <1>3, <2>2
  <2>3. QED BY <1>1, <2>1, <2>2
<1>5. /\ sqlArts' \in [Artifact -> Owner \cup {Absent}]
      /\ \A b \in Artifact : sqlArts'[b] # Absent => b \in results[sqlArts'[b]] /\ rows[sqlArts'[b]] # Absent
  <2>1. CASE sqlArts' = Rebuilt(JobsThenWorkers(rows))
    <3>1. PICK arts : arts = sqlArts' OBVIOUS
    <3>2. arts = Rebuilt(JobsThenWorkers(rows)) BY <2>1, <3>1
    <3>3. /\ arts \in [Artifact -> Owner \cup {Absent}]
          /\ \A b \in Artifact : arts[b] # Absent => b \in results[arts[b]] /\ rows[arts[b]] # Absent
      BY <1>2, <3>2, CollectKeeps
    <3>4. QED BY <3>1, <3>3
  <2>2. CASE sqlArts' = sqlArts BY <1>3, <2>2
  <2>3. QED BY <1>1, <2>1, <2>2
<1>6. TypesInv' BY <1>1, <1>4, <1>5 DEF KeptInv, TypesInv
<1>7. RecordsInv' BY <1>1, RecordsKept
<1>8. EntriesInv' BY <1>1, EntriesKept
<1>9. ArtsInv' BY <1>1, <1>4, <1>5 DEF ArtsInv
<1>10. ImportInv' BY <1>1 DEF ImportInv
<1>11. QED BY <1>6, <1>7, <1>8, <1>9, <1>10 DEF KeptInv

\* What an import has to copy: each record, each transcript, each event.
Records3 == items[Job] \o items[Worker] \o items[Session]

LEMMA RecordsAre ==
  ASSUME KeptInv
  PROVE  /\ Records3 \in Seq(Records)
         /\ \A k \in DOMAIN Records3 : \E i \in Id : Records3[k] = dir[i]
         /\ \A i \in Id : dir[i] # Absent => \E k \in DOMAIN Records3 : Records3[k] = dir[i]
<1>1. Filed(dir) BY KeptFiled
<1>2. items = [c \in Collection |-> Latest(JsonDirectory(c))] BY DEF KeptInv, RecordsInv
<1>3. Job \in Collection /\ Worker \in Collection /\ Session \in Collection BY DEF Collection
<1>4. PICK s, t, u : s = items[Job] /\ t = items[Worker] /\ u = items[Session] OBVIOUS
<1>5. /\ s \in Seq(Records) /\ ToSet(s) = RecordsOf(dir, Job)
      /\ t \in Seq(Records) /\ ToSet(t) = RecordsOf(dir, Worker)
      /\ u \in Seq(Records) /\ ToSet(u) = RecordsOf(dir, Session)
  BY <1>1, <1>2, <1>3, <1>4, CacheHolds
<1>6. PICK l : l = s \o t OBVIOUS
<1>7. /\ l \in Seq(Records) /\ Len(l) = Len(s) + Len(t)
      /\ \A k \in 1..(Len(s) + Len(t)) : l[k] = IF k <= Len(s) THEN s[k] ELSE t[k - Len(s)]
  BY <1>5, <1>6, ConcatProperties
<1>8. PICK m : m = l \o u OBVIOUS
<1>9. /\ m \in Seq(Records) /\ Len(m) = Len(l) + Len(u)
      /\ \A k \in 1..(Len(l) + Len(u)) : m[k] = IF k <= Len(l) THEN l[k] ELSE u[k - Len(l)]
  <2>1. l \in Seq(Records) /\ u \in Seq(Records) BY <1>5, <1>7
  <2>2. QED BY <1>8, <2>1, ConcatProperties
<1>10. /\ Len(s) \in Nat /\ Len(t) \in Nat /\ Len(u) \in Nat /\ Len(l) \in Nat
       /\ DOMAIN s = 1..Len(s) /\ DOMAIN t = 1..Len(t) /\ DOMAIN u = 1..Len(u)
       /\ DOMAIN m = 1..Len(m)
  BY <1>5, <1>7, <1>9
<1>11. /\ \A k \in 1..Len(s) : s[k] \in RecordsOf(dir, Job)
       /\ \A k \in 1..Len(t) : t[k] \in RecordsOf(dir, Worker)
       /\ \A k \in 1..Len(u) : u[k] \in RecordsOf(dir, Session)
  BY <1>5, <1>10 DEF ToSet
<1>12. \A r : r \in RecordsOf(dir, Job) \/ r \in RecordsOf(dir, Worker) \/ r \in RecordsOf(dir, Session)
               => \E i \in Id : r = dir[i]
  BY DEF RecordsOf, Id, Owner
<1>13. ASSUME NEW k \in DOMAIN m PROVE \E i \in Id : m[k] = dir[i]
  <2>1. CASE k <= Len(s)
    <3>1. k \in 1..Len(s) /\ m[k] = s[k] BY <1>7, <1>9, <1>10, <2>1
    <3>2. QED BY <1>11, <1>12, <3>1
  <2>2. CASE Len(s) < k /\ k <= Len(l)
    <3>1. k - Len(s) \in 1..Len(t) /\ m[k] = t[k - Len(s)] BY <1>7, <1>9, <1>10, <2>2
    <3>2. QED BY <1>11, <1>12, <3>1
  <2>3. CASE Len(l) < k
    <3>1. k - Len(l) \in 1..Len(u) /\ m[k] = u[k - Len(l)] BY <1>9, <1>10, <2>3
    <3>2. QED BY <1>11, <1>12, <3>1
  <2>4. QED BY <1>10, <2>1, <2>2, <2>3
<1>14. ASSUME NEW i \in Id, dir[i] # Absent PROVE \E k \in DOMAIN m : m[k] = dir[i]
  <2>1. PICK c \in Collection : i \in c BY CollectionHas
  <2>2. dir[i] \in RecordsOf(dir, c) BY <1>1, <1>14, <2>1, RecordsOfAre
  <2>3. CASE c = Job
    <3>1. PICK k \in 1..Len(s) : s[k] = dir[i] BY <1>5, <1>10, <2>2, <2>3 DEF ToSet
    <3>2. k \in 1..Len(m) /\ m[k] = s[k] BY <1>7, <1>9, <1>10
    <3>3. QED BY <1>10, <3>1, <3>2
  <2>4. CASE c = Worker
    <3>1. PICK k \in 1..Len(t) : t[k] = dir[i] BY <1>5, <1>10, <2>2, <2>4 DEF ToSet
    <3>2. PICK j : j = Len(s) + k OBVIOUS
    <3>3. j \in 1..Len(l) /\ ~(j <= Len(s)) /\ j - Len(s) = k BY <1>7, <1>10, <3>2
    <3>4. l[j] = t[k] BY <1>7, <3>3
    <3>5. j \in 1..Len(m) /\ m[j] = l[j] BY <1>9, <1>10, <3>3
    <3>6. QED BY <1>10, <3>1, <3>4, <3>5
  <2>5. CASE c = Session
    <3>1. PICK k \in 1..Len(u) : u[k] = dir[i] BY <1>5, <1>10, <2>2, <2>5 DEF ToSet
    <3>2. PICK j : j = Len(l) + k OBVIOUS
    <3>3. j \in 1..Len(m) /\ ~(j <= Len(l)) /\ j - Len(l) = k BY <1>9, <1>10, <3>2
    <3>4. m[j] = u[k] BY <1>9, <3>3
    <3>5. QED BY <1>10, <3>1, <3>3, <3>4
  <2>6. QED BY <2>1, <2>3, <2>4, <2>5 DEF Collection
<1>15. Records3 = m BY <1>4, <1>6, <1>8 DEF Records3
<1>16. m \in Seq(Records) BY <1>9
<1>17. QED BY <1>13, <1>14, <1>15, <1>16

LEMMA ImportListIs ==
  ASSUME KeptInv
  PROVE  \E m, n \in Nat :
           /\ m = Len(Records3) /\ n = Len(items[Session])
           /\ ImportList \in Seq(Tasks) /\ Len(ImportList) = m + n + Len(fileLog)
           /\ \A k \in 1..m : ImportList[k] = [what |-> "record", it |-> Records3[k]]
           /\ \A k \in 1..n : ImportList[m + k] = [what |-> "entries", it |-> items[Session][k].id]
           /\ \A k \in 1..Len(fileLog) : ImportList[m + n + k] = [what |-> "event", it |-> fileLog[k]]
<1>1. PICK R, S, E : R = Records3 /\ S = items[Session] /\ E = fileLog OBVIOUS
<1>2. PICK m, n, q : m = Len(R) /\ n = Len(S) /\ q = Len(E) OBVIOUS
<1>3. R \in Seq(Records) BY <1>1, RecordsAre
<1>4. S \in Seq(Records) /\ \A k \in 1..n : S[k].id \in Session
  <2>1. Filed(dir) BY KeptFiled
  <2>2. items = [c \in Collection |-> Latest(JsonDirectory(c))] BY DEF KeptInv, RecordsInv
  <2>3. Session \in Collection BY DEF Collection
  <2>4. S \in Seq(Records) /\ ToSet(S) = RecordsOf(dir, Session) BY <1>1, <2>1, <2>2, <2>3, CacheHolds
  <2>5. \A r \in RecordsOf(dir, Session) : r.id \in Session BY <2>1, <2>3, RecordsOfAre
  <2>6. \A k \in 1..n : S[k] \in ToSet(S) BY <1>2, <2>4 DEF ToSet
  <2>7. QED BY <2>4, <2>5, <2>6
<1>5. E \in Seq(Events) BY <1>1 DEF KeptInv, TypesInv
<1>6. /\ m \in Nat /\ n \in Nat /\ q \in Nat
      /\ DOMAIN R = 1..m /\ DOMAIN S = 1..n /\ DOMAIN E = 1..q
  BY <1>2, <1>3, <1>4, <1>5
<1>7. PICK a : a = [k \in 1..m |-> [what |-> "record", it |-> R[k]]] OBVIOUS
<1>8. PICK b : b = [k \in 1..n |-> [what |-> "entries", it |-> S[k].id]] OBVIOUS
<1>9. PICK c : c = [k \in 1..q |-> [what |-> "event", it |-> E[k]]] OBVIOUS
<1>10. a \in Seq(Tasks) /\ Len(a) = m
  <2>1. \A k \in 1..m : R[k] \in Records BY <1>2, <1>3
  <2>2. \A k \in 1..m : a[k] \in Tasks BY <1>7, <2>1 DEF Tasks
  <2>3. a \in [1..m -> Tasks] BY <1>7, <2>2
  <2>4. QED BY <1>6, <2>3
<1>11. b \in Seq(Tasks) /\ Len(b) = n
  <2>1. \A k \in 1..n : b[k] \in Tasks BY <1>4, <1>8 DEF Tasks
  <2>2. b \in [1..n -> Tasks] BY <1>8, <2>1
  <2>3. QED BY <1>6, <2>2
<1>12. c \in Seq(Tasks) /\ Len(c) = q
  <2>1. \A k \in 1..q : E[k] \in Events BY <1>2, <1>5
  <2>2. \A k \in 1..q : c[k] \in Tasks BY <1>9, <2>1 DEF Tasks
  <2>3. c \in [1..q -> Tasks] BY <1>9, <2>2
  <2>4. QED BY <1>6, <2>3
<1>13. PICK d : d = a \o b OBVIOUS
<1>14. /\ d \in Seq(Tasks) /\ Len(d) = m + n
       /\ \A k \in 1..(m + n) : d[k] = IF k <= m THEN a[k] ELSE b[k - m]
  BY <1>10, <1>11, <1>13, ConcatProperties
<1>15. PICK l : l = d \o c OBVIOUS
<1>16. /\ l \in Seq(Tasks) /\ Len(l) = m + n + q
       /\ \A k \in 1..(m + n + q) : l[k] = IF k <= m + n THEN d[k] ELSE c[k - (m + n)]
  <2>1. d \in Seq(Tasks) /\ c \in Seq(Tasks) BY <1>12, <1>14
  <2>2. /\ l \in Seq(Tasks) /\ Len(l) = Len(d) + Len(c)
        /\ \A k \in 1..(Len(d) + Len(c)) : l[k] = IF k <= Len(d) THEN d[k] ELSE c[k - Len(d)]
    BY <1>15, <2>1, ConcatProperties
  <2>3. Len(d) = m + n /\ Len(c) = q BY <1>12, <1>14
  <2>4. QED BY <2>2, <2>3
<1>17. l = ImportList
  <2>1. a = [k \in DOMAIN R |-> [what |-> "record", it |-> R[k]]] BY <1>6, <1>7
  <2>2. b = [k \in DOMAIN S |-> [what |-> "entries", it |-> S[k].id]] BY <1>6, <1>8
  <2>3. c = [k \in DOMAIN E |-> [what |-> "event", it |-> E[k]]] BY <1>6, <1>9
  <2>4. ImportList = (a \o b) \o c BY <1>1, <2>1, <2>2, <2>3 DEF ImportList, Records3
  <2>5. QED BY <1>13, <1>15, <2>4
<1>18. ASSUME NEW k \in 1..m PROVE l[k] = [what |-> "record", it |-> R[k]]
  <2>1. k \in 1..(m + n) /\ k \in 1..(m + n + q) /\ k <= m + n /\ k <= m BY <1>6
  <2>2. l[k] = a[k] BY <1>14, <1>16, <2>1
  <2>3. QED BY <1>7, <2>2
<1>19. ASSUME NEW k \in 1..n PROVE l[m + k] = [what |-> "entries", it |-> S[k].id]
  <2>1. PICK j : j = m + k OBVIOUS
  <2>2. j \in 1..(m + n) /\ j \in 1..(m + n + q) /\ j <= m + n /\ ~(j <= m) /\ j - m = k
    BY <1>6, <2>1
  <2>3. l[j] = b[k] BY <1>14, <1>16, <2>2
  <2>4. QED BY <1>8, <2>1, <2>3
<1>20. ASSUME NEW k \in 1..q PROVE l[m + n + k] = [what |-> "event", it |-> E[k]]
  <2>1. PICK j : j = m + n + k OBVIOUS
  <2>2. j \in 1..(m + n + q) /\ ~(j <= m + n) /\ j - (m + n) = k BY <1>6, <2>1
  <2>3. l[j] = c[k] BY <1>16, <2>2
  <2>4. QED BY <1>9, <2>1, <2>3
<1>21. WITNESS m \in Nat, n \in Nat
<1>22. QED BY <1>1, <1>2, <1>16, <1>17, <1>18, <1>19, <1>20

LEMMA StartKeeps ==
  ASSUME KeptInv, NEW b \in {"file", "sqlite"}, Start(b)
  PROVE  KeptInv'
<1>1. /\ backend' = b /\ starts < MaxStarts /\ starts' = starts + 1
      /\ items' = [c \in Collection |-> EntityCache(JsonDirectory(c))]
      /\ fileArts' = Rebuilt(EntityCache(JsonDirectory(Job)) \o EntityCache(JsonDirectory(Worker)))
      /\ importing' = IF b = "sqlite" /\ IsEmpty THEN ImportList ELSE <<>>
      /\ UNCHANGED <<times, results, calls, dir, fileLog, fileTranscript>>
      /\ UNCHANGED <<rows, sqlLog, sqlTranscript, sqlArts>>
  BY DEF Start, FileOpen, tables
<1>2. items' = items BY <1>1 DEF KeptInv, RecordsInv, EntityCache
<1>3. fileArts' = Rebuilt(JobsThenWorkers(dir))
  BY <1>1 DEF EntityCache, JobsThenWorkers, RecordsOf, JsonDirectory
<1>4. Filed(dir) BY KeptFiled
<1>5. /\ fileArts' \in [Artifact -> Owner \cup {Absent}]
      /\ \A a \in Artifact : fileArts'[a] # Absent => a \in results[fileArts'[a]] /\ dir[fileArts'[a]] # Absent
  <2>1. PICK arts : arts = fileArts' OBVIOUS
  <2>2. arts = Rebuilt(JobsThenWorkers(dir)) BY <1>3, <2>1
  <2>3. /\ arts \in [Artifact -> Owner \cup {Absent}]
        /\ \A a \in Artifact : arts[a] # Absent => a \in results[arts[a]] /\ dir[arts[a]] # Absent
    BY <1>4, <2>2, CollectKeeps
  <2>4. QED BY <2>1, <2>3
<1>6. importing' \in Seq(Tasks) /\ ImportInv'
  <2>1. CASE importing' = <<>>
    <3>1. DOMAIN importing' = {} BY <2>1
    <3>2. importing' \in Seq(Tasks) BY <2>1
    <3>3. QED BY <2>1, <3>1, <3>2 DEF ImportInv
  <2>2. CASE b = "sqlite" /\ importing' = ImportList
    <3>1. PICK m, n \in Nat :
            /\ m = Len(Records3) /\ n = Len(items[Session])
            /\ ImportList \in Seq(Tasks) /\ Len(ImportList) = m + n + Len(fileLog)
            /\ \A k \in 1..m : ImportList[k] = [what |-> "record", it |-> Records3[k]]
            /\ \A k \in 1..n : ImportList[m + k] = [what |-> "entries", it |-> items[Session][k].id]
            /\ \A k \in 1..Len(fileLog) : ImportList[m + n + k] = [what |-> "event", it |-> fileLog[k]]
      BY ImportListIs
    <3>2. PICK L : L = ImportList OBVIOUS
    <3>3. Len(fileLog) \in Nat BY DEF KeptInv, TypesInv
    <3>4. DOMAIN L = 1..(m + n + Len(fileLog)) BY <3>1, <3>2
    <3>5. ASSUME NEW p \in DOMAIN L, L[p].what = "record" PROVE \E i \in Id : L[p].it = dir[i]
      <4>1. CASE p <= m
        <5>1. p \in 1..m BY <3>4, <4>1
        <5>2. L[p].it = Records3[p]
          <6>1. L[p] = [what |-> "record", it |-> Records3[p]] BY <3>1, <3>2, <5>1
          <6>2. QED BY <6>1
        <5>3. p \in DOMAIN Records3 BY <3>1, <5>1, RecordsAre
        <5>4. QED BY <5>2, <5>3, RecordsAre
      <4>2. CASE m < p /\ p <= m + n
        <5>1. PICK k : k = p - m OBVIOUS
        <5>2. k \in 1..n /\ p = m + k BY <3>3, <3>4, <4>2, <5>1
        <5>3. L[p].what = "entries"
          <6>1. L[p] = [what |-> "entries", it |-> items[Session][k].id] BY <3>1, <3>2, <5>2
          <6>2. QED BY <6>1
        <5>4. QED BY <3>5, <5>3
      <4>3. CASE m + n < p
        <5>1. PICK k : k = p - (m + n) OBVIOUS
        <5>2. k \in 1..Len(fileLog) /\ p = m + n + k BY <3>3, <3>4, <4>3, <5>1
        <5>3. L[p].what = "event"
          <6>1. L[p] = [what |-> "event", it |-> fileLog[k]] BY <3>1, <3>2, <5>2
          <6>2. QED BY <6>1
        <5>4. QED BY <3>5, <5>3
      <4>4. QED BY <3>3, <3>4, <4>1, <4>2, <4>3
    <3>6. importing' = L /\ L \in Seq(Tasks) BY <2>2, <3>1, <3>2
    <3>7. \A p \in DOMAIN importing' : importing'[p].what = "record" => \E i \in Id : importing'[p].it = dir'[i]
      BY <1>1, <3>5, <3>6
    <3>8. backend' = "sqlite" BY <1>1, <2>2
    <3>9. QED BY <3>6, <3>7, <3>8 DEF ImportInv
  <2>3. QED BY <1>1, <2>1, <2>2
<1>7. TypesInv'
  <2>1. starts' \in 0..MaxStarts BY <1>1, StateStoresAssumption DEF KeptInv, TypesInv
  <2>2. QED BY <1>1, <1>5, <1>6, <2>1 DEF KeptInv, TypesInv
<1>8. RecordsInv' BY <1>1, <1>2, RecordsKept
<1>9. EntriesInv' BY <1>1, EntriesKept
<1>10. ArtsInv' BY <1>1, <1>5 DEF KeptInv, ArtsInv
<1>11. QED BY <1>6, <1>7, <1>8, <1>9, <1>10 DEF KeptInv

\* What an import copies next.
LEMMA NextTask ==
  ASSUME KeptInv, Import
  PROVE  /\ backend = "sqlite" /\ importing # <<>> /\ importing' = Tail(importing)
         /\ UNCHANGED <<backend, times, results, calls, starts>>
         /\ UNCHANGED <<dir, items, fileLog, fileTranscript, fileArts>>
         /\ Head(importing) = importing[1] /\ 1 \in DOMAIN importing
         /\ importing' \in Seq(Tasks) /\ Len(importing') = Len(importing) - 1
         /\ \A p \in DOMAIN importing' : p + 1 \in DOMAIN importing /\ importing'[p] = importing[p + 1]
         /\ \/ /\ Head(importing).what = "record" /\ SqlPut(Head(importing).it)
               /\ Head(importing).it \in Records /\ \E i \in Id : Head(importing).it = dir[i]
            \/ /\ Head(importing).what = "entries" /\ Head(importing).it \in Session
               /\ sqlTranscript' = [sqlTranscript EXCEPT ![Head(importing).it] =
                                      ToSet(fileTranscript[Head(importing).it])]
               /\ UNCHANGED <<rows, sqlLog, sqlArts>>
            \/ /\ Head(importing).what = "event" /\ Head(importing).it \in Events
               /\ sqlLog' = Append(sqlLog, Head(importing).it)
               /\ UNCHANGED <<rows, sqlTranscript, sqlArts>>
<1>1. importing \in Seq(Tasks) BY DEF KeptInv, TypesInv
<1>2. importing # <<>> /\ importing' = Tail(importing) BY DEF Import
<1>3. backend = "sqlite" BY <1>2 DEF KeptInv, ImportInv
<1>4. PICK x : x = Head(importing) OBVIOUS
<1>5. x = importing[1] /\ 1 \in DOMAIN importing /\ x \in Tasks BY <1>1, <1>2, <1>4
<1>6. /\ importing' \in Seq(Tasks) /\ Len(importing') = Len(importing) - 1
      /\ \A p \in 1..Len(importing') : importing'[p] = importing[p + 1]
  BY <1>1, <1>2, HeadTailProperties
<1>7. DOMAIN importing' = 1..Len(importing') /\ DOMAIN importing = 1..Len(importing) /\ Len(importing) \in Nat
  BY <1>1, <1>6
<1>8. \A p \in DOMAIN importing' : p + 1 \in DOMAIN importing /\ importing'[p] = importing[p + 1]
  BY <1>6, <1>7
<1>9. UNCHANGED <<backend, times, results, calls, starts>> BY DEF Import
<1>10. \/ x.what = "record" /\ SqlPut(x.it)
       \/ /\ x.what = "entries"
          /\ sqlTranscript' = [sqlTranscript EXCEPT ![x.it] = ToSet(fileTranscript[x.it])]
          /\ UNCHANGED <<rows, sqlLog, sqlArts, files>>
       \/ /\ x.what = "event" /\ sqlLog' = Append(sqlLog, x.it)
          /\ UNCHANGED <<rows, sqlTranscript, sqlArts, files>>
  BY <1>4 DEF Import
<1>11. UNCHANGED files BY <1>10 DEF SqlPut
<1>12. /\ x.what = "record" => x.it \in Records /\ \E i \in Id : x.it = dir[i]
       /\ x.what = "entries" => x.it \in Session
       /\ x.what = "event" => x.it \in Events
  <2>1. x.what = "record" => \E i \in Id : x.it = dir[i] BY <1>5 DEF KeptInv, ImportInv
  <2>2. CASE x \in [what: {"record"}, it: Records] BY <2>1, <2>2
  <2>3. CASE x \in [what: {"entries"}, it: Session] BY <2>3
  <2>4. CASE x \in [what: {"event"}, it: Events] BY <2>4
  <2>5. QED BY <1>5, <2>2, <2>3, <2>4 DEF Tasks
<1>13. UNCHANGED <<dir, items, fileLog, fileTranscript, fileArts>> BY <1>11 DEF files
<1>14. \/ /\ x.what = "record" /\ SqlPut(x.it)
          /\ x.it \in Records /\ \E i \in Id : x.it = dir[i]
       \/ /\ x.what = "entries" /\ x.it \in Session
          /\ sqlTranscript' = [sqlTranscript EXCEPT ![x.it] = ToSet(fileTranscript[x.it])]
          /\ UNCHANGED <<rows, sqlLog, sqlArts>>
       \/ /\ x.what = "event" /\ x.it \in Events /\ sqlLog' = Append(sqlLog, x.it)
          /\ UNCHANGED <<rows, sqlTranscript, sqlArts>>
  BY <1>10, <1>12
<1>15. QED BY <1>2, <1>3, <1>4, <1>5, <1>6, <1>8, <1>9, <1>13, <1>14

LEMMA ImportKeeps ==
  ASSUME KeptInv, Import
  PROVE  KeptInv'
<1>1. PICK x : x = Head(importing) OBVIOUS
<1>2. /\ backend = "sqlite" /\ importing # <<>> /\ importing' \in Seq(Tasks)
      /\ UNCHANGED <<backend, times, results, calls, starts>>
      /\ UNCHANGED <<dir, items, fileLog, fileTranscript, fileArts>>
      /\ \A p \in DOMAIN importing' : p + 1 \in DOMAIN importing /\ importing'[p] = importing[p + 1]
  BY NextTask
<1>3. \/ /\ x.what = "record" /\ SqlPut(x.it)
         /\ x.it \in Records /\ \E i \in Id : x.it = dir[i]
      \/ /\ x.what = "entries" /\ x.it \in Session
         /\ sqlTranscript' = [sqlTranscript EXCEPT ![x.it] = ToSet(fileTranscript[x.it])]
         /\ UNCHANGED <<rows, sqlLog, sqlArts>>
      \/ /\ x.what = "event" /\ x.it \in Events /\ sqlLog' = Append(sqlLog, x.it)
         /\ UNCHANGED <<rows, sqlTranscript, sqlArts>>
  BY <1>1, NextTask
<1>4. ImportInv'
  <2>1. backend' = "sqlite" BY <1>2
  <2>2. \A p \in DOMAIN importing' : importing'[p].what = "record" => \E i \in Id : importing'[p].it = dir'[i]
    BY <1>2 DEF KeptInv, ImportInv
  <2>3. QED BY <2>1, <2>2 DEF ImportInv
<1>5. CASE x.what = "record" /\ SqlPut(x.it) /\ x.it \in Records /\ \E i \in Id : x.it = dir[i]
  <2>1. PICK r : r = x.it OBVIOUS
  <2>2. r \in Records /\ SqlPut(r) /\ r \in Kept BY <1>5, <2>1 DEF Kept
  <2>3. NewOrCopied(r) BY <1>2, <2>2 DEF NewOrCopied
  <2>4. /\ rows' \in [Id -> Records \cup {Absent}] /\ sqlArts' \in [Artifact -> Owner \cup {Absent}]
        /\ RecordsInv' /\ ArtsInv'
    BY <1>2, <2>2, <2>3, SqlPutKeeps
  <2>5. UNCHANGED <<sqlLog, sqlTranscript>> BY <2>2 DEF SqlPut
  <2>6. TypesInv' BY <1>2, <2>4, <2>5 DEF KeptInv, TypesInv
  <2>7. EntriesInv' BY <1>2, <2>5, EntriesKept
  <2>8. QED BY <1>4, <2>4, <2>6, <2>7 DEF KeptInv
<1>6. CASE /\ x.what = "entries" /\ x.it \in Session
           /\ sqlTranscript' = [sqlTranscript EXCEPT ![x.it] = ToSet(fileTranscript[x.it])]
           /\ UNCHANGED <<rows, sqlLog, sqlArts>>
  <2>1. PICK s \in Session : s = x.it BY <1>6
  <2>2. /\ fileTranscript \in [Session -> Seq(Entries)] /\ sqlTranscript \in [Session -> SUBSET Entries]
    BY DEF KeptInv, TypesInv
  <2>3. PICK t : t = fileTranscript[s] OBVIOUS
  <2>4. t \in Seq(Entries) /\ ToSet(t) \in SUBSET Entries BY <2>2, <2>3 DEF ToSet
  <2>5. /\ sqlTranscript' \in [Session -> SUBSET Entries]
        /\ \A z \in Session : sqlTranscript'[z] = IF z = s THEN ToSet(t) ELSE sqlTranscript[z]
    BY <1>6, <2>1, <2>2, <2>3, <2>4
  <2>6. TypesInv' BY <1>2, <1>6, <2>5 DEF KeptInv, TypesInv
  <2>7. RecordsInv' BY <1>2, <1>6, RecordsKept
  <2>8. EntriesInv'
    <3>1. \A z \in Session : Sequenced(fileTranscript[z]) /\ Len(fileTranscript[z]) <= calls
      BY DEF KeptInv, EntriesInv
    <3>2. \A z \in Session : Sequenced(fileTranscript'[z]) /\ Len(fileTranscript'[z]) <= calls'
      BY <1>2, <3>1
    <3>3. ASSUME NEW z \in Session
          PROVE  \E u \in Seq(Entries) : Sequenced(u) /\ Len(u) <= calls' /\ sqlTranscript'[z] = ToSet(u)
      <4>1. PICK u \in Seq(Entries) : Sequenced(u) /\ Len(u) <= calls /\ sqlTranscript[z] = ToSet(u)
        BY DEF KeptInv, EntriesInv
      <4>2. CASE z = s
        <5>1. Sequenced(t) /\ Len(t) <= calls BY <2>3, <3>1
        <5>2. QED BY <1>2, <2>4, <2>5, <4>2, <5>1
      <4>3. CASE z # s BY <1>2, <2>5, <4>1, <4>3
      <4>4. QED BY <4>2, <4>3
    <3>4. QED BY <3>2, <3>3 DEF EntriesInv, Sequenced
  <2>9. ArtsInv' BY <1>2, <1>6 DEF KeptInv, ArtsInv
  <2>10. QED BY <1>4, <2>6, <2>7, <2>8, <2>9 DEF KeptInv
<1>7. CASE /\ x.what = "event" /\ x.it \in Events /\ sqlLog' = Append(sqlLog, x.it)
           /\ UNCHANGED <<rows, sqlTranscript, sqlArts>>
  <2>1. sqlLog \in Seq(Events) BY DEF KeptInv, TypesInv
  <2>2. sqlLog' \in Seq(Events) BY <1>7, <2>1, AppendProperties
  <2>3. TypesInv' BY <1>2, <1>7, <2>2 DEF KeptInv, TypesInv
  <2>4. RecordsInv' BY <1>2, <1>7, RecordsKept
  <2>5. EntriesInv' BY <1>2, <1>7, EntriesKept
  <2>6. ArtsInv' BY <1>2, <1>7 DEF KeptInv, ArtsInv
  <2>7. QED BY <1>4, <2>3, <2>4, <2>5, <2>6 DEF KeptInv
<1>8. QED BY <1>3, <1>5, <1>6, <1>7

LEMMA StutterKeeps ==
  ASSUME KeptInv, UNCHANGED storesVars
  PROVE  KeptInv'
<1>1. /\ UNCHANGED <<backend, times, results, importing, calls, starts>>
      /\ UNCHANGED <<dir, items, fileLog, fileTranscript, fileArts>>
      /\ UNCHANGED <<rows, sqlLog, sqlTranscript, sqlArts>>
  BY DEF storesVars, files, tables
<1>2. TypesInv' BY <1>1 DEF KeptInv, TypesInv
<1>3. RecordsInv' BY <1>1, RecordsKept
<1>4. EntriesInv' BY <1>1, EntriesKept
<1>5. ArtsInv' BY <1>1 DEF KeptInv, ArtsInv
<1>6. ImportInv' BY <1>1 DEF KeptInv, ImportInv
<1>7. QED BY <1>2, <1>3, <1>4, <1>5, <1>6 DEF KeptInv

LEMMA InitKeeps == StoresInit => KeptInv
<1> SUFFICES ASSUME StoresInit PROVE KeptInv OBVIOUS
<1>1. MaxTime \in Nat /\ MaxCalls \in Nat /\ MaxStarts \in Nat BY StateStoresAssumption
<1>2. <<>> \in Seq(Events) /\ <<>> \in Seq(Tasks) /\ <<>> \in Seq(Entries) /\ Len(<<>>) = 0
  OBVIOUS
<1>3. TypesInv
  <2>1. /\ dir = [i \in Id |-> Absent] /\ rows = [i \in Id |-> Absent]
        /\ fileTranscript = [s \in Session |-> <<>>] /\ sqlTranscript = [s \in Session |-> {}]
        /\ fileArts = [a \in Artifact |-> Absent] /\ sqlArts = [a \in Artifact |-> Absent]
        /\ results = [o \in Owner |-> {}] /\ times = {} /\ backend = "file"
        /\ fileLog = <<>> /\ sqlLog = <<>> /\ importing = <<>> /\ calls = 0 /\ starts = 0
    BY DEF StoresInit
  <2>2. dir \in [Id -> Records \cup {Absent}] /\ rows \in [Id -> Records \cup {Absent}] BY <2>1
  <2>3. /\ fileTranscript \in [Session -> Seq(Entries)] /\ sqlTranscript \in [Session -> SUBSET Entries]
    BY <1>2, <2>1
  <2>4. /\ fileArts \in [Artifact -> Owner \cup {Absent}]
        /\ sqlArts \in [Artifact -> Owner \cup {Absent}]
        /\ results \in [Owner -> SUBSET Artifact]
    BY <2>1
  <2>5. QED BY <1>1, <1>2, <2>1, <2>2, <2>3, <2>4 DEF TypesInv
<1>4. RecordsInv
  <2>1. \A i \in Id : dir[i] = Absent /\ rows[i] = Absent BY DEF StoresInit
  <2>2. \A r \in Kept : r = Absent BY <2>1 DEF Kept
  <2>3. ASSUME NEW c \in Collection PROVE <<>> = Latest(JsonDirectory(c))
    <3>1. c \subseteq Id BY DEF Collection, Id, Owner
    <3>2. JsonDirectory(c) = {} BY <2>1, <3>1 DEF JsonDirectory
    <3>3. Stamped({}) BY FS_EmptySet DEF Stamped
    <3>4. Latest({}) = <<>> BY <3>3, LatestFirst
    <3>5. QED BY <3>2, <3>4
  <2>4. items = [c \in Collection |-> <<>>] BY DEF StoresInit
  <2>5. items = [c \in Collection |-> Latest(JsonDirectory(c))] BY <2>3, <2>4
  <2>6. QED BY <2>1, <2>2, <2>5 DEF RecordsInv
<1>5. EntriesInv
  <2>1. \A s \in Session : fileTranscript[s] = <<>> /\ sqlTranscript[s] = {} BY DEF StoresInit
  <2>2. Sequenced(<<>>) BY DEF Sequenced
  <2>3. ToSet(<<>>) = {} BY DEF ToSet
  <2>4. calls = 0 BY DEF StoresInit
  <2>5. \A s \in Session : Sequenced(fileTranscript[s]) /\ Len(fileTranscript[s]) <= calls
    BY <1>2, <2>1, <2>2, <2>4
  <2>6. ASSUME NEW s \in Session
        PROVE  \E t \in Seq(Entries) : Sequenced(t) /\ Len(t) <= calls /\ sqlTranscript[s] = ToSet(t)
    <3>1. PICK t \in Seq(Entries) : t = <<>> BY <1>2
    <3>2. Sequenced(t) BY <2>2, <3>1
    <3>3. Len(t) <= calls BY <2>4, <3>1
    <3>4. sqlTranscript[s] = ToSet(t) BY <2>1, <2>3, <3>1
    <3>5. QED BY <3>2, <3>3, <3>4
  <2>7. QED BY <2>5, <2>6 DEF EntriesInv
<1>6. ArtsInv BY DEF StoresInit, ArtsInv
<1>7. ImportInv
  <2>1. importing = <<>> /\ DOMAIN <<>> = {} BY DEF StoresInit
  <2>2. QED BY <2>1 DEF ImportInv
<1>8. QED BY <1>3, <1>4, <1>5, <1>6, <1>7 DEF KeptInv

LEMMA StepKeeps ==
  ASSUME KeptInv, [StoresNext]_storesVars
  PROVE  KeptInv'
<1>1. KeptInv /\ Filed(InUse) /\ \A i \in Id : Fetch(i) = InUse[i] BY StoredIs
<1>2. ASSUME NEW i \in Id, NEW status \in Status, NEW t \in 1..MaxTime, Put(i, status, t)
      PROVE  KeptInv'
  <2>1. Store(i, status, Absent, t) BY <1>2 DEF Put
  <2>2. Absent \in Token \cup {Absent} OBVIOUS
  <2>3. QED BY <2>1, <2>2, StoreKeeps
<1>3. ASSUME NEW s \in Session, NEW token \in Token, NEW t \in 1..MaxTime,
             UpdateSessionRuntime(s, token, t)
      PROVE  KeptInv'
  <2>1. s \in Id BY DEF Id
  <2>2. Fetch(s) # Absent /\ Store(s, Fetch(s).status, token, t) BY <1>3 DEF UpdateSessionRuntime
  <2>3. Fetch(s) \in Records BY <1>1, <2>1, <2>2 DEF Filed
  <2>4. Fetch(s).status \in Status BY <2>3 DEF Records
  <2>5. token \in Token \cup {Absent} OBVIOUS
  <2>6. QED BY <2>1, <2>2, <2>4, <2>5, StoreKeeps
<1>4. ASSUME NEW o \in Owner, WriteResult(o, Artifact) PROVE KeptInv'
  <2>1. Artifact \in SUBSET Artifact OBVIOUS
  <2>2. QED BY <1>4, <2>1, ResultKeeps
<1>5. CASE UNCHANGED storesVars BY <1>5, StutterKeeps
<1>6. CASE StoresNext
  BY <1>2, <1>3, <1>4, <1>6, EntryKeeps, EventKeeps, RebuildKeeps, StartKeeps, ImportKeeps
     DEF StoresNext
<1>7. QED BY <1>5, <1>6

\* KeptInv holds in every reachable state: what it says of the two backends is
\* what each operation finds and leaves.
THEOREM StoresKept == StoresSpec => []KeptInv
<1>1. StoresInit => KeptInv BY InitKeeps
<1>2. KeptInv /\ [StoresNext]_storesVars => KeptInv' BY StepKeeps
<1>3. QED BY <1>1, <1>2, PTL DEF StoresSpec

LEMMA KeptTyped ==
  ASSUME KeptInv
  PROVE  StoresTypeOK
<1>1. /\ backend \in {"file", "sqlite"} /\ times \in SUBSET (1..MaxTime)
      /\ results \in [Owner -> SUBSET Artifact]
      /\ fileLog \in Seq(Events) /\ sqlLog \in Seq(Events)
      /\ fileTranscript \in [Session -> Seq(Entries)] /\ sqlTranscript \in [Session -> SUBSET Entries]
      /\ fileArts \in [Artifact -> Owner \cup {Absent}] /\ sqlArts \in [Artifact -> Owner \cup {Absent}]
      /\ calls \in 0..MaxCalls /\ starts \in 0..MaxStarts
  BY DEF KeptInv, TypesInv
<1>2. Filed(dir) /\ Filed(rows) BY KeptFiled
<1>3. items = [c \in Collection |-> Latest(JsonDirectory(c))] BY DEF KeptInv, RecordsInv
<1>4. \A c \in Collection : ToSet(items[c]) = JsonDirectory(c) BY <1>2, <1>3, CacheHolds
<1>5. ASSUME NEW d, Filed(d), NEW i \in Id, d[i] \in Kept
      PROVE  d[i] \in [id: {i}, job: Job, status: Status, token: Token \cup {Absent}, at: times]
                        \cup {Absent}
  <2>1. CASE d[i] = Absent BY <2>1
  <2>2. CASE d[i] # Absent
    <3>1. PICK r : r = d[i] OBVIOUS
    <3>2. r \in Records /\ r.id = i BY <1>5, <2>2, <3>1 DEF Filed
    <3>3. r.at \in times BY <1>5, <2>2, <3>1 DEF KeptInv, RecordsInv
    <3>4. r \in [id: {i}, job: Job, status: Status, token: Token \cup {Absent}, at: times]
      BY <3>2, <3>3 DEF Records
    <3>5. QED BY <3>1, <3>4
  <2>3. QED BY <2>1, <2>2
<1>6. \A i \in Id : dir[i] \in Kept /\ rows[i] \in Kept BY DEF Kept
<1>7. \A s \in Session : ToSet(fileTranscript[s]) \subseteq Entries BY <1>1 DEF ToSet
<1>8. ToSet(fileLog) \cup ToSet(sqlLog) \subseteq Events BY <1>1 DEF ToSet
<1>9. \A i \in Id :
        /\ dir[i] \in [id: {i}, job: Job, status: Status, token: Token \cup {Absent}, at: times]
                        \cup {Absent}
        /\ rows[i] \in [id: {i}, job: Job, status: Status, token: Token \cup {Absent}, at: times]
                        \cup {Absent}
  BY <1>2, <1>5, <1>6
<1>10. /\ \A s \in Session : /\ ToSet(fileTranscript[s]) \subseteq [sequence: 1..MaxCalls, kind: EntryKind]
                             /\ sqlTranscript[s] \subseteq [sequence: 1..MaxCalls, kind: EntryKind]
       /\ ToSet(fileLog) \cup ToSet(sqlLog) \subseteq [type: EventType]
  BY <1>1, <1>7, <1>8 DEF Entries, Events
<1>11. QED BY <1>1, <1>4, <1>9, <1>10 DEF StoresTypeOK

\* The two backends hold records, entries and events of their types, and the
\* entity caches of FileStateStore the records of its directories.
THEOREM StoresTyped == StoresSpec => []StoresTypeOK
<1>1. KeptInv => StoresTypeOK BY KeptTyped
<1>2. QED BY <1>1, StoresKept, PTL

\* Whichever backend is in use, every list, lookup, page and artifact query of
\* an open store answers from what is stored.
THEOREM QueriesAnswered == StoresSpec => []Answers
<1>1. KeptInv => Answers BY KeptAnswers
<1>2. QED BY <1>1, StoresKept, PTL

\* A start on a database that is empty has everything still to copy.
LEMMA StartImports ==
  ASSUME KeptInv, Owned, Open, NEW b \in {"file", "sqlite"}, Start(b), importing' # <<>>
  PROVE  Imported'
<1>1. /\ b = "sqlite" /\ IsEmpty /\ importing' = ImportList
      /\ UNCHANGED <<dir, fileLog, fileTranscript, rows, sqlLog, sqlTranscript>>
  BY DEF Start, FileOpen, tables
<1>2. \A i \in Id : rows[i] = Absent BY <1>1 DEF IsEmpty
<1>3. sqlLog = <<>> BY <1>1 DEF IsEmpty
<1>4. \A s \in Session : sqlTranscript[s] = {} BY <1>2 DEF Owned, Id
<1>5. PICK m, n \in Nat :
        /\ m = Len(Records3) /\ n = Len(items[Session])
        /\ ImportList \in Seq(Tasks) /\ Len(ImportList) = m + n + Len(fileLog)
        /\ \A k \in 1..m : ImportList[k] = [what |-> "record", it |-> Records3[k]]
        /\ \A k \in 1..n : ImportList[m + k] = [what |-> "entries", it |-> items[Session][k].id]
        /\ \A k \in 1..Len(fileLog) : ImportList[m + n + k] = [what |-> "event", it |-> fileLog[k]]
  BY ImportListIs
<1>6. PICK L, q : L = ImportList /\ q = Len(fileLog) OBVIOUS
<1>7. q \in Nat BY <1>6 DEF KeptInv, TypesInv
<1>8. L \in Seq(Tasks) /\ Len(L) = m + n + q /\ DOMAIN L = 1..(m + n + q)
  BY <1>5, <1>6
<1>9. ASSUME NEW i \in Id PROVE ImportedRecord(i)'
  <2>1. CASE dir[i] = Absent BY <1>1, <1>2, <2>1 DEF ImportedRecord
  <2>2. CASE dir[i] # Absent
    <3>1. PICK k \in DOMAIN Records3 : Records3[k] = dir[i] BY <2>2, RecordsAre
    <3>2. k \in 1..m BY <1>5, RecordsAre
    <3>3. k \in DOMAIN L BY <1>7, <1>8, <3>2
    <3>4. L[k] = [what |-> "record", it |-> dir[i]] BY <1>5, <1>6, <3>1, <3>2
    <3>5. importing' = L /\ dir' = dir /\ rows' = rows BY <1>1, <1>6
    <3>6. QED BY <1>2, <3>3, <3>4, <3>5 DEF ImportedRecord
  <2>3. QED BY <2>1, <2>2
<1>10. ASSUME NEW s \in Session PROVE ImportedEntries(s)'
  <2>1. CASE fileTranscript[s] = <<>>
    <3>1. ToSet(<<>>) = {} BY DEF ToSet
    <3>2. ToSet(fileTranscript'[s]) = {} BY <1>1, <2>1, <3>1
    <3>3. sqlTranscript'[s] = {} BY <1>1, <1>4
    <3>4. QED BY <3>2, <3>3 DEF ImportedEntries
  <2>2. CASE fileTranscript[s] # <<>>
    <3>1. dir[s] # Absent /\ s \in Id BY <2>2 DEF Owned, Id
    <3>2. Filed(dir) BY KeptFiled
    <3>3. items = [c \in Collection |-> Latest(JsonDirectory(c))] BY DEF KeptInv, RecordsInv
    <3>4. Session \in Collection BY DEF Collection
    <3>5. PICK S : S = items[Session] OBVIOUS
    <3>6. S \in Seq(Records) /\ ToSet(S) = RecordsOf(dir, Session)
      BY <3>2, <3>3, <3>4, <3>5, CacheHolds
    <3>7. dir[s] \in ToSet(S) BY <3>1, <3>2, <3>4, <3>6, RecordsOfAre
    <3>8. PICK k \in 1..n : S[k] = dir[s] BY <1>5, <3>5, <3>6, <3>7 DEF ToSet
    <3>9. S[k].id = s BY <3>1, <3>2, <3>8 DEF Filed
    <3>10. PICK p : p = m + k OBVIOUS
    <3>11. p \in DOMAIN L BY <1>7, <1>8, <3>10
    <3>12. L[p] = [what |-> "entries", it |-> s] BY <1>5, <1>6, <3>5, <3>9, <3>10
    <3>13. importing' = L BY <1>1, <1>6
    <3>14. QED BY <3>11, <3>12, <3>13 DEF ImportedEntries
  <2>3. QED BY <2>1, <2>2
<1>11. ImportedEvents'
  <2>1. Len(sqlLog') = 0 /\ fileLog' = fileLog /\ importing' = L BY <1>1, <1>3, <1>6
  <2>2. Len(fileLog') = Len(sqlLog') + q /\ q <= Len(importing') BY <1>6, <1>7, <1>8, <2>1
  <2>3. \A k \in 1..Len(sqlLog') : sqlLog'[k] = fileLog'[k] BY <2>1
  <2>4. ASSUME NEW p \in DOMAIN L
        PROVE  /\ L[p].what = "event" <=> p + q > m + n + q
               /\ L[p].what = "event" => L[p].it = fileLog[q + p - (m + n + q)]
    <3>1. CASE p <= m
      <4>1. p \in 1..m /\ ~(p + q > m + n + q) BY <1>7, <1>8, <3>1
      <4>2. L[p] = [what |-> "record", it |-> Records3[p]] BY <1>5, <1>6, <4>1
      <4>3. L[p].what = "record" BY <4>2
      <4>4. QED BY <4>1, <4>3
    <3>2. CASE m < p /\ p <= m + n
      <4>1. PICK k : k = p - m OBVIOUS
      <4>2. k \in 1..n /\ p = m + k /\ ~(p + q > m + n + q) BY <1>7, <1>8, <3>2, <4>1
      <4>3. L[p] = [what |-> "entries", it |-> items[Session][k].id] BY <1>5, <1>6, <4>2
      <4>4. L[p].what = "entries" BY <4>3
      <4>5. QED BY <4>2, <4>4
    <3>3. CASE m + n < p
      <4>1. PICK k : k = p - (m + n) OBVIOUS
      <4>2. k \in 1..q /\ p = m + n + k /\ p + q > m + n + q /\ k = q + p - (m + n + q)
        BY <1>7, <1>8, <3>3, <4>1
      <4>3. L[p] = [what |-> "event", it |-> fileLog[k]] BY <1>5, <1>6, <4>2
      <4>4. L[p].what = "event" /\ L[p].it = fileLog[k] BY <4>3
      <4>5. QED BY <4>2, <4>4
    <3>4. QED BY <1>7, <1>8, <3>1, <3>2, <3>3
  <2>5. \A p \in DOMAIN importing' :
          /\ importing'[p].what = "event" <=> p + q > Len(importing')
          /\ importing'[p].what = "event"
               => importing'[p].it = fileLog'[Len(fileLog') + p - Len(importing')]
    BY <1>6, <1>8, <2>1, <2>4
  <2>6. QED BY <1>7, <2>2, <2>3, <2>5 DEF ImportedEvents
<1>12. QED BY <1>9, <1>10, <1>11 DEF Imported

\* Each step of an import copies what is next, and leaves the rest.
LEMMA ImportMoves ==
  ASSUME KeptInv, Imported, Import
  PROVE  Imported'
<1>1. PICK x : x = Head(importing) OBVIOUS
<1>2. /\ importing' \in Seq(Tasks) /\ Len(importing') = Len(importing) - 1
      /\ UNCHANGED <<dir, items, fileLog, fileTranscript>>
      /\ x = importing[1] /\ 1 \in DOMAIN importing
      /\ \A p \in DOMAIN importing' : p + 1 \in DOMAIN importing /\ importing'[p] = importing[p + 1]
  BY <1>1, NextTask
<1>3. \/ /\ x.what = "record" /\ SqlPut(x.it)
         /\ x.it \in Records /\ \E i \in Id : x.it = dir[i]
      \/ /\ x.what = "entries" /\ x.it \in Session
         /\ sqlTranscript' = [sqlTranscript EXCEPT ![x.it] = ToSet(fileTranscript[x.it])]
         /\ UNCHANGED <<rows, sqlLog, sqlArts>>
      \/ /\ x.what = "event" /\ x.it \in Events /\ sqlLog' = Append(sqlLog, x.it)
         /\ UNCHANGED <<rows, sqlTranscript, sqlArts>>
  BY <1>1, NextTask
<1>4. importing \in Seq(Tasks) /\ sqlLog \in Seq(Events) /\ fileLog \in Seq(Events)
  BY DEF KeptInv, TypesInv
<1>5. /\ DOMAIN importing = 1..Len(importing) /\ DOMAIN importing' = 1..Len(importing')
      /\ Len(importing) \in Nat /\ Len(importing') \in Nat
      /\ Len(sqlLog) \in Nat /\ Len(fileLog) \in Nat
  BY <1>2, <1>4
\* What is not next stays to be copied.
<1>6. ASSUME NEW y, y # x, \E p \in DOMAIN importing : importing[p] = y
      PROVE  \E p \in DOMAIN importing' : importing'[p] = y
  <2>1. PICK p \in DOMAIN importing : importing[p] = y BY <1>6
  <2>2. p # 1 BY <1>2, <1>6, <2>1
  <2>3. PICK q : q = p - 1 OBVIOUS
  <2>4. q \in DOMAIN importing' /\ q + 1 = p BY <1>2, <1>5, <2>2, <2>3
  <2>5. importing'[q] = y BY <1>2, <2>1, <2>4
  <2>6. QED BY <2>4, <2>5
<1>7. /\ dir \in [Id -> Records \cup {Absent}] /\ rows \in [Id -> Records \cup {Absent}]
      /\ \A i \in Id : dir[i] # Absent => dir[i].id = i
      /\ sqlTranscript \in [Session -> SUBSET Entries]
  BY DEF KeptInv, TypesInv, RecordsInv
<1>8. ASSUME NEW i \in Id PROVE ImportedRecord(i)'
  <2>1. dir'[i] = dir[i] BY <1>2
  <2>2. CASE /\ x.what = "record" /\ SqlPut(x.it)
             /\ x.it \in Records /\ \E j \in Id : x.it = dir[j]
    <3>1. PICK r : r = x.it OBVIOUS
    <3>2. r \in Records /\ r # Absent BY <2>2, <3>1, StateStoresAssumption DEF Records
    <3>3. PICK j \in Id : r = dir[j] BY <2>2, <3>1
    <3>4. r.id = j BY <1>7, <3>2, <3>3
    <3>5. rows' = [rows EXCEPT ![j] = r] BY <2>2, <3>1, <3>4 DEF SqlPut
    <3>6. CASE i = j
      <4>1. rows'[i] = dir'[i] BY <1>7, <2>1, <3>3, <3>5, <3>6
      <4>2. QED BY <4>1 DEF ImportedRecord
    <3>7. CASE i # j
      <4>1. rows'[i] = rows[i] BY <1>7, <3>5, <3>7
      <4>2. CASE rows[i] = dir[i] BY <2>1, <4>1, <4>2 DEF ImportedRecord
      <4>3. CASE rows[i] = Absent
                 /\ \E p \in DOMAIN importing : importing[p] = [what |-> "record", it |-> dir[i]]
        <5>1. PICK y : y = [what |-> "record", it |-> dir[i]] OBVIOUS
        <5>2. y # x
          <6>1. SUFFICES ASSUME y = x PROVE FALSE OBVIOUS
          <6>2. dir[i] = r BY <3>1, <5>1, <6>1
          <6>3. QED BY <1>7, <3>2, <3>4, <3>7, <6>2
        <5>3. \E p \in DOMAIN importing' : importing'[p] = y BY <1>6, <4>3, <5>1, <5>2
        <5>4. QED BY <2>1, <4>1, <4>3, <5>1, <5>3 DEF ImportedRecord
      <4>4. QED BY <4>2, <4>3 DEF Imported, ImportedRecord
    <3>8. QED BY <3>6, <3>7
  <2>3. CASE x.what # "record" /\ rows' = rows
    <3>1. CASE rows[i] = dir[i] BY <2>1, <2>3, <3>1 DEF ImportedRecord
    <3>2. CASE rows[i] = Absent
               /\ \E p \in DOMAIN importing : importing[p] = [what |-> "record", it |-> dir[i]]
      <4>1. PICK y : y = [what |-> "record", it |-> dir[i]] OBVIOUS
      <4>2. y # x BY <2>3, <4>1
      <4>3. \E p \in DOMAIN importing' : importing'[p] = y BY <1>6, <3>2, <4>1, <4>2
      <4>4. QED BY <2>1, <2>3, <3>2, <4>1, <4>3 DEF ImportedRecord
    <3>3. QED BY <3>1, <3>2 DEF Imported, ImportedRecord
  <2>4. QED BY <1>3, <2>2, <2>3
<1>9. ASSUME NEW s \in Session PROVE ImportedEntries(s)'
  <2>1. fileTranscript'[s] = fileTranscript[s] BY <1>2
  <2>2. CASE /\ x.what = "entries" /\ x.it \in Session
             /\ sqlTranscript' = [sqlTranscript EXCEPT ![x.it] = ToSet(fileTranscript[x.it])]
    <3>1. CASE s = x.it
      <4>1. sqlTranscript'[s] = ToSet(fileTranscript'[s]) BY <1>7, <2>1, <2>2, <3>1
      <4>2. QED BY <4>1 DEF ImportedEntries
    <3>2. CASE s # x.it
      <4>1. sqlTranscript'[s] = sqlTranscript[s] BY <1>7, <2>2, <3>2
      <4>2. CASE sqlTranscript[s] = ToSet(fileTranscript[s])
        BY <2>1, <4>1, <4>2 DEF ImportedEntries
      <4>3. CASE \E p \in DOMAIN importing : importing[p] = [what |-> "entries", it |-> s]
        <5>1. PICK y : y = [what |-> "entries", it |-> s] OBVIOUS
        <5>2. y # x BY <3>2, <5>1
        <5>3. \E p \in DOMAIN importing' : importing'[p] = y BY <1>6, <4>3, <5>1, <5>2
        <5>4. QED BY <5>1, <5>3 DEF ImportedEntries
      <4>4. QED BY <4>2, <4>3 DEF Imported, ImportedEntries
    <3>3. QED BY <3>1, <3>2
  <2>3. CASE x.what # "entries" /\ sqlTranscript' = sqlTranscript
    <3>1. CASE sqlTranscript[s] = ToSet(fileTranscript[s])
      BY <2>1, <2>3, <3>1 DEF ImportedEntries
    <3>2. CASE \E p \in DOMAIN importing : importing[p] = [what |-> "entries", it |-> s]
      <4>1. PICK y : y = [what |-> "entries", it |-> s] OBVIOUS
      <4>2. y # x BY <2>3, <4>1
      <4>3. \E p \in DOMAIN importing' : importing'[p] = y BY <1>6, <3>2, <4>1, <4>2
      <4>4. QED BY <4>1, <4>3 DEF ImportedEntries
    <3>3. QED BY <3>1, <3>2 DEF Imported, ImportedEntries
  <2>4. QED BY <1>3, <2>2, <2>3 DEF SqlPut
<1>10. ImportedEvents'
  <2>1. PICK n \in Nat :
          /\ Len(fileLog) = Len(sqlLog) + n /\ n <= Len(importing)
          /\ \A k \in 1..Len(sqlLog) : sqlLog[k] = fileLog[k]
          /\ \A p \in DOMAIN importing :
               /\ importing[p].what = "event" <=> p + n > Len(importing)
               /\ importing[p].what = "event"
                    => importing[p].it = fileLog[Len(fileLog) + p - Len(importing)]
    BY DEF Imported, ImportedEvents
  <2>2. PICK len : len = Len(importing) OBVIOUS
  <2>3. len \in Nat /\ 1 <= len /\ Len(importing') = len - 1 BY <1>2, <1>5, <2>2
  <2>4. ASSUME NEW p \in DOMAIN importing'
        PROVE  /\ importing'[p].what = "event" <=> (p + 1) + n > len
               /\ importing'[p].what = "event"
                    => importing'[p].it = fileLog'[Len(fileLog') + p - Len(importing')]
    <3>1. p + 1 \in DOMAIN importing /\ importing'[p] = importing[p + 1] /\ p \in Nat BY <1>2, <1>5
    <3>2. Len(fileLog) + (p + 1) - len = Len(fileLog) + p - (len - 1) BY <1>5, <2>3, <3>1
    <3>3. /\ importing[p + 1].what = "event" <=> (p + 1) + n > len
          /\ importing[p + 1].what = "event" => importing[p + 1].it = fileLog[Len(fileLog) + (p + 1) - len]
      BY <2>1, <2>2, <3>1
    <3>4. fileLog' = fileLog BY <1>2
    <3>5. QED BY <2>3, <3>1, <3>2, <3>3, <3>4
  <2>5. CASE x.what # "event" /\ sqlLog' = sqlLog
    <3>1. ~(1 + n > len) BY <1>2, <2>1, <2>2, <2>5
    <3>2. n <= Len(importing') BY <2>3, <3>1
    <3>3. \A p \in DOMAIN importing' : (p + 1) + n > len <=> p + n > Len(importing')
      BY <1>5, <2>3
    <3>4. \A p \in DOMAIN importing' :
            /\ importing'[p].what = "event" <=> p + n > Len(importing')
            /\ importing'[p].what = "event"
                 => importing'[p].it = fileLog'[Len(fileLog') + p - Len(importing')]
      BY <2>4, <3>3
    <3>5. /\ Len(fileLog') = Len(sqlLog') + n
          /\ \A k \in 1..Len(sqlLog') : sqlLog'[k] = fileLog'[k]
      BY <1>2, <2>1, <2>5
    <3>6. QED BY <3>2, <3>4, <3>5 DEF ImportedEvents
  <2>6. CASE x.what = "event" /\ x.it \in Events /\ sqlLog' = Append(sqlLog, x.it)
    <3>1. 1 + n > len /\ x.it = fileLog[Len(fileLog) + 1 - len] BY <1>2, <2>1, <2>2, <2>6
    <3>2. n = len BY <2>1, <2>2, <2>3, <3>1
    <3>3. PICK m : m = n - 1 OBVIOUS
    <3>4. m \in Nat /\ m <= Len(importing') BY <2>3, <3>2, <3>3
    <3>5. /\ Len(sqlLog') = Len(sqlLog) + 1 /\ sqlLog'[Len(sqlLog) + 1] = x.it
          /\ \A k \in 1..Len(sqlLog) : sqlLog'[k] = sqlLog[k]
      BY <1>4, <2>6, AppendProperties
    <3>6. Len(fileLog') = Len(sqlLog') + m BY <1>2, <1>5, <2>1, <3>3, <3>5
    <3>7. Len(fileLog) + 1 - len = Len(sqlLog) + 1 BY <1>5, <2>1, <2>3, <3>2
    <3>8. ASSUME NEW k \in 1..Len(sqlLog') PROVE sqlLog'[k] = fileLog'[k]
      <4>1. CASE k = Len(sqlLog) + 1 BY <1>2, <3>1, <3>5, <3>7, <4>1
      <4>2. CASE k # Len(sqlLog) + 1
        <5>1. k \in 1..Len(sqlLog) BY <1>5, <3>5, <4>2
        <5>2. QED BY <1>2, <2>1, <3>5, <5>1
      <4>3. QED BY <4>1, <4>2
    <3>9. \A p \in DOMAIN importing' : (p + 1) + n > len <=> p + m > Len(importing')
      BY <1>5, <2>3, <3>2, <3>3
    <3>10. \A p \in DOMAIN importing' :
             /\ importing'[p].what = "event" <=> p + m > Len(importing')
             /\ importing'[p].what = "event"
                  => importing'[p].it = fileLog'[Len(fileLog') + p - Len(importing')]
      BY <2>4, <3>9
    <3>11. QED BY <3>4, <3>6, <3>8, <3>10 DEF ImportedEvents
  <2>7. QED BY <1>3, <2>5, <2>6 DEF SqlPut
<1>11. QED BY <1>8, <1>9, <1>10 DEF Imported

Copied ==
  /\ rows = dir /\ sqlLog = fileLog
  /\ \A s \in Session : sqlTranscript[s] = ToSet(fileTranscript[s])

\* When an import is over, the database holds what the files do.
LEMMA ImportDone == KeptInv /\ Imported /\ Open => Copied
<1> SUFFICES ASSUME KeptInv, Imported, Open PROVE Copied OBVIOUS
<1>1. importing = <<>> /\ DOMAIN importing = {} /\ Len(importing) = 0
  BY DEF Open
<1>2. \A i \in Id : rows[i] = dir[i] BY <1>1 DEF Imported, ImportedRecord
<1>3. rows = dir BY <1>2 DEF KeptInv, TypesInv
<1>4. \A s \in Session : sqlTranscript[s] = ToSet(fileTranscript[s])
  BY <1>1 DEF Imported, ImportedEntries
<1>5. PICK n \in Nat :
        /\ Len(fileLog) = Len(sqlLog) + n /\ n <= 0
        /\ \A k \in 1..Len(sqlLog) : sqlLog[k] = fileLog[k]
  BY <1>1 DEF Imported, ImportedEvents
<1>6. fileLog \in Seq(Events) /\ sqlLog \in Seq(Events) BY DEF KeptInv, TypesInv
<1>7. Len(sqlLog) = Len(fileLog)
  <2>1. Len(sqlLog) \in Nat /\ Len(fileLog) \in Nat BY <1>6
  <2>2. QED BY <1>5, <2>1
<1>8. sqlLog = fileLog BY <1>5, <1>6, <1>7
<1>9. QED BY <1>3, <1>4, <1>8 DEF Copied

LEMMA MovedInit == StoresInit => MovedInv
<1> SUFFICES ASSUME StoresInit PROVE MovedInv OBVIOUS
<1>1. /\ fileTranscript = [s \in Session |-> <<>>] /\ sqlTranscript = [s \in Session |-> {}]
      /\ importing = <<>>
  BY DEF StoresInit
<1>2. QED BY <1>1 DEF MovedInv, Owned, Open

\* A record that is stored stays stored.
LEMMA StoreMoves ==
  ASSUME KeptInv, MovedInv, NEW i \in Id, NEW status \in Status, NEW token \in Token \cup {Absent},
         NEW t \in 1..MaxTime, Store(i, status, token, t)
  PROVE  MovedInv'
<1>1. PICK r : r = NewRecord(i, status, token, t) OBVIOUS
<1>2. r \in Records /\ r # Absent /\ r.id = i
  <2>1. JobOfId(i) \in Job BY StateStoresAssumption DEF JobOfId, Id, Owner
  <2>2. r \in Records /\ r.id = i BY <1>1, <2>1 DEF NewRecord, Records
  <2>3. QED BY <2>2, StateStoresAssumption DEF Records
<1>3. importing = <<>> /\ importing' = importing BY DEF Store, Calling, Open
<1>4. dir \in [Id -> Records \cup {Absent}] /\ rows \in [Id -> Records \cup {Absent}]
  BY DEF KeptInv, TypesInv
<1>5. fileTranscript' = fileTranscript /\ sqlTranscript' = sqlTranscript
      /\ (dir' = dir \/ dir' = [dir EXCEPT ![i] = r])
      /\ (rows' = rows \/ rows' = [rows EXCEPT ![i] = r])
  <2>1. CASE backend = "file" BY <1>1, <1>2, <2>1 DEF Store, FilePut, tables
  <2>2. CASE backend # "file" BY <1>1, <1>2, <2>2 DEF Store, SqlPut, files
  <2>3. QED BY <2>1, <2>2
<1>6. \A j \in Id : (dir[j] # Absent => dir'[j] # Absent) /\ (rows[j] # Absent => rows'[j] # Absent)
  BY <1>2, <1>4, <1>5
<1>7. Session \subseteq Id BY DEF Id
<1>8. QED BY <1>3, <1>5, <1>6, <1>7 DEF MovedInv, Owned, Open

\* An entry is appended to the transcript of a session that is stored.
LEMMA EntryMoves ==
  ASSUME KeptInv, MovedInv, NEW s \in Session, NEW kind \in EntryKind, AppendEntry(s, kind)
  PROVE  MovedInv'
<1>1. importing = <<>> /\ UNCHANGED <<importing, backend, dir, rows>> /\ Fetch(s) # Absent
  BY DEF AppendEntry, Calling, Open, files, tables
<1>2. Fetch(s) = InUse[s]
  <2>1. s \in Id BY DEF Id
  <2>2. QED BY <2>1, StoredIs
<1>3. fileTranscript \in [Session -> Seq(Entries)] /\ sqlTranscript \in [Session -> SUBSET Entries]
  BY DEF KeptInv, TypesInv
<1>4. Owned BY DEF MovedInv
<1>5. CASE backend = "file"
  <2>1. dir[s] # Absent BY <1>1, <1>2, <1>5 DEF InUse
  <2>2. /\ sqlTranscript' = sqlTranscript
        /\ \A z \in Session : z # s => fileTranscript'[z] = fileTranscript[z]
    BY <1>3, <1>5 DEF AppendEntry, tables
  <2>3. QED BY <1>1, <1>4, <2>1, <2>2 DEF MovedInv, Owned, Open
<1>6. CASE backend # "file"
  <2>1. rows[s] # Absent BY <1>1, <1>2, <1>6 DEF InUse
  <2>2. /\ fileTranscript' = fileTranscript
        /\ \A z \in Session : z # s => sqlTranscript'[z] = sqlTranscript[z]
    BY <1>3, <1>6 DEF AppendEntry, files
  <2>3. QED BY <1>1, <1>4, <2>1, <2>2 DEF MovedInv, Owned, Open
<1>7. QED BY <1>5, <1>6

\* A start on a backend that holds something moves nothing.
LEMMA StartMoves ==
  ASSUME KeptInv, MovedInv, ~Interrupt, NEW b \in {"file", "sqlite"}, Start(b)
  PROVE  MovedInv'
<1>1. Open /\ UNCHANGED <<dir, fileTranscript, rows, sqlTranscript>>
  BY DEF Start, FileOpen, tables
<1>2. Owned /\ Owned' BY <1>1 DEF MovedInv, Owned, Open
<1>3. CASE importing' = <<>> BY <1>2, <1>3 DEF MovedInv, Open
<1>4. CASE importing' # <<>>
  <2>1. Imported' BY <1>1, <1>2, <1>4, StartImports
  <2>2. QED BY <1>2, <2>1 DEF MovedInv
<1>5. QED BY <1>3, <1>4

LEMMA ImportMovesOn ==
  ASSUME KeptInv, MovedInv, Import
  PROVE  Imported' /\ MovedInv'
<1>1. importing # <<>> /\ UNCHANGED <<dir, fileTranscript>> BY NextTask
<1>2. Imported BY <1>1 DEF MovedInv, Open
<1>3. Imported' BY <1>2, ImportMoves
<1>4. KeptInv' BY ImportKeeps
<1>5. \A s \in Session : fileTranscript'[s] # <<>> => dir'[s] # Absent
  BY <1>1 DEF MovedInv, Owned
<1>6. ASSUME Open', NEW s \in Session, sqlTranscript'[s] # {} PROVE rows'[s] # Absent
  <2>1. Copied' BY <1>3, <1>4, <1>6, ImportDone, PTL
  <2>2. sqlTranscript'[s] = ToSet(fileTranscript'[s]) /\ rows'[s] = dir'[s] BY <2>1 DEF Copied
  <2>3. ToSet(<<>>) = {} BY DEF ToSet
  <2>4. fileTranscript'[s] # <<>> BY <1>6, <2>2, <2>3
  <2>5. QED BY <1>5, <2>2, <2>4
<1>7. QED BY <1>3, <1>5, <1>6 DEF MovedInv, Owned

LEMMA MovedStep ==
  ASSUME KeptInv, MovedInv, ~Interrupt, [StoresNext]_storesVars
  PROVE  MovedInv'
<1>1. KeptInv /\ Filed(InUse) /\ \A i \in Id : Fetch(i) = InUse[i] BY StoredIs
<1>2. ASSUME NEW i \in Id, NEW status \in Status, NEW t \in 1..MaxTime, Put(i, status, t)
      PROVE  MovedInv'
  <2>1. Store(i, status, Absent, t) BY <1>2 DEF Put
  <2>2. Absent \in Token \cup {Absent} OBVIOUS
  <2>3. QED BY <2>1, <2>2, StoreMoves
<1>3. ASSUME NEW s \in Session, NEW token \in Token, NEW t \in 1..MaxTime,
             UpdateSessionRuntime(s, token, t)
      PROVE  MovedInv'
  <2>1. s \in Id BY DEF Id
  <2>2. Fetch(s) # Absent /\ Store(s, Fetch(s).status, token, t) BY <1>3 DEF UpdateSessionRuntime
  <2>3. Fetch(s) \in Records BY <1>1, <2>1, <2>2 DEF Filed
  <2>4. Fetch(s).status \in Status BY <2>3 DEF Records
  <2>5. token \in Token \cup {Absent} OBVIOUS
  <2>6. QED BY <2>1, <2>2, <2>4, <2>5, StoreMoves
<1>4. ASSUME UNCHANGED <<dir, fileLog, fileTranscript, rows, sqlLog, sqlTranscript, importing>>
      PROVE  MovedInv'
  <2>1. Owned' BY <1>4 DEF MovedInv, Owned, Open
  <2>2. Imported => Imported'
    BY <1>4 DEF Imported, ImportedRecord, ImportedEntries, ImportedEvents
  <2>3. QED BY <1>4, <2>1, <2>2 DEF MovedInv, Open
<1>5. ASSUME NEW type \in EventType, AppendEvent(type) PROVE MovedInv'
  <2>1. Open /\ UNCHANGED <<dir, fileTranscript, rows, sqlTranscript, importing>>
    BY <1>5 DEF AppendEvent, Calling, files, tables
  <2>2. QED BY <2>1 DEF MovedInv, Owned, Open
<1>6. ASSUME NEW o \in Owner, WriteResult(o, Artifact) PROVE MovedInv'
  BY <1>4, <1>6 DEF WriteResult, files, tables
<1>7. ASSUME NEW a \in Artifact, Rebuild(a) PROVE MovedInv'
  BY <1>4, <1>7 DEF Rebuild, files, tables
<1>8. ASSUME UNCHANGED storesVars PROVE MovedInv'
  BY <1>4, <1>8 DEF storesVars, files, tables
<1>9. QED
  BY <1>2, <1>3, <1>5, <1>6, <1>7, <1>8, EntryMoves, StartMoves, ImportMovesOn DEF StoresNext

\* An import that nothing interrupts loses nothing: what is not in the database
\* yet is still to be copied, and a transcript is kept with its session.
THEOREM ImportsComplete == ASSUME ~Interrupt PROVE StoresSpec => []MovedInv
<1>1. StoresInit => MovedInv BY MovedInit
<1>2. KeptInv /\ MovedInv /\ [StoresNext]_storesVars => MovedInv' BY MovedStep
<1>3. QED BY <1>1, <1>2, StoresKept, PTL DEF StoresSpec

-----------------------------------------------------------------------------
(* One store *)

FileContents == [records |-> dir, transcripts |-> fileTranscript, events |-> fileLog]
SqlContents ==
  [records |-> rows, transcripts |-> [s \in Session |-> InSequence(sqlTranscript[s])],
   events |-> sqlLog]

\* Only the sequence numbers of a transcript's entries order it.
LEMMA InSequenceIs ==
  ASSUME NEW t \in Seq(Entries), Sequenced(t)
  PROVE  InSequence(ToSet(t)) = t
<1>1. PICK T : T = ToSet(t) OBVIOUS
<1>2. InSequence(T) = Picked(t, T) /\ Picked(t, ToSet(t)) = t BY <1>1, SequencedIs
<1>3. QED BY <1>1, <1>2

LEMMA FileHolds == KeptInv => FileHeld = FileContents
<1> SUFFICES ASSUME KeptInv PROVE FileHeld = FileContents OBVIOUS
<1>1. Filed(dir) BY KeptFiled
<1>2. items = [c \in Collection |-> Latest(JsonDirectory(c))] BY DEF KeptInv, RecordsInv
<1>3. \A i \in Id : FileGet(i) = dir[i] BY <1>1, <1>2, CacheHolds
<1>4. dir = [i \in Id |-> FileGet(i)] BY <1>1, <1>3 DEF Filed
<1>5. fileTranscript = [s \in Session |-> fileTranscript[s]] BY DEF KeptInv, TypesInv
<1>6. FileHeld = [records |-> [i \in Id |-> FileGet(i)],
                  transcripts |-> [s \in Session |-> fileTranscript[s]], events |-> fileLog]
  BY DEF FileHeld, Held
<1>7. QED BY <1>4, <1>5, <1>6 DEF FileContents

LEMMA SqlHolds == KeptInv => SqlHeld = SqlContents
<1> SUFFICES ASSUME KeptInv PROVE SqlHeld = SqlContents OBVIOUS
<1>1. rows = [i \in Id |-> SqlGet(i)] BY DEF KeptInv, TypesInv, SqlGet
<1>2. ASSUME NEW s \in Session
      PROVE  SqlEntries(s, 0, EntryKind, MaxCalls) = InSequence(sqlTranscript[s])
  <2>1. PICK t \in Seq(Entries) : Sequenced(t) /\ Len(t) <= calls /\ sqlTranscript[s] = ToSet(t)
    BY DEF KeptInv, EntriesInv
  <2>2. Len(t) <= MaxCalls
    <3>1. calls \in 0..MaxCalls /\ MaxCalls \in Nat /\ Len(t) \in Nat
      BY StateStoresAssumption DEF KeptInv, TypesInv
    <3>2. QED BY <2>1, <3>1
  <2>3. EntriesAfter(ToSet(t), 0, EntryKind) = ToSet(t) /\ Slice(t, 0, MaxCalls) = t
    BY <2>1, <2>2, WholeIs
  <2>4. InSequence(ToSet(t)) = t BY <2>1, InSequenceIs
  <2>5. SqlEntries(s, 0, EntryKind, MaxCalls)
          = Slice(InSequence(EntriesAfter(sqlTranscript[s], 0, EntryKind)), 0, MaxCalls)
    BY DEF SqlEntries
  <2>6. QED BY <2>1, <2>3, <2>4, <2>5
<1>3. SqlHeld = [records |-> [i \in Id |-> SqlGet(i)],
                 transcripts |-> [s \in Session |-> SqlEntries(s, 0, EntryKind, MaxCalls)],
                 events |-> sqlLog]
  BY DEF SqlHeld, Held
<1>4. [s \in Session |-> SqlEntries(s, 0, EntryKind, MaxCalls)]
        = [s \in Session |-> InSequence(sqlTranscript[s])]
  BY <1>2
<1>5. QED BY <1>1, <1>3, <1>4 DEF SqlContents

\* What the contract calls used and aside.
Mine == IF backend = "file" \/ ~Open THEN FileContents ELSE SqlContents
Other == IF ~Open THEN NothingHeld ELSE IF backend = "file" THEN SqlContents ELSE FileContents
Mapped == HeldInUse = Mine /\ HeldAside = Other

LEMMA HeldIs == KeptInv => Mapped
<1>1. KeptInv => FileHeld = FileContents BY FileHolds
<1>2. KeptInv => SqlHeld = SqlContents BY SqlHolds
<1>3. QED BY <1>1, <1>2 DEF Mapped, HeldInUse, HeldAside, Mine, Other

\* A database that is empty holds nothing: its transcripts belong to sessions.
LEMMA EmptyHolds ==
  ASSUME KeptInv, Owned, Open, IsEmpty
  PROVE  SqlContents = NothingHeld
<1>1. rows = [i \in Id |-> Absent] /\ sqlLog = <<>> BY DEF KeptInv, TypesInv, IsEmpty
<1>2. \A s \in Session : sqlTranscript[s] = {} BY DEF Owned, IsEmpty, Id
<1>3. InSequence({}) = <<>>
  <2>1. <<>> \in Seq(Entries) /\ DOMAIN <<>> = {} OBVIOUS
  <2>2. Sequenced(<<>>) BY <2>1 DEF Sequenced
  <2>3. ToSet(<<>>) = {} BY DEF ToSet
  <2>4. InSequence(ToSet(<<>>)) = <<>> BY <2>1, <2>2, InSequenceIs
  <2>5. QED BY <2>3, <2>4
<1>4. [s \in Session |-> InSequence(sqlTranscript[s])] = [s \in Session |-> <<>>] BY <1>2, <1>3
<1>5. QED BY <1>1, <1>4 DEF SqlContents, NothingHeld, Held

WithRecord(c, i, r) == [c EXCEPT !.records[i] = r]
WithEntries(c, s, t) == [c EXCEPT !.transcripts[s] = t]
WithLog(c, l) == [c EXCEPT !.events = l]

LEMMA WithIs ==
  ASSUME NEW a, NEW b, NEW c, NEW C, C = [records |-> a, transcripts |-> b, events |-> c],
         NEW i, NEW x
  PROVE  /\ WithRecord(C, i, x) = [records |-> [a EXCEPT ![i] = x], transcripts |-> b, events |-> c]
         /\ WithEntries(C, i, x) = [records |-> a, transcripts |-> [b EXCEPT ![i] = x], events |-> c]
         /\ WithLog(C, x) = [records |-> a, transcripts |-> b, events |-> x]
<1>1. /\ WithRecord([records |-> a, transcripts |-> b, events |-> c], i, x)
           = [records |-> [a EXCEPT ![i] = x], transcripts |-> b, events |-> c]
      /\ WithEntries([records |-> a, transcripts |-> b, events |-> c], i, x)
           = [records |-> a, transcripts |-> [b EXCEPT ![i] = x], events |-> c]
      /\ WithLog([records |-> a, transcripts |-> b, events |-> c], x)
           = [records |-> a, transcripts |-> b, events |-> x]
  BY DEF WithRecord, WithEntries, WithLog
<1>2. QED BY <1>1

LEMMA StoreIsPut ==
  ASSUME KeptInv, Mapped, Mapped', NEW i \in Id, NEW status \in Status, NEW token \in Token \cup {Absent},
         NEW t \in 1..MaxTime, Store(i, status, token, t)
  PROVE  SC!Next
<1>1. PICK r : r = NewRecord(i, status, token, t) OBVIOUS
<1>2. r \in Records /\ r.id = i
  <2>1. JobOfId(i) \in Job BY StateStoresAssumption DEF JobOfId, Id, Owner
  <2>2. QED BY <1>1, <2>1 DEF NewRecord, Records
<1>3. Open /\ Open' /\ backend' = backend BY DEF Store, Calling, Open
<1>4. dir \in [Id -> Records \cup {Absent}] /\ rows \in [Id -> Records \cup {Absent}]
  BY DEF KeptInv, TypesInv
<1>5. HeldInUse' = WithRecord(HeldInUse, i, r) /\ HeldInUse'.records[i] = r
      /\ HeldAside' = HeldAside
  <2>1. CASE backend = "file"
    <3>1. /\ dir' = [dir EXCEPT ![i] = r] /\ UNCHANGED <<fileTranscript, fileLog>>
          /\ UNCHANGED <<rows, sqlTranscript, sqlLog>>
      BY <1>1, <1>2, <2>1 DEF Store, FilePut, tables
    <3>2. HeldInUse = FileContents /\ HeldAside = SqlContents
      BY <1>3, <2>1 DEF Mapped, Mine, Other
    <3>3. HeldInUse' = FileContents' /\ HeldAside' = SqlContents'
      BY <1>3, <2>1 DEF Mapped, Mine, Other
    <3>4. SqlContents' = SqlContents BY <3>1 DEF SqlContents
    <3>5. FileContents' = WithRecord(FileContents, i, r) /\ FileContents'.records[i] = r
      BY <1>4, <3>1 DEF FileContents, WithRecord
    <3>6. QED BY <3>2, <3>3, <3>4, <3>5
  <2>2. CASE backend # "file"
    <3>1. /\ rows' = [rows EXCEPT ![i] = r] /\ UNCHANGED <<dir, fileTranscript, fileLog>>
          /\ UNCHANGED <<sqlTranscript, sqlLog>>
      BY <1>1, <1>2, <2>2 DEF Store, SqlPut, files
    <3>2. HeldInUse = SqlContents /\ HeldAside = FileContents
      BY <1>3, <2>2 DEF Mapped, Mine, Other
    <3>3. HeldInUse' = SqlContents' /\ HeldAside' = FileContents'
      BY <1>3, <2>2 DEF Mapped, Mine, Other
    <3>4. FileContents' = FileContents BY <3>1 DEF FileContents
    <3>5. SqlContents' = WithRecord(SqlContents, i, r) /\ SqlContents'.records[i] = r
      <4>1. PICK f : f = [s \in Session |-> InSequence(sqlTranscript[s])] OBVIOUS
      <4>2. SqlContents = [records |-> rows, transcripts |-> f, events |-> sqlLog]
        BY <4>1 DEF SqlContents
      <4>3. SqlContents' = [records |-> rows', transcripts |-> f, events |-> sqlLog]
        BY <3>1, <4>1 DEF SqlContents
      <4>4. WithRecord(SqlContents, i, r)
              = [records |-> [rows EXCEPT ![i] = r], transcripts |-> f, events |-> sqlLog]
        BY <4>2, WithIs
      <4>5. rows'[i] = r BY <1>4, <3>1
      <4>6. QED BY <3>1, <4>3, <4>4, <4>5
    <3>6. QED BY <3>2, <3>3, <3>4, <3>5
  <2>3. QED BY <2>1, <2>2
<1>6. QED BY <1>2, <1>5 DEF SC!Next, SC!Put, Records, WithRecord

LEMMA EventIsEvent ==
  ASSUME KeptInv, Mapped, Mapped', NEW type \in EventType, AppendEvent(type)
  PROVE  SC!Next
<1>1. PICK e : e = [type |-> type] OBVIOUS
<1>2. Open /\ Open' /\ backend' = backend /\ e \in [type: EventType]
  BY <1>1 DEF AppendEvent, Calling, Open
<1>3. HeldInUse' = WithLog(HeldInUse, Append(HeldInUse.events, e)) /\ HeldAside' = HeldAside
  <2>1. CASE backend = "file"
    <3>1. /\ fileLog' = Append(fileLog, e) /\ UNCHANGED <<dir, fileTranscript>>
          /\ UNCHANGED <<rows, sqlTranscript, sqlLog>>
      BY <1>1, <2>1 DEF AppendEvent, tables
    <3>2. HeldInUse = FileContents /\ HeldAside = SqlContents
      BY <1>2, <2>1 DEF Mapped, Mine, Other
    <3>3. HeldInUse' = FileContents' /\ HeldAside' = SqlContents'
      BY <1>2, <2>1 DEF Mapped, Mine, Other
    <3>4. SqlContents' = SqlContents BY <3>1 DEF SqlContents
    <3>5. FileContents' = WithLog(FileContents, Append(FileContents.events, e))
      <4>1. PICK C : C = FileContents OBVIOUS
      <4>2. C = [records |-> dir, transcripts |-> fileTranscript, events |-> fileLog]
        BY <4>1 DEF FileContents
      <4>3. FileContents' = [records |-> dir, transcripts |-> fileTranscript, events |-> fileLog']
        BY <3>1 DEF FileContents
      <4>4. WithLog(C, fileLog') = [records |-> dir, transcripts |-> fileTranscript, events |-> fileLog']
        BY <4>2, WithIs
      <4>5. C.events = fileLog BY <4>2
      <4>6. QED BY <3>1, <4>1, <4>3, <4>4, <4>5
    <3>6. QED BY <3>2, <3>3, <3>4, <3>5
  <2>2. CASE backend # "file"
    <3>1. /\ sqlLog' = Append(sqlLog, e) /\ UNCHANGED <<dir, fileTranscript, fileLog>>
          /\ UNCHANGED <<rows, sqlTranscript>>
      BY <1>1, <2>2 DEF AppendEvent, files
    <3>2. HeldInUse = SqlContents /\ HeldAside = FileContents
      BY <1>2, <2>2 DEF Mapped, Mine, Other
    <3>3. HeldInUse' = SqlContents' /\ HeldAside' = FileContents'
      BY <1>2, <2>2 DEF Mapped, Mine, Other
    <3>4. FileContents' = FileContents BY <3>1 DEF FileContents
    <3>5. SqlContents' = WithLog(SqlContents, Append(SqlContents.events, e))
      <4>1. PICK f : f = [s \in Session |-> InSequence(sqlTranscript[s])] OBVIOUS
      <4>2. SqlContents = [records |-> rows, transcripts |-> f, events |-> sqlLog]
        BY <4>1 DEF SqlContents
      <4>3. SqlContents' = [records |-> rows, transcripts |-> f, events |-> sqlLog']
        BY <3>1, <4>1 DEF SqlContents
      <4>4. WithLog(SqlContents, sqlLog') = [records |-> rows, transcripts |-> f, events |-> sqlLog']
        BY <4>2, WithIs
      <4>5. SqlContents.events = sqlLog BY <4>2
      <4>6. QED BY <3>1, <4>3, <4>4, <4>5
    <3>6. QED BY <3>2, <3>3, <3>4, <3>5
  <2>3. QED BY <2>1, <2>2
<1>4. QED BY <1>2, <1>3 DEF SC!Next, SC!AppendEvent, WithLog

LEMMA EntryIsEntry ==
  ASSUME KeptInv, Mapped, Mapped', NEW s \in Session, NEW kind \in EntryKind, AppendEntry(s, kind)
  PROVE  SC!Next
<1>1. /\ Open /\ Open' /\ UNCHANGED <<backend, dir, fileLog, rows, sqlLog>>
      /\ backend = "file" => sqlTranscript' = sqlTranscript
      /\ backend # "file" => fileTranscript' = fileTranscript
  BY DEF AppendEntry, Calling, Open, files, tables
<1>2. PICK t \in Seq(Entries) :
        /\ Sequenced(t) /\ Len(t) <= calls /\ Len(t) <= MaxCalls
        /\ IF backend = "file" THEN fileTranscript[s] = t ELSE sqlTranscript[s] = ToSet(t)
  BY TranscriptIs
<1>3. PICK e \in Entries :
        /\ Append(t, e) \in Seq(Entries) /\ Sequenced(Append(t, e))
        /\ Len(Append(t, e)) = Len(t) + 1
        /\ backend = "file" => fileTranscript' = [fileTranscript EXCEPT ![s] = Append(t, e)]
        /\ backend # "file" => sqlTranscript' = [sqlTranscript EXCEPT ![s] = ToSet(Append(t, e))]
  BY <1>2, EntryAppended
<1>4. PICK u : u = Append(t, e) OBVIOUS
<1>5. fileTranscript \in [Session -> Seq(Entries)] /\ sqlTranscript \in [Session -> SUBSET Entries]
  BY DEF KeptInv, TypesInv
<1>6. HeldInUse' = WithEntries(HeldInUse, s, Append(HeldInUse.transcripts[s], e)) /\ HeldAside' = HeldAside
  <2>1. CASE backend = "file"
    <3>1. fileTranscript' = [fileTranscript EXCEPT ![s] = u] /\ fileTranscript[s] = t
      BY <1>2, <1>3, <1>4, <2>1
    <3>2. HeldInUse = FileContents /\ HeldAside = SqlContents
      BY <1>1, <2>1 DEF Mapped, Mine, Other
    <3>3. HeldInUse' = FileContents' /\ HeldAside' = SqlContents'
      BY <1>1, <2>1 DEF Mapped, Mine, Other
    <3>4. SqlContents' = SqlContents BY <1>1, <2>1 DEF SqlContents
    <3>5. FileContents.transcripts[s] = t BY <3>1 DEF FileContents
    <3>6. FileContents' = [FileContents EXCEPT !.transcripts[s] = u]
      BY <1>1, <3>1 DEF FileContents
    <3>7. FileContents' = WithEntries(FileContents, s, Append(FileContents.transcripts[s], e))
      BY <1>4, <3>5, <3>6 DEF WithEntries, FileContents
    <3>8. QED BY <3>2, <3>3, <3>4, <3>7
  <2>2. CASE backend # "file"
    <3>1. sqlTranscript' = [sqlTranscript EXCEPT ![s] = ToSet(u)] /\ sqlTranscript[s] = ToSet(t)
      BY <1>2, <1>3, <1>4, <2>2
    <3>2. HeldInUse = SqlContents /\ HeldAside = FileContents
      BY <1>1, <2>2 DEF Mapped, Mine, Other
    <3>3. HeldInUse' = SqlContents' /\ HeldAside' = FileContents'
      BY <1>1, <2>2 DEF Mapped, Mine, Other
    <3>4. FileContents' = FileContents BY <1>1, <2>2 DEF FileContents
    <3>5. InSequence(ToSet(u)) = u /\ InSequence(ToSet(t)) = t
      BY <1>2, <1>3, <1>4, InSequenceIs
    <3>6. PICK f : f = [z \in Session |-> InSequence(sqlTranscript[z])] OBVIOUS
    <3>7. f[s] = t BY <3>1, <3>5, <3>6
    <3>8. [z \in Session |-> InSequence(sqlTranscript'[z])] = [f EXCEPT ![s] = u]
      BY <1>5, <3>1, <3>5, <3>6
    <3>9. SqlContents = [records |-> rows, transcripts |-> f, events |-> sqlLog]
      BY <3>6 DEF SqlContents
    <3>10. SqlContents' = [records |-> rows, transcripts |-> [f EXCEPT ![s] = u], events |-> sqlLog]
      BY <1>1, <3>8 DEF SqlContents
    <3>11. SqlContents' = WithEntries(SqlContents, s, Append(SqlContents.transcripts[s], e))
      <4>1. WithEntries(SqlContents, s, u)
              = [records |-> rows, transcripts |-> [f EXCEPT ![s] = u], events |-> sqlLog]
        BY <3>9, WithIs
      <4>2. SqlContents.transcripts[s] = t BY <3>7, <3>9
      <4>3. QED BY <1>4, <3>10, <4>1, <4>2
    <3>12. QED BY <3>2, <3>3, <3>4, <3>11
  <2>3. QED BY <2>1, <2>2
<1>7. QED BY <1>6 DEF SC!Next, SC!AppendEntry, Entries, WithEntries

\* A restart on the same backend changes nothing, nor does the start of an
\* import; any other start goes back to what the other backend held.
LEMMA StartIsBack ==
  ASSUME KeptInv, MovedInv, ~Interrupt, Mapped, Mapped', NEW b \in {"file", "sqlite"}, Start(b)
  PROVE  SC!Next \/ UNCHANGED <<HeldInUse, HeldAside>>
<1>1. /\ Open /\ backend' = b
      /\ UNCHANGED <<dir, fileTranscript, fileLog, rows, sqlTranscript, sqlLog>>
      /\ importing' = (IF b = "sqlite" /\ IsEmpty THEN ImportList ELSE <<>>)
  BY DEF Start, FileOpen, tables
<1>2. backend \in {"file", "sqlite"} BY DEF KeptInv, TypesInv
<1>3. FileContents' = FileContents /\ SqlContents' = SqlContents
      /\ NothingHeld' = NothingHeld
  BY <1>1 DEF FileContents, SqlContents, NothingHeld, Held
<1>4. SC!GoBack => SC!Next BY DEF SC!Next
<1>5. CASE importing' = <<>>
  <2>1. Open' BY <1>5 DEF Open
  <2>2. CASE b = backend BY <1>1, <1>3, <2>1, <2>2 DEF Mapped, Mine, Other
  <2>3. CASE b # backend
    <3>1. HeldInUse' = HeldAside /\ HeldAside' = HeldInUse
      BY <1>1, <1>2, <1>3, <2>1, <2>3 DEF Mapped, Mine, Other
    <3>2. QED BY <1>4, <3>1 DEF SC!GoBack
  <2>4. QED BY <2>2, <2>3
<1>6. CASE importing' # <<>>
  <2>1. ~Open' /\ b = "sqlite" /\ IsEmpty BY <1>1, <1>6 DEF Open
  <2>2. SqlContents = NothingHeld BY <1>1, <2>1, EmptyHolds DEF MovedInv
  <2>3. HeldInUse' = FileContents /\ HeldAside' = NothingHeld
    BY <1>3, <2>1 DEF Mapped, Mine, Other
  <2>4. CASE backend = "file" BY <1>1, <2>2, <2>3, <2>4 DEF Mapped, Mine, Other
  <2>5. CASE backend # "file"
    <3>1. HeldInUse' = HeldAside /\ HeldAside' = HeldInUse
      BY <1>1, <2>2, <2>3, <2>5 DEF Mapped, Mine, Other
    <3>2. QED BY <1>4, <3>1 DEF SC!GoBack
  <2>6. QED BY <2>4, <2>5
<1>7. QED BY <1>5, <1>6

\* The last step of an import takes everything along.
LEMMA ImportIsTaking ==
  ASSUME KeptInv, MovedInv, Mapped, Mapped', Import
  PROVE  SC!Next \/ UNCHANGED <<HeldInUse, HeldAside>>
<1>1. /\ backend = "sqlite" /\ backend' = "sqlite" /\ ~Open
      /\ UNCHANGED <<dir, fileTranscript, fileLog>>
  BY NextTask DEF Open
<1>2. FileContents' = FileContents /\ NothingHeld' = NothingHeld
  BY <1>1 DEF FileContents, NothingHeld, Held
<1>3. HeldInUse = FileContents /\ HeldAside = NothingHeld BY <1>1 DEF Mapped, Mine, Other
<1>4. CASE ~Open' BY <1>2, <1>3, <1>4 DEF Mapped, Mine, Other
<1>5. CASE Open'
  <2>1. HeldInUse' = SqlContents' /\ HeldAside' = FileContents'
    BY <1>1, <1>5 DEF Mapped, Mine, Other
  <2>2. Imported' BY ImportMovesOn
  <2>3. KeptInv' BY ImportKeeps
  <2>4. Copied' BY <1>5, <2>2, <2>3, ImportDone, PTL
  <2>5. ASSUME NEW s \in Session PROVE InSequence(sqlTranscript'[s]) = fileTranscript'[s]
    <3>1. PICK t : t = fileTranscript'[s] OBVIOUS
    <3>2. t \in Seq(Entries) /\ Sequenced(t)
      BY <2>3, <3>1 DEF KeptInv, TypesInv, EntriesInv, Sequenced
    <3>3. sqlTranscript'[s] = ToSet(t) BY <2>4, <3>1 DEF Copied
    <3>4. QED BY <3>1, <3>2, <3>3, InSequenceIs
  <2>6. fileTranscript' = [s \in Session |-> InSequence(sqlTranscript'[s])]
    BY <2>3, <2>5 DEF KeptInv, TypesInv
  <2>7. SqlContents' = FileContents' BY <2>4, <2>6 DEF SqlContents, FileContents, Copied
  <2>8. HeldAside' = HeldInUse /\ HeldInUse' = HeldInUse BY <1>2, <1>3, <2>1, <2>7
  <2>9. QED BY <2>8 DEF SC!Next, SC!TakeAlong
<1>6. QED BY <1>4, <1>5

LEMMA StepMaps ==
  ASSUME KeptInv, MovedInv, ~Interrupt, Mapped, Mapped', [StoresNext]_storesVars
  PROVE  SC!Next \/ UNCHANGED <<HeldInUse, HeldAside>>
<1>1. KeptInv /\ Filed(InUse) /\ \A i \in Id : Fetch(i) = InUse[i] BY StoredIs
<1>2. ASSUME NEW i \in Id, NEW status \in Status, NEW t \in 1..MaxTime, Put(i, status, t)
      PROVE  SC!Next
  <2>1. Store(i, status, Absent, t) BY <1>2 DEF Put
  <2>2. Absent \in Token \cup {Absent} OBVIOUS
  <2>3. QED BY <2>1, <2>2, StoreIsPut
<1>3. ASSUME NEW s \in Session, NEW token \in Token, NEW t \in 1..MaxTime,
             UpdateSessionRuntime(s, token, t)
      PROVE  SC!Next
  <2>1. s \in Id BY DEF Id
  <2>2. Fetch(s) # Absent /\ Store(s, Fetch(s).status, token, t) BY <1>3 DEF UpdateSessionRuntime
  <2>3. Fetch(s) \in Records BY <1>1, <2>1, <2>2 DEF Filed
  <2>4. Fetch(s).status \in Status BY <2>3 DEF Records
  <2>5. token \in Token \cup {Absent} OBVIOUS
  <2>6. QED BY <2>1, <2>2, <2>4, <2>5, StoreIsPut
<1>4. ASSUME UNCHANGED <<backend, dir, fileLog, fileTranscript, rows, sqlLog, sqlTranscript, importing>>
      PROVE  UNCHANGED <<HeldInUse, HeldAside>>
  <2>1. /\ FileContents' = FileContents /\ SqlContents' = SqlContents
        /\ NothingHeld' = NothingHeld /\ (Open' <=> Open)
    BY <1>4 DEF FileContents, SqlContents, NothingHeld, Held, Open
  <2>2. QED BY <1>4, <2>1 DEF Mapped, Mine, Other
<1>5. ASSUME NEW o \in Owner, WriteResult(o, Artifact) PROVE UNCHANGED <<HeldInUse, HeldAside>>
  BY <1>4, <1>5 DEF WriteResult, files, tables
<1>6. ASSUME NEW a \in Artifact, Rebuild(a) PROVE UNCHANGED <<HeldInUse, HeldAside>>
  BY <1>4, <1>6 DEF Rebuild, files, tables
<1>7. ASSUME UNCHANGED storesVars PROVE UNCHANGED <<HeldInUse, HeldAside>>
  BY <1>4, <1>7 DEF storesVars, files, tables
<1>8. QED
  BY <1>2, <1>3, <1>5, <1>6, <1>7, EntryIsEntry, EventIsEvent, StartIsBack, ImportIsTaking
     DEF StoresNext

LEMMA InitMaps == StoresInit => SC!Init
<1> SUFFICES ASSUME StoresInit PROVE SC!Init OBVIOUS
<1>1. KeptInv BY InitKeeps
<1>2. Mapped BY <1>1, HeldIs
<1>3. /\ backend = "file" /\ importing = <<>> /\ dir = [i \in Id |-> Absent]
      /\ fileTranscript = [s \in Session |-> <<>>] /\ fileLog = <<>>
      /\ rows = [i \in Id |-> Absent] /\ sqlLog = <<>>
  BY DEF StoresInit
<1>4. FileContents = NothingHeld BY <1>3 DEF FileContents, NothingHeld, Held
<1>5. SqlContents = NothingHeld
  <2>1. Owned BY MovedInit DEF MovedInv
  <2>2. IsEmpty /\ Open BY <1>3 DEF IsEmpty, Open
  <2>3. QED BY <1>1, <2>1, <2>2, EmptyHolds
<1>6. HeldInUse = NothingHeld /\ HeldAside = NothingHeld
  BY <1>2, <1>3, <1>4, <1>5 DEF Mapped, Mine, Other, Open
<1>7. QED BY <1>6 DEF SC!Init, SC!Blank, NothingHeld, Held

\* Cutover, rollback and restarts neither lose nor mix up what is stored, as
\* long as the process does not end while an import is under way: the two
\* backends implement one store with a fall-back.
THEOREM OneStore == ASSUME ~Interrupt PROVE StoresSpec => Contract
<1>1. StoresInit => SC!Init BY InitMaps
<1>2. KeptInv => Mapped BY HeldIs
<1>3. KeptInv /\ MovedInv /\ Mapped /\ Mapped' /\ [StoresNext]_storesVars
        => [SC!Next]_<<HeldInUse, HeldAside>>
  BY StepMaps
<1>4. StoresSpec => []MovedInv BY ImportsComplete
<1>5. QED BY <1>1, <1>2, <1>3, <1>4, StoresKept, PTL DEF StoresSpec, Contract, SC!Spec
====
