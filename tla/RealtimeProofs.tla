--------------------------- MODULE RealtimeProofs ---------------------------
(***************************************************************************)
(* What holds of Realtime for every set of clients and every limit: the    *)
(* types, that a client of a file transport misses no chunk, that a stream *)
(* drops none, and, where no client is hasty, that a closed connection     *)
(* leaves nothing behind.                                                  *)
(***************************************************************************)
EXTENDS Realtime, FiniteSetTheorems, WellFoundedInduction, TLAPS

-----------------------------------------------------------------------------
(* Lemmas about numbers, and about the operators the actions are built from *)

\* A nonempty set of numbers has a least one,
LEMMA Least ==
  ASSUME NEW S, S \subseteq Nat, S # {}
  PROVE  Min(S) \in S /\ \A x \in S : Min(S) <= x
<1>1. PICK m \in S : \A x \in S : ~(<<x, m>> \in OpToRel(<, Nat))
  BY NatLessThanWellFounded, WFMin
<1>2. ASSUME NEW x \in S PROVE m <= x
  <2>1. x \in Nat /\ m \in Nat OBVIOUS
  <2>2. ~(x < m) BY <1>1, <2>1 DEF OpToRel
  <2>3. QED BY <2>1, <2>2
<1>3. QED BY <1>2 DEF Min

\* and, if it is bounded, a greatest.
LEMMA Greatest ==
  ASSUME NEW n \in Nat, NEW S, S \subseteq 0..n, S # {}
  PROVE  Max(S) \in S /\ \A x \in S : x <= Max(S)
<1>1. PICK T : T = {n - x : x \in S} OBVIOUS
<1>2. ASSUME NEW t \in T PROVE t \in Nat
  <2>1. PICK x \in S : t = n - x BY <1>1
  <2>2. x \in 0..n OBVIOUS
  <2>3. QED BY <2>1, <2>2
<1>3. T # {} BY <1>1
<1>4. Min(T) \in T /\ \A t \in T : Min(T) <= t BY <1>2, <1>3, Least
<1>5. PICK m \in S : Min(T) = n - m BY <1>1, <1>4
<1>6. ASSUME NEW x \in S PROVE x <= m
  <2>1. x \in 0..n /\ m \in 0..n OBVIOUS
  <2>2. n - x \in T BY <1>1
  <2>3. n - m <= n - x BY <1>4, <1>5, <2>2
  <2>4. QED BY <2>1, <2>3
<1>7. \A x \in S : m >= x
  <2>1. ASSUME NEW x \in S PROVE m >= x
    <3>1. x \in 0..n /\ m \in 0..n OBVIOUS
    <3>2. QED BY <1>6, <3>1
  <2>2. QED BY <2>1
<1>8. Max(S) \in S /\ \A x \in S : Max(S) >= x BY <1>7 DEF Max
<1>9. ASSUME NEW x \in S PROVE x <= Max(S)
  <2>1. x \in 0..n /\ Max(S) \in 0..n BY <1>8
  <2>2. QED BY <1>8, <2>1
<1>10. QED BY <1>8, <1>9

\* A place in a set of numbers counts those up to it.
LEMMA Places ==
  ASSUME NEW n \in Nat, NEW S, S \subseteq 0..n, NEW k \in S, NEW l \in S, k <= l
  PROVE  Place(k, S) \in Nat /\ Place(l, S) \in Nat /\ Place(k, S) <= Place(l, S)
<1>1. PICK K, L : K = {m \in S : m <= k} /\ L = {m \in S : m <= l} OBVIOUS
<1>2. IsFiniteSet(0..n) BY FS_Interval
<1>3. ASSUME NEW m \in S, m <= k PROVE m <= l
  <2>1. m \in Nat /\ k \in Nat /\ l \in Nat OBVIOUS
  <2>2. QED BY <1>3, <2>1
<1>4. K \subseteq L BY <1>1, <1>3
<1>5. IsFiniteSet(L) BY <1>1, <1>2, FS_Subset
<1>6. IsFiniteSet(K) /\ Cardinality(K) <= Cardinality(L) BY <1>4, <1>5, FS_Subset
<1>7. Cardinality(K) \in Nat /\ Cardinality(L) \in Nat BY <1>5, <1>6, FS_CardinalityType
<1>8. QED BY <1>1, <1>6, <1>7 DEF Place

\* A part of the log is counted.
LEMMA Counted ==
  ASSUME NEW n \in Nat, NEW S, S \subseteq 1..n
  PROVE  Cardinality(S) \in Nat
<1>1. IsFiniteSet(1..n) BY FS_Interval
<1>2. IsFiniteSet(S) BY <1>1, FS_Subset
<1>3. QED BY <1>2, FS_CardinalityType

\* What is received is added to what a connection got, if it is open.
LEMMA ReceivedFields ==
  ASSUME NEW r \in ConnRecord, NEW ks, NEW q, q = Received(r, ks)
  PROVE  /\ q.ws = r.ws /\ q.pc = r.pc /\ q.attached = r.attached /\ q.wide = r.wide
         /\ q.stream = r.stream /\ q.history = r.history /\ q.seen = r.seen
         /\ q.got = IF r.ws THEN r.got \cup ks ELSE r.got
         /\ ks \subseteq 1..(MaxEvents + MaxChunks) => q \in ConnRecord
<1>1. q = [r EXCEPT !.got = IF r.ws THEN @ \cup ks ELSE @] BY DEF Received
<1>2. QED BY <1>1 DEF ConnRecord

LEMMA ReceivedGrows ==
  ASSUME NEW r \in ConnRecord, NEW ks \in SUBSET (1..(MaxEvents + MaxChunks)),
         NEW q, q = Received(r, ks)
  PROVE  /\ q \in ConnRecord
         /\ q.ws = r.ws /\ q.pc = r.pc /\ q.attached = r.attached /\ q.wide = r.wide
         /\ q.stream = r.stream /\ q.history = r.history /\ q.seen = r.seen
         /\ r.got \subseteq q.got
<1>1. PICK g : g = IF r.ws THEN r.got \cup ks ELSE r.got OBVIOUS
<1>2. q = [r EXCEPT !.got = g] BY <1>1 DEF Received
<1>3. g \in SUBSET (1..(MaxEvents + MaxChunks)) /\ r.got \subseteq g BY <1>1 DEF ConnRecord
<1>4. /\ q.ws = r.ws /\ q.pc = r.pc /\ q.attached = r.attached /\ q.wide = r.wide
      /\ q.stream = r.stream /\ q.history = r.history /\ q.seen = r.seen /\ q.got = g
  BY <1>2 DEF ConnRecord
<1>5. q \in ConnRecord BY <1>2, <1>3 DEF ConnRecord
<1>6. QED BY <1>3, <1>4, <1>5

\* With chunks of output, the last sequence it saw moves on.
Saw(r, ks, q) ==
  /\ q \in ConnRecord
  /\ q.ws = r.ws /\ q.pc = r.pc /\ q.attached = r.attached /\ q.wide = r.wide
  /\ q.stream = r.stream /\ q.history = r.history
  /\ q.got = IF r.ws THEN r.got \cup ks ELSE r.got
  /\ r.seen <= q.seen /\ (r.ws => \A k \in ks : chunks[k] <= q.seen)
  /\ q.seen = r.seen \/ \E k \in ks : q.seen = chunks[k]
  /\ r.ws \/ q.seen = r.seen

LEMMA SeesFields ==
  ASSUME TypeOK, NEW r \in ConnRecord, NEW ks, ks \subseteq DOMAIN chunks, NEW q, q = Sees(r, ks)
  PROVE  Saw(r, ks, q)
<1>1. PICK p : p = Received(r, ks) OBVIOUS
<1>2. /\ chunks \in Seq(1..MaxChunks) /\ MaxChunks \in Nat /\ MaxEvents \in Nat
      /\ Len(chunks) <= MaxChunks
  BY RealtimeAssumption DEF TypeOK
<1>3. DOMAIN chunks \subseteq 1..(MaxEvents + MaxChunks) /\ \A k \in DOMAIN chunks : chunks[k] \in 1..MaxChunks
  BY <1>2
<1>4. /\ p \in ConnRecord
      /\ p.ws = r.ws /\ p.pc = r.pc /\ p.attached = r.attached /\ p.wide = r.wide
      /\ p.stream = r.stream /\ p.history = r.history /\ p.seen = r.seen
      /\ p.got = IF r.ws THEN r.got \cup ks ELSE r.got
  <2>1. ks \in SUBSET (1..(MaxEvents + MaxChunks)) BY <1>3
  <2>2. /\ p \in ConnRecord
        /\ p.ws = r.ws /\ p.pc = r.pc /\ p.attached = r.attached /\ p.wide = r.wide
        /\ p.stream = r.stream /\ p.history = r.history /\ p.seen = r.seen
    BY <1>1, <2>1, ReceivedGrows
  <2>3. p.got = IF r.ws THEN r.got \cup ks ELSE r.got
    <3>1. PICK g : g = IF r.ws THEN r.got \cup ks ELSE r.got OBVIOUS
    <3>2. p = [r EXCEPT !.got = g] BY <1>1, <3>1 DEF Received
    <3>3. p.got = g BY <3>2 DEF ConnRecord
    <3>4. QED BY <3>1, <3>3
  <2>4. QED BY <2>2, <2>3
<1>5. PICK S : S = {r.seen} \cup {chunks[k] : k \in ks} OBVIOUS
<1>6. S \subseteq 0..MaxChunks /\ S # {} BY <1>2, <1>3, <1>5 DEF ConnRecord
<1>7. Max(S) \in S /\ \A x \in S : x <= Max(S) BY <1>2, <1>6, Greatest
<1>8. q = [p EXCEPT !.seen = IF r.ws THEN Max(S) ELSE @] BY <1>1, <1>4, <1>5 DEF Sees
<1>9. CASE r.ws
  <2>1. q = [p EXCEPT !.seen = Max(S)] BY <1>8, <1>9
  <2>2. Max(S) \in 0..MaxChunks BY <1>6, <1>7
  <2>3. /\ q \in ConnRecord /\ q.seen = Max(S) /\ q.ws = p.ws /\ q.pc = p.pc
        /\ q.attached = p.attached /\ q.wide = p.wide /\ q.stream = p.stream
        /\ q.history = p.history /\ q.got = p.got
    BY <1>4, <2>1, <2>2 DEF ConnRecord
  <2>4. r.seen <= q.seen /\ \A k \in ks : chunks[k] <= q.seen BY <1>5, <1>7, <2>3
  <2>5. q.seen = r.seen \/ \E k \in ks : q.seen = chunks[k] BY <1>5, <1>7, <2>3
  <2>6. QED BY <1>4, <1>9, <2>3, <2>4, <2>5 DEF Saw
<1>10. CASE ~r.ws
  <2>1. q = p BY <1>8, <1>10, <1>4 DEF ConnRecord
  <2>2. r.seen \in Nat BY <1>2 DEF ConnRecord
  <2>3. QED BY <1>4, <1>10, <2>1, <2>2 DEF Saw
<1>11. QED BY <1>9, <1>10

-----------------------------------------------------------------------------
(* Types *)

\* Sequence numbers of a stdio transport start again from a saved one, so that
\* a chunk's number is at most its place.
TypeInv ==
  /\ TypeOK
  /\ cursor \in 0..Len(chunks) /\ saved \in 0..Len(chunks)
  /\ \A k \in DOMAIN chunks : chunks[k] \in 1..k
  /\ \A i \in 1..MaxStreams : stream[i].read <= Len(chunks) /\ stream[i].todo \subseteq DOMAIN chunks

Others(c) == \A d \in Client : d # c => conn'[d] = conn[d] /\ sub'[d] = sub[d]

\* A page is part of the log.
LEMMA PageOf ==
  ASSUME TypeOK, NEW r, NEW from
  PROVE  /\ Page(r, from) \subseteq DOMAIN log /\ Page(r, from) \subseteq 1..MaxEvents
         /\ Cardinality(Page(r, from)) \in Nat
<1>1. log \in Seq(BOOLEAN) /\ Len(log) <= MaxEvents /\ MaxEvents \in Nat
  BY RealtimeAssumption DEF TypeOK
<1>2. DOMAIN log \subseteq 1..MaxEvents BY <1>1
<1>3. Page(r, from) \subseteq DOMAIN log BY DEF Page, Matching
<1>4. QED BY <1>1, <1>2, <1>3, Counted

\* What a connection starts from.
LEMMA NoConnFields ==
  /\ NoConn \in ConnRecord /\ NoConn.stream = 0 /\ ~NoConn.attached /\ NoConn.pc = "idle"
  /\ NoSub \in SubRecord /\ ~NoSub.on /\ ~NoSub.fetching /\ NoSub.page = {}
<1>1. MaxStreams \in Nat /\ MaxEvents \in Nat /\ MaxChunks \in Nat BY RealtimeAssumption
<1>2. 0 \in 0..MaxStreams /\ 0 \in 0..MaxChunks /\ 0 \in 0..MaxEvents BY <1>1
<1>3. QED BY <1>2 DEF NoConn, ConnRecord, NoSub, SubRecord

\* Connecting starts from nothing, but for what a client of a session has.
LEMMA ConnectEffect ==
  ASSUME TypeOK, NEW c \in Client, Connect(c)
  PROVE  /\ conn' \in [Client -> ConnRecord] /\ sub' \in [Client -> SubRecord] /\ Others(c)
         /\ conn'[c].ws /\ conn'[c].pc = "idle" /\ ~conn'[c].attached /\ conn'[c].stream = 0
         /\ conn'[c].seen = conn[c].seen /\ (Session => conn'[c].got = conn[c].got)
         /\ ~sub'[c].on /\ ~sub'[c].fetching /\ sub'[c].page = {}
<1>1. conn[c] \in ConnRecord /\ conn \in [Client -> ConnRecord] /\ sub \in [Client -> SubRecord]
  BY DEF TypeOK
<1>2. MaxStreams \in Nat /\ MaxEvents \in Nat /\ MaxChunks \in Nat BY RealtimeAssumption
<1>3. PICK wide \in BOOLEAN :
        conn' = [conn EXCEPT ![c] = [NoConn EXCEPT !.ws = TRUE, !.wide = wide,
                   !.got = IF Session THEN conn[c].got ELSE {}, !.seen = conn[c].seen]]
  BY DEF Connect
<1>4. PICK q : q = [NoConn EXCEPT !.ws = TRUE, !.wide = wide,
                      !.got = IF Session THEN conn[c].got ELSE {}, !.seen = conn[c].seen]
  OBVIOUS
<1>5. /\ q \in ConnRecord /\ q.ws /\ q.pc = "idle" /\ ~q.attached /\ q.stream = 0
      /\ q.seen = conn[c].seen /\ (Session => q.got = conn[c].got)
  <2>1. PICK g : g = IF Session THEN conn[c].got ELSE {} OBVIOUS
  <2>2. g \in SUBSET (1..(MaxEvents + MaxChunks)) /\ conn[c].seen \in 0..MaxChunks
    BY <1>1, <2>1 DEF ConnRecord
  <2>3. q = [NoConn EXCEPT !.ws = TRUE, !.wide = wide, !.got = g, !.seen = conn[c].seen]
    BY <1>4, <2>1
  <2>4. /\ q \in ConnRecord /\ q.ws /\ q.pc = NoConn.pc /\ q.attached = NoConn.attached
        /\ q.stream = NoConn.stream /\ q.seen = conn[c].seen /\ q.got = g
    BY <2>2, <2>3, NoConnFields DEF ConnRecord
  <2>5. QED BY <2>1, <2>4, NoConnFields
<1>6. conn' = [conn EXCEPT ![c] = q] BY <1>3, <1>4
<1>7. sub' = [sub EXCEPT ![c] = NoSub] BY DEF Connect
<1>8. QED BY <1>1, <1>5, <1>6, <1>7, NoConnFields DEF Others

LEMMA RequestEffect ==
  ASSUME TypeOK, NEW c \in Client, NEW wide \in BOOLEAN, NEW offset \in BOOLEAN,
         Request(c, wide, offset)
  PROVE  /\ conn' \in [Client -> ConnRecord] /\ sub' \in [Client -> SubRecord] /\ Others(c)
         /\ conn'[c].ws /\ conn'[c].pc = "requested" /\ ~conn'[c].attached /\ conn'[c].stream = 0
         /\ ~sub'[c].on
<1>1. conn \in [Client -> ConnRecord] /\ sub \in [Client -> SubRecord] BY DEF TypeOK
<1>2. /\ MaxStreams \in Nat /\ MaxEvents \in Nat /\ MaxChunks \in Nat
      /\ log \in Seq(BOOLEAN) /\ Len(log) <= MaxEvents
  BY RealtimeAssumption DEF TypeOK
<1>3. PICK new : new = [NoConn EXCEPT !.ws = TRUE, !.wide = wide, !.pc = "requested"] OBVIOUS
<1>4. PICK from \in 0..Len(log) :
        /\ conn' = [conn EXCEPT ![c] = [new EXCEPT !.history = Page(new, from)]]
        /\ sub' = [sub EXCEPT ![c] = [NoSub EXCEPT !.from = from,
                     !.next = IF offset THEN from + Cardinality(Page(new, from)) ELSE 0]]
  BY <1>3 DEF Request
<1>5. PICK page : page = Page(new, from) OBVIOUS
<1>6. page \subseteq 1..MaxEvents /\ Cardinality(page) \in Nat BY <1>5, PageOf
<1>7. PICK q : q = [new EXCEPT !.history = page] OBVIOUS
<1>8. q \in ConnRecord /\ q.ws /\ q.pc = "requested" /\ ~q.attached /\ q.stream = 0
  <2>1. /\ new \in ConnRecord /\ new.ws /\ new.pc = "requested"
        /\ new.attached = NoConn.attached /\ new.stream = NoConn.stream
    BY <1>3, NoConnFields DEF ConnRecord
  <2>2. /\ q \in ConnRecord /\ q.ws = new.ws /\ q.pc = new.pc /\ q.attached = new.attached
        /\ q.stream = new.stream
    BY <1>6, <1>7, <2>1 DEF ConnRecord
  <2>3. QED BY <2>1, <2>2, NoConnFields
<1>9. PICK n : n = IF offset THEN from + Cardinality(page) ELSE 0 OBVIOUS
<1>10. n \in Nat /\ from \in 0..MaxEvents BY <1>2, <1>6, <1>9
<1>11. PICK s : s = [NoSub EXCEPT !.from = from, !.next = n] OBVIOUS
<1>12. s \in SubRecord /\ ~s.on BY <1>10, <1>11 DEF NoSub, SubRecord
<1>13. conn' = [conn EXCEPT ![c] = q] /\ sub' = [sub EXCEPT ![c] = s]
  BY <1>4, <1>5, <1>7, <1>9, <1>11
<1>14. QED BY <1>1, <1>8, <1>12, <1>13 DEF Others

\* The other steps of a connection to events, but for its abort.
Observing(c) == SubscribeEvents(c) \/ Subscribed(c) \/ StreamOpened(c) \/ WriteEvent(c)

LEMMA EventsEffect ==
  ASSUME TypeOK, NEW c \in Client, Observing(c) \/ Poll(c) \/ Polled(c)
  PROVE  /\ conn' \in [Client -> ConnRecord] /\ sub' \in [Client -> SubRecord] /\ Others(c)
         /\ conn'[c].ws = conn[c].ws /\ conn'[c].attached = conn[c].attached
         /\ conn'[c].stream = conn[c].stream /\ conn'[c].seen = conn[c].seen
         /\ conn[c].got \subseteq conn'[c].got
         /\ conn'[c].pc # conn[c].pc => conn'[c].pc \in {"idle", "subscribing", "writing"}
         /\ conn'[c].pc # conn[c].pc \/ sub'[c].on # sub[c].on
              => Observing(c) /\ (conn[c].ws \/ conn[c].pc # "idle")
         /\ UNCHANGED <<scope, events, output>>
<1>0. /\ conn \in [Client -> ConnRecord] /\ sub \in [Client -> SubRecord]
      /\ conn[c] \in ConnRecord /\ sub[c] \in SubRecord
  BY DEF TypeOK
<1>1. /\ MaxStreams \in Nat /\ MaxEvents \in Nat /\ MaxChunks \in Nat
      /\ log \in Seq(BOOLEAN) /\ Len(log) <= MaxEvents
  BY RealtimeAssumption DEF TypeOK
<1>2. 1..MaxEvents \subseteq 1..(MaxEvents + MaxChunks) BY <1>1
<1>3. CASE SubscribeEvents(c)
  <2>1. PICK from \in 0..Len(log) :
          /\ sub' = [sub EXCEPT ![c] = [NoSub EXCEPT !.from = from]]
          /\ conn' = [conn EXCEPT ![c].pc = "subscribing", ![c].history = Page(conn[c], from)]
    BY <1>3 DEF SubscribeEvents
  <2>2. PICK page : page = Page(conn[c], from) OBVIOUS
  <2>3. page \subseteq 1..MaxEvents BY <2>2, PageOf
  <2>4. from \in 0..MaxEvents BY <1>1
  <2>5. PICK s : s = [NoSub EXCEPT !.from = from] OBVIOUS
  <2>6. s \in SubRecord BY <2>4, <2>5 DEF NoSub, SubRecord
  <2>7. conn' = [conn EXCEPT ![c].pc = "subscribing", ![c].history = page] BY <2>1, <2>2
  <2>8. conn' \in [Client -> ConnRecord] BY <1>0, <2>3, <2>7 DEF ConnRecord
  <2>9. sub' = [sub EXCEPT ![c] = s] /\ s.on = NoSub.on BY <2>1, <2>5 DEF NoSub
  <2>10. /\ conn[c].ws /\ ~sub[c].on /\ UNCHANGED <<scope, events, output>>
    BY <1>3 DEF SubscribeEvents, Idle
  <2>11. /\ sub' \in [Client -> SubRecord] /\ sub'[c].on = sub[c].on
         /\ \A d \in Client : d # c => sub'[d] = sub[d]
    BY <1>0, <2>6, <2>9, <2>10, NoConnFields DEF SubRecord
  <2>12. /\ \A d \in Client : d # c => conn'[d] = conn[d]
         /\ conn'[c].ws = conn[c].ws /\ conn'[c].attached = conn[c].attached
         /\ conn'[c].stream = conn[c].stream /\ conn'[c].seen = conn[c].seen
         /\ conn'[c].got = conn[c].got /\ conn'[c].pc = "subscribing"
    BY <1>0, <2>7 DEF ConnRecord
  <2>13. QED BY <1>3, <2>8, <2>10, <2>11, <2>12 DEF Observing, Others
<1>4. CASE Subscribed(c)
  <2>1. PICK r : r = Received(conn[c], conn[c].history) OBVIOUS
  <2>2. conn[c].history \in SUBSET (1..(MaxEvents + MaxChunks)) BY <1>0, <1>2 DEF ConnRecord
  <2>3. /\ r \in ConnRecord /\ r.ws = conn[c].ws /\ r.attached = conn[c].attached
        /\ r.stream = conn[c].stream /\ r.seen = conn[c].seen /\ conn[c].got \subseteq r.got
    BY <1>0, <2>1, <2>2, ReceivedGrows
  <2>4. PICK q : q = [r EXCEPT !.pc = "idle", !.history = {}] OBVIOUS
  <2>5. /\ q \in ConnRecord /\ q.ws = conn[c].ws /\ q.attached = conn[c].attached
        /\ q.stream = conn[c].stream /\ q.seen = conn[c].seen /\ conn[c].got \subseteq q.got
        /\ q.pc = "idle"
    BY <2>3, <2>4 DEF ConnRecord
  <2>6. conn' = [conn EXCEPT ![c] = q] BY <1>4, <2>1, <2>4 DEF Subscribed
  <2>7. PICK n : n = NextOffset(c) OBVIOUS
  <2>8. n \in Nat
    <3>1. Cardinality(conn[c].history) \in Nat BY <1>0, <1>1, Counted DEF ConnRecord
    <3>2. sub[c].from \in Nat BY <1>0, <1>1 DEF SubRecord
    <3>3. QED BY <2>7, <3>1, <3>2 DEF NextOffset
  <2>9. sub' = [sub EXCEPT ![c].on = TRUE, ![c].next = n] BY <1>4, <2>7 DEF Subscribed
  <2>10. sub' \in [Client -> SubRecord] /\ \A d \in Client : d # c => sub'[d] = sub[d]
    BY <1>0, <2>8, <2>9 DEF SubRecord
  <2>11. QED BY <1>0, <1>4, <2>5, <2>6, <2>10 DEF Subscribed, Observing, Others
<1>5. CASE StreamOpened(c)
  <2>1. /\ sub' = [sub EXCEPT ![c].on = TRUE] /\ conn' = [conn EXCEPT ![c].pc = "writing"]
        /\ conn[c].pc = "requested" /\ UNCHANGED <<scope, events, output>>
    BY <1>5 DEF StreamOpened
  <2>2. sub' \in [Client -> SubRecord] /\ conn' \in [Client -> ConnRecord]
    BY <1>0, <2>1 DEF SubRecord, ConnRecord
  <2>3. \A d \in Client : d # c => conn'[d] = conn[d] /\ sub'[d] = sub[d]
    BY <1>0, <2>1
  <2>4. /\ conn'[c].ws = conn[c].ws /\ conn'[c].attached = conn[c].attached
        /\ conn'[c].stream = conn[c].stream /\ conn'[c].seen = conn[c].seen
        /\ conn'[c].got = conn[c].got /\ conn'[c].pc = "writing"
    BY <1>0, <2>1 DEF ConnRecord
  <2>5. QED BY <1>5, <2>1, <2>2, <2>3, <2>4 DEF Observing, Others
<1>6. CASE WriteEvent(c)
  <2>1. PICK k : k = Min(conn[c].history) OBVIOUS
  <2>2. conn[c].history # {} /\ conn[c].history \subseteq 1..MaxEvents
    BY <1>0, <1>6 DEF WriteEvent, ConnRecord
  <2>3. k \in conn[c].history BY <1>1, <2>1, <2>2, Least
  <2>4. PICK r : r = Received(conn[c], {k}) OBVIOUS
  <2>5. /\ r \in ConnRecord /\ r.ws = conn[c].ws /\ r.attached = conn[c].attached
        /\ r.stream = conn[c].stream /\ r.seen = conn[c].seen /\ conn[c].got \subseteq r.got
        /\ r.history = conn[c].history /\ r.pc = conn[c].pc
    <3>1. {k} \in SUBSET (1..(MaxEvents + MaxChunks)) BY <1>2, <2>2, <2>3
    <3>2. QED BY <1>0, <2>4, <3>1, ReceivedGrows
  <2>6. PICK q : q = [r EXCEPT !.history = conn[c].history \ {k}] OBVIOUS
  <2>7. /\ q \in ConnRecord /\ q.ws = conn[c].ws /\ q.attached = conn[c].attached
        /\ q.stream = conn[c].stream /\ q.seen = conn[c].seen /\ conn[c].got \subseteq q.got
        /\ q.pc = conn[c].pc
    BY <2>5, <2>6 DEF ConnRecord
  <2>8. conn' = [conn EXCEPT ![c] = q] /\ sub' = sub /\ UNCHANGED <<scope, events, output>>
    <3>1. /\ conn' = [conn EXCEPT ![c] = [Received(conn[c], {Min(conn[c].history)}) EXCEPT
                                            !.history = conn[c].history \ {Min(conn[c].history)}]]
          /\ UNCHANGED <<scope, events, output, sub>>
      BY <1>0, <1>6 DEF WriteEvent
    <3>2. conn' = [conn EXCEPT ![c] = [r EXCEPT !.history = conn[c].history \ {k}]]
      BY <2>1, <2>4, <3>1
    <3>3. QED BY <2>6, <3>1, <3>2
  <2>9. QED BY <1>0, <2>7, <2>8 DEF Others
<1>7. CASE Poll(c)
  <2>1. PICK page : page = Page(conn[c], sub[c].next) OBVIOUS
  <2>2. page \subseteq 1..MaxEvents BY <2>1, PageOf
  <2>3. /\ sub' = [sub EXCEPT ![c].fetching = TRUE, ![c].page = page]
        /\ conn' = conn /\ UNCHANGED <<scope, events, output>>
    BY <1>7, <2>1 DEF Poll
  <2>4. /\ sub' \in [Client -> SubRecord] /\ sub'[c].on = sub[c].on
        /\ \A d \in Client : d # c => sub'[d] = sub[d]
    BY <1>0, <2>2, <2>3 DEF SubRecord
  <2>5. QED BY <1>0, <2>3, <2>4 DEF Others
<1>8. CASE Polled(c)
  <2>1. PICK r : r = Received(conn[c], sub[c].page) OBVIOUS
  <2>2. sub[c].page \in SUBSET (1..(MaxEvents + MaxChunks)) BY <1>0, <1>2 DEF SubRecord
  <2>3. /\ r \in ConnRecord /\ r.ws = conn[c].ws /\ r.attached = conn[c].attached
        /\ r.stream = conn[c].stream /\ r.seen = conn[c].seen /\ conn[c].got \subseteq r.got
        /\ r.pc = conn[c].pc
    BY <1>0, <2>1, <2>2, ReceivedGrows
  <2>4. PICK n : n = sub[c].next + Cardinality(sub[c].page) OBVIOUS
  <2>5. n \in Nat
    <3>1. Cardinality(sub[c].page) \in Nat BY <1>0, <1>1, Counted DEF SubRecord
    <3>2. sub[c].next \in Nat BY <1>0 DEF SubRecord
    <3>3. QED BY <2>4, <3>1, <3>2
  <2>6. sub' = [sub EXCEPT ![c].fetching = FALSE, ![c].page = {}, ![c].next = n]
    BY <1>8, <2>4 DEF Polled
  <2>7. /\ sub' \in [Client -> SubRecord] /\ sub'[c].on = sub[c].on
        /\ \A d \in Client : d # c => sub'[d] = sub[d]
    BY <1>0, <2>5, <2>6 DEF SubRecord
  <2>8. conn' = [conn EXCEPT ![c] = r] /\ UNCHANGED <<scope, events, output>>
    BY <1>0, <1>8, <2>1 DEF Polled
  <2>9. QED BY <1>0, <2>3, <2>7, <2>8 DEF Others
<1>9. QED BY <1>3, <1>4, <1>5, <1>6, <1>7, <1>8 DEF Observing

LEMMA AbortEffect ==
  ASSUME TypeOK, NEW c \in Client, Abort(c)
  PROVE  /\ conn' \in [Client -> ConnRecord] /\ sub' \in [Client -> SubRecord] /\ Others(c)
         /\ conn[c].pc = "writing" /\ ~conn'[c].ws /\ conn'[c].pc = "idle" /\ ~sub'[c].on
         /\ conn'[c].attached = conn[c].attached /\ conn'[c].stream = conn[c].stream
         /\ UNCHANGED <<scope, events, output>>
<1>1. /\ conn \in [Client -> ConnRecord] /\ sub \in [Client -> SubRecord]
      /\ conn[c] \in ConnRecord /\ sub[c] \in SubRecord
  BY DEF TypeOK
<1>2. /\ sub' = [sub EXCEPT ![c].on = FALSE]
      /\ conn' = [conn EXCEPT ![c].ws = FALSE, ![c].pc = "idle", ![c].history = {}]
      /\ conn[c].pc = "writing" /\ UNCHANGED <<scope, events, output>>
  BY DEF Abort
<1>3. sub' \in [Client -> SubRecord] /\ conn' \in [Client -> ConnRecord]
  BY <1>1, <1>2 DEF SubRecord, ConnRecord
<1>4. QED BY <1>1, <1>2, <1>3 DEF Others, SubRecord, ConnRecord

\* An event reaches the connections that are subscribed.
LEMMA EmitEffect ==
  ASSUME TypeOK, NEW k \in unsent, Emit(k)
  PROVE  /\ conn' \in [Client -> ConnRecord]
         /\ \A c \in Client : /\ conn'[c].ws = conn[c].ws /\ conn'[c].attached = conn[c].attached
                              /\ conn'[c].stream = conn[c].stream /\ conn'[c].pc = conn[c].pc
                              /\ conn'[c].seen = conn[c].seen /\ conn[c].got \subseteq conn'[c].got
         /\ UNCHANGED <<scope, log, output, sub>> /\ unsent' \subseteq unsent
<1>1. /\ conn' = [c \in Client |-> IF sub[c].on /\ Matches(conn[c], k) THEN Received(conn[c], {k})
                                   ELSE conn[c]]
      /\ UNCHANGED <<scope, log, output, sub>> /\ unsent' \subseteq unsent
  BY DEF Emit
<1>2. {k} \in SUBSET (1..(MaxEvents + MaxChunks))
  <2>1. /\ log \in Seq(BOOLEAN) /\ Len(log) <= MaxEvents /\ MaxEvents \in Nat /\ MaxChunks \in Nat
        /\ k \in DOMAIN log
    BY RealtimeAssumption DEF TypeOK
  <2>2. k \in 1..Len(log) BY <2>1
  <2>3. QED BY <2>1, <2>2
<1>3. ASSUME NEW c \in Client
      PROVE  /\ conn'[c] \in ConnRecord
             /\ conn'[c].ws = conn[c].ws /\ conn'[c].attached = conn[c].attached
             /\ conn'[c].stream = conn[c].stream /\ conn'[c].pc = conn[c].pc
             /\ conn'[c].seen = conn[c].seen /\ conn[c].got \subseteq conn'[c].got
  <2>1. conn[c] \in ConnRecord BY DEF TypeOK
  <2>2. conn'[c] = Received(conn[c], {k}) \/ conn'[c] = conn[c] BY <1>1
  <2>3. CASE conn'[c] = Received(conn[c], {k}) BY <1>2, <2>1, <2>3, ReceivedGrows
  <2>4. QED BY <2>1, <2>2, <2>3
<1>4. conn' \in [Client -> ConnRecord] BY <1>1, <1>3
<1>5. QED BY <1>1, <1>3, <1>4

-----------------------------------------------------------------------------
(* The output of a session: what each step changes of connections and streams *)

\* A subscription that is let go.
LEMMA ShutFields ==
  ASSUME TypeOK, NEW c \in Client, NEW s, s = Shut(c)
  PROVE  /\ s \in [1..MaxStreams -> StreamRecord]
         /\ \A i \in 1..MaxStreams :
              /\ s[i].conn = stream[i].conn /\ s[i].live = stream[i].live
              /\ s[i].after = stream[i].after /\ s[i].read = stream[i].read
              /\ s[i].todo = stream[i].todo
              /\ s[i].state = IF conn[c].stream = i THEN "closed" ELSE stream[i].state
<1>1. /\ stream \in [1..MaxStreams -> StreamRecord] /\ conn[c].stream \in 0..MaxStreams
      /\ MaxStreams \in Nat
  BY RealtimeAssumption DEF TypeOK, ConnRecord
<1>2. CASE conn[c].stream = 0 BY <1>1, <1>2 DEF Shut
<1>3. CASE conn[c].stream # 0
  <2>1. PICK h : h = conn[c].stream OBVIOUS
  <2>2. h \in 1..MaxStreams BY <1>1, <1>3, <2>1
  <2>3. s = [stream EXCEPT ![h].state = "closed"] BY <1>3, <2>1 DEF Shut
  <2>4. PICK q : q = [stream[h] EXCEPT !.state = "closed"] OBVIOUS
  <2>5. /\ q \in StreamRecord /\ q.state = "closed" /\ q.conn = stream[h].conn
        /\ q.live = stream[h].live /\ q.after = stream[h].after /\ q.read = stream[h].read
        /\ q.todo = stream[h].todo
    BY <1>1, <2>2, <2>4 DEF StreamRecord
  <2>6. s = [stream EXCEPT ![h] = q] BY <1>1, <2>2, <2>3, <2>4
  <2>7. s \in [1..MaxStreams -> StreamRecord] BY <1>1, <2>2, <2>5, <2>6
  <2>8. s[h] = q /\ \A i \in 1..MaxStreams : i # h => s[i] = stream[i] BY <1>1, <2>2, <2>6
  <2>9. QED BY <2>1, <2>5, <2>7, <2>8
<1>4. QED BY <1>2, <1>3

LEMMA CloseEffect ==
  ASSUME TypeOK, NEW c \in Client, Close(c)
  PROVE  /\ conn' \in [Client -> ConnRecord] /\ sub' \in [Client -> SubRecord] /\ Others(c)
         /\ conn[c].ws /\ (Hasty \/ conn[c].pc = "idle") /\ conn'[c].pc = conn[c].pc
         /\ ~conn'[c].ws /\ ~conn'[c].attached /\ conn'[c].stream = 0
         /\ conn'[c].seen = conn[c].seen /\ conn'[c].got = conn[c].got
         /\ ~sub'[c].on /\ sub'[c].page = sub[c].page
         /\ stream' \in [1..MaxStreams -> StreamRecord]
         /\ \A i \in 1..MaxStreams :
              /\ stream'[i].conn = stream[i].conn /\ stream'[i].after = stream[i].after
              /\ stream'[i].read = stream[i].read /\ stream'[i].todo = stream[i].todo
              /\ stream'[i].live = (stream[i].live /\ stream[i].conn # c)
              /\ stream'[i].state = IF stream[i].conn = c /\ conn[c].stream = i THEN "closed"
                                    ELSE stream[i].state
         /\ UNCHANGED <<scope, events, chunks, ended, cursor, transcript, inputs>>
<1>1. /\ conn \in [Client -> ConnRecord] /\ sub \in [Client -> SubRecord]
      /\ stream \in [1..MaxStreams -> StreamRecord] /\ conn[c] \in ConnRecord
  BY DEF TypeOK
<1>2. /\ conn[c].ws /\ (Hasty \/ conn[c].pc = "idle")
      /\ stream' = [i \in DOMAIN stream |->
                     IF stream[i].conn = c THEN [Shut(c)[i] EXCEPT !.live = FALSE] ELSE stream[i]]
      /\ sub' = [sub EXCEPT ![c].on = FALSE]
      /\ conn' = [conn EXCEPT ![c].ws = FALSE, ![c].attached = FALSE, ![c].stream = 0]
      /\ UNCHANGED <<scope, events, chunks, ended, cursor, transcript, inputs>>
  BY DEF Close
<1>3. 0 \in 0..MaxStreams BY RealtimeAssumption
<1>4. /\ conn' \in [Client -> ConnRecord] /\ \A d \in Client : d # c => conn'[d] = conn[d]
      /\ ~conn'[c].ws /\ ~conn'[c].attached /\ conn'[c].stream = 0 /\ conn'[c].pc = conn[c].pc
      /\ conn'[c].seen = conn[c].seen /\ conn'[c].got = conn[c].got
  <2>1. PICK q : q = [conn[c] EXCEPT !.ws = FALSE, !.attached = FALSE, !.stream = 0] OBVIOUS
  <2>2. /\ q \in ConnRecord /\ ~q.ws /\ ~q.attached /\ q.stream = 0 /\ q.pc = conn[c].pc
        /\ q.seen = conn[c].seen /\ q.got = conn[c].got
    BY <1>1, <1>3, <2>1 DEF ConnRecord
  <2>3. conn' = [conn EXCEPT ![c] = q] BY <1>1, <1>2, <2>1
  <2>4. QED BY <1>1, <2>2, <2>3
<1>5. /\ sub' \in [Client -> SubRecord] /\ \A d \in Client : d # c => sub'[d] = sub[d]
      /\ ~sub'[c].on /\ sub'[c].page = sub[c].page
  BY <1>1, <1>2 DEF SubRecord
<1>6. ASSUME NEW i \in 1..MaxStreams
      PROVE  /\ stream'[i] \in StreamRecord
             /\ stream'[i].conn = stream[i].conn /\ stream'[i].after = stream[i].after
             /\ stream'[i].read = stream[i].read /\ stream'[i].todo = stream[i].todo
             /\ stream'[i].live = (stream[i].live /\ stream[i].conn # c)
             /\ stream'[i].state = IF stream[i].conn = c /\ conn[c].stream = i THEN "closed"
                                   ELSE stream[i].state
  <2>1. PICK S, s : S = Shut(c) /\ s = S[i] OBVIOUS
  <2>2. /\ s \in StreamRecord /\ s.conn = stream[i].conn /\ s.after = stream[i].after
        /\ s.read = stream[i].read /\ s.todo = stream[i].todo
        /\ s.state = IF conn[c].stream = i THEN "closed" ELSE stream[i].state
    <3>1. /\ S \in [1..MaxStreams -> StreamRecord]
          /\ \A h \in 1..MaxStreams :
               /\ S[h].conn = stream[h].conn /\ S[h].live = stream[h].live
               /\ S[h].after = stream[h].after /\ S[h].read = stream[h].read
               /\ S[h].todo = stream[h].todo
               /\ S[h].state = IF conn[c].stream = h THEN "closed" ELSE stream[h].state
      BY <2>1, ShutFields
    <3>2. QED BY <2>1, <3>1
  <2>3. CASE stream[i].conn = c
    <3>1. stream'[i] = [s EXCEPT !.live = FALSE] BY <1>1, <1>2, <2>1, <2>3
    <3>2. QED BY <2>2, <2>3, <3>1 DEF StreamRecord
  <2>4. CASE stream[i].conn # c
    <3>1. stream'[i] = stream[i] /\ stream[i] \in StreamRecord BY <1>1, <1>2, <2>4
    <3>2. QED BY <2>4, <3>1 DEF StreamRecord
  <2>5. QED BY <2>3, <2>4
<1>7. stream' \in [1..MaxStreams -> StreamRecord] BY <1>1, <1>2, <1>6
<1>8. QED BY <1>2, <1>4, <1>5, <1>6, <1>7 DEF Others

\* resume, detach and cancel let the subscription go.
Quits(c) == Resume(c) \/ Detach(c) \/ Cancel(c)

LEMMA QuitsEffect ==
  ASSUME TypeOK, NEW c \in Client, Quits(c)
  PROVE  /\ conn' \in [Client -> ConnRecord] /\ Others(c)
         /\ conn[c].ws /\ conn[c].pc = "idle" /\ Session
         /\ conn'[c].ws /\ conn'[c].pc = (IF Resume(c) THEN "replay" ELSE "idle")
         /\ conn'[c].stream = 0 /\ conn'[c].seen = conn[c].seen /\ conn'[c].got = conn[c].got
         /\ conn'[c].attached => conn[c].attached
         /\ stream' \in [1..MaxStreams -> StreamRecord]
         /\ \A i \in 1..MaxStreams :
              /\ stream'[i].conn = stream[i].conn /\ stream'[i].after = stream[i].after
              /\ stream'[i].read = stream[i].read /\ stream'[i].todo = stream[i].todo
              /\ stream'[i].live = stream[i].live
              /\ stream'[i].state = IF conn[c].stream = i THEN "closed" ELSE stream[i].state
         /\ UNCHANGED <<scope, events, chunks, ended, cursor, transcript, inputs, sub>>
<1>1. /\ conn \in [Client -> ConnRecord] /\ conn[c] \in ConnRecord /\ 0 \in 0..MaxStreams
  BY RealtimeAssumption DEF TypeOK
<1>2. /\ conn[c].ws /\ conn[c].pc = "idle" /\ Session /\ stream' = Shut(c)
      /\ UNCHANGED <<scope, events, chunks, ended, cursor, transcript, inputs, sub>>
  BY DEF Quits, Resume, Detach, Cancel, Idle
<1>3. /\ conn' \in [Client -> ConnRecord] /\ \A d \in Client : d # c => conn'[d] = conn[d]
      /\ conn'[c].ws /\ conn'[c].pc = (IF Resume(c) THEN "replay" ELSE "idle")
      /\ conn'[c].stream = 0 /\ conn'[c].seen = conn[c].seen /\ conn'[c].got = conn[c].got
      /\ conn'[c].attached => conn[c].attached
  <2>1. CASE Resume(c)
    <3>1. conn' = [conn EXCEPT ![c].pc = "replay", ![c].stream = 0] BY <2>1 DEF Resume
    <3>2. QED BY <1>1, <1>2, <2>1, <3>1 DEF ConnRecord
  <2>2. CASE ~Resume(c) /\ Detach(c)
    <3>1. PICK b \in BOOLEAN : conn' = [conn EXCEPT ![c].attached = b, ![c].stream = 0]
                               /\ (b => conn[c].attached)
      <4>0. PICK n : n = IF session.open THEN 1 ELSE 0 OBVIOUS
      <4>1. conn' = [conn EXCEPT ![c].attached = @ /\ n = 0, ![c].stream = 0]
        BY <2>2, <4>0 DEF Detach
      <4>2. PICK b : b = (conn[c].attached /\ n = 0) OBVIOUS
      <4>3. b \in BOOLEAN /\ (b => conn[c].attached) BY <4>2
      <4>4. conn' = [conn EXCEPT ![c].attached = b, ![c].stream = 0] BY <1>1, <4>1, <4>2
      <4>5. QED BY <4>3, <4>4
    <3>2. QED BY <1>1, <1>2, <2>2, <3>1 DEF ConnRecord
  <2>3. CASE ~Resume(c) /\ Cancel(c)
    <3>1. conn' = [conn EXCEPT ![c].attached = FALSE, ![c].stream = 0] BY <2>3 DEF Cancel
    <3>2. QED BY <1>1, <1>2, <2>3, <3>1 DEF ConnRecord
  <2>4. QED BY <2>1, <2>2, <2>3 DEF Quits
<1>4. QED BY <1>2, <1>3, ShutFields DEF Others

LEMMA AttachEffect ==
  ASSUME TypeOK, NEW c \in Client, Attach(c)
  PROVE  /\ conn' \in [Client -> ConnRecord] /\ sub' \in [Client -> SubRecord] /\ Others(c)
         /\ Session /\ conn[c].ws /\ conn[c].pc = "idle" /\ ~sub[c].on /\ session.open
         /\ conn'[c].ws /\ conn'[c].attached /\ conn'[c].pc = "replay"
         /\ conn'[c].stream = conn[c].stream /\ conn'[c].seen = conn[c].seen
         /\ conn'[c].got = conn[c].got /\ sub'[c].on /\ sub'[c].page = sub[c].page
         /\ session' = [session EXCEPT !.clients = @ + 1] /\ cursor' = Restored
         /\ UNCHANGED <<scope, events, chunks, ended, saved, transcript, stream, inputs>>
<1>1. /\ conn \in [Client -> ConnRecord] /\ sub \in [Client -> SubRecord]
      /\ conn[c] \in ConnRecord /\ sub[c] \in SubRecord
  BY DEF TypeOK
<1>2. /\ Session /\ conn[c].ws /\ conn[c].pc = "idle" /\ ~sub[c].on /\ session.open
      /\ conn' = [conn EXCEPT ![c].attached = TRUE, ![c].pc = "replay"]
      /\ sub' = [sub EXCEPT ![c].on = TRUE]
      /\ session' = [session EXCEPT !.clients = @ + 1] /\ cursor' = Restored
      /\ UNCHANGED <<scope, events, chunks, ended, saved, transcript, stream, inputs>>
  BY DEF Attach, Idle
<1>3. PICK q : q = [conn[c] EXCEPT !.attached = TRUE, !.pc = "replay"] OBVIOUS
<1>4. /\ q \in ConnRecord /\ q.ws = conn[c].ws /\ q.attached /\ q.pc = "replay"
      /\ q.stream = conn[c].stream /\ q.seen = conn[c].seen /\ q.got = conn[c].got
  BY <1>1, <1>3 DEF ConnRecord
<1>5. conn' = [conn EXCEPT ![c] = q] BY <1>1, <1>2, <1>3
<1>6. /\ sub' \in [Client -> SubRecord] /\ sub'[c].on /\ sub'[c].page = sub[c].page
      /\ \A d \in Client : d # c => sub'[d] = sub[d]
  BY <1>1, <1>2 DEF SubRecord
<1>7. /\ conn' \in [Client -> ConnRecord] /\ (\A d \in Client : d # c => conn'[d] = conn[d])
      /\ conn'[c] = q
  BY <1>1, <1>4, <1>5
<1>8. Others(c) BY <1>6, <1>7 DEF Others
<1>9. QED BY <1>2, <1>4, <1>6, <1>7, <1>8

\* What is replayed is output, and the stream goes on after it.
LEMMA ReplayOf ==
  ASSUME TypeInv, NEW c \in Client
  PROVE  /\ Replayed(c) \subseteq DOMAIN transcript /\ Replay(c) \subseteq DOMAIN chunks
         /\ After(c) \in 0..MaxChunks
         /\ \/ After(c) = conn[c].seen
            \/ \E p \in Replayed(c) : After(c) = chunks[transcript[p]]
<1>1. /\ transcript \in Seq(DOMAIN chunks) /\ chunks \in Seq(1..MaxChunks) /\ MaxChunks \in Nat
      /\ conn[c].seen \in 0..MaxChunks
  BY RealtimeAssumption DEF TypeInv, TypeOK, ConnRecord
<1>2. Replayed(c) \subseteq DOMAIN transcript BY DEF Replayed, Later
<1>3. \A p \in DOMAIN transcript : transcript[p] \in DOMAIN chunks BY <1>1
<1>4. Replay(c) \subseteq DOMAIN chunks BY <1>2, <1>3 DEF Replay
<1>5. CASE Replayed(c) = {} BY <1>1, <1>2, <1>4, <1>5 DEF After
<1>6. CASE Replayed(c) # {}
  <2>1. PICK R : R = Replayed(c) OBVIOUS
  <2>2. Len(transcript) \in Nat /\ R \subseteq 0..Len(transcript) /\ R # {}
    BY <1>1, <1>2, <1>6, <2>1
  <2>3. Max(R) \in R BY <2>2, Greatest
  <2>4. After(c) = chunks[transcript[Max(R)]] BY <1>6, <2>1 DEF After
  <2>5. \A k \in DOMAIN chunks : chunks[k] \in 0..MaxChunks BY <1>1
  <2>6. QED BY <1>2, <1>3, <1>4, <2>1, <2>3, <2>4, <2>5
<1>7. QED BY <1>5, <1>6

LEMMA OpenEffect ==
  ASSUME TypeInv, NEW c \in Client, Open(c)
  PROVE  /\ conn' \in [Client -> ConnRecord] /\ \A d \in Client : d # c => conn'[d] = conn[d]
         /\ conn[c].pc = "replay" /\ conn'[c].ws = conn[c].ws
         /\ conn'[c].pc = IF session.open THEN "opening" ELSE "idle"
         /\ conn'[c].attached = conn[c].attached /\ conn'[c].stream = conn[c].stream
         /\ conn'[c].got = (IF conn[c].ws THEN conn[c].got \cup Replay(c) ELSE conn[c].got)
         /\ conn[c].seen <= conn'[c].seen
         /\ conn[c].ws => \A k \in Replay(c) : chunks[k] <= conn'[c].seen
         /\ conn'[c].seen = conn[c].seen \/ \E k \in Replay(c) : conn'[c].seen = chunks[k]
         /\ conn[c].ws \/ conn'[c].seen = conn[c].seen
         /\ stream' \in [1..MaxStreams -> StreamRecord]
         /\ \/ ~session.open /\ stream' = stream
            \/ /\ session.open
               /\ \E i \in 1..MaxStreams :
                    /\ stream[i].state = "free"
                    /\ \A h \in 1..MaxStreams : h # i => stream'[h] = stream[h]
                    /\ stream'[i].state = "opening" /\ stream'[i].conn = c
                    /\ stream'[i].live = conn[c].ws /\ stream'[i].after = After(c)
                    /\ stream'[i].read = 0 /\ stream'[i].todo = {}
         /\ UNCHANGED <<scope, events, chunks, ended, cursor, saved, transcript, session, inputs, sub>>
<1>1. /\ conn \in [Client -> ConnRecord] /\ conn[c] \in ConnRecord
      /\ stream \in [1..MaxStreams -> StreamRecord] /\ TypeOK
  BY DEF TypeInv, TypeOK
<1>2. /\ conn[c].pc = "replay"
      /\ UNCHANGED <<scope, events, chunks, ended, cursor, saved, transcript, session, inputs, sub>>
  BY DEF Open
<1>3. PICK ks : ks = Replay(c) OBVIOUS
<1>4. PICK r : r = Sees(conn[c], ks) OBVIOUS
<1>5. ks \subseteq DOMAIN chunks /\ After(c) \in 0..MaxChunks BY <1>3, ReplayOf
<1>6. /\ r \in ConnRecord /\ r.ws = conn[c].ws /\ r.attached = conn[c].attached
      /\ r.stream = conn[c].stream
      /\ r.got = IF conn[c].ws THEN conn[c].got \cup ks ELSE conn[c].got
      /\ conn[c].seen <= r.seen /\ (conn[c].ws => \A k \in ks : chunks[k] <= r.seen)
      /\ r.seen = conn[c].seen \/ \E k \in ks : r.seen = chunks[k]
      /\ conn[c].ws \/ r.seen = conn[c].seen
  <2>1. Saw(conn[c], ks, r) BY <1>1, <1>4, <1>5, SeesFields
  <2>2. QED BY <2>1 DEF Saw
<1>7. PICK pc : pc = IF session.open THEN "opening" ELSE "idle" OBVIOUS
<1>8. PICK q : q = [r EXCEPT !.pc = pc] OBVIOUS
<1>9. /\ q \in ConnRecord /\ q.ws = r.ws /\ q.attached = r.attached /\ q.stream = r.stream
      /\ q.got = r.got /\ q.seen = r.seen /\ q.pc = pc
  BY <1>6, <1>7, <1>8 DEF ConnRecord
<1>10. conn' = [conn EXCEPT ![c] = q]
  <2>1. CASE session.open
    <3>1. conn' = [conn EXCEPT ![c] = [Sees(conn[c], Replay(c)) EXCEPT !.pc = "opening"]]
      BY <1>1, <2>1 DEF Open
    <3>2. QED BY <1>3, <1>4, <1>7, <1>8, <2>1, <3>1
  <2>2. CASE ~session.open
    <3>1. conn' = [conn EXCEPT ![c] = [Sees(conn[c], Replay(c)) EXCEPT !.pc = "idle"]]
      BY <1>1, <2>2 DEF Open
    <3>2. QED BY <1>3, <1>4, <1>7, <1>8, <2>2, <3>1
  <2>3. QED BY <2>1, <2>2
<1>11. /\ conn' \in [Client -> ConnRecord] /\ (\A d \in Client : d # c => conn'[d] = conn[d])
       /\ conn'[c] = q
  BY <1>1, <1>9, <1>10
<1>12. /\ stream' \in [1..MaxStreams -> StreamRecord]
       /\ \/ ~session.open /\ stream' = stream
          \/ /\ session.open
             /\ \E i \in 1..MaxStreams :
                  /\ stream[i].state = "free"
                  /\ \A h \in 1..MaxStreams : h # i => stream'[h] = stream[h]
                  /\ stream'[i].state = "opening" /\ stream'[i].conn = c
                  /\ stream'[i].live = conn[c].ws /\ stream'[i].after = After(c)
                  /\ stream'[i].read = 0 /\ stream'[i].todo = {}
  <2>1. CASE ~session.open BY <1>1, <2>1 DEF Open
  <2>2. CASE session.open
    <3>1. PICK i \in 1..MaxStreams :
            /\ stream[i].state = "free"
            /\ stream' = [stream EXCEPT ![i] = [NoStream EXCEPT !.state = "opening", !.conn = c,
                                                   !.live = conn[c].ws, !.after = After(c)]]
      BY <2>2 DEF Open
    <3>2. PICK s : s = [NoStream EXCEPT !.state = "opening", !.conn = c,
                                        !.live = conn[c].ws, !.after = After(c)]
      OBVIOUS
    <3>3. conn[c].ws \in BOOLEAN /\ 0 \in 0..MaxChunks
      BY <1>1, RealtimeAssumption DEF ConnRecord
    <3>4. /\ s \in StreamRecord /\ s.state = "opening" /\ s.conn = c /\ s.live = conn[c].ws
          /\ s.after = After(c) /\ s.read = 0 /\ s.todo = {}
      BY <1>5, <3>2, <3>3 DEF NoStream, StreamRecord
    <3>5. stream' = [stream EXCEPT ![i] = s] BY <3>1, <3>2
    <3>6. /\ stream' \in [1..MaxStreams -> StreamRecord] /\ stream'[i] = s
          /\ \A h \in 1..MaxStreams : h # i => stream'[h] = stream[h]
      BY <1>1, <3>4, <3>5
    <3>7. QED BY <2>2, <3>1, <3>4, <3>6
  <2>3. QED BY <2>1, <2>2
<1>13. QED BY <1>2, <1>3, <1>6, <1>7, <1>9, <1>11, <1>12

LEMMA OpenedEffect ==
  ASSUME TypeOK, NEW c \in Client, Opened(c)
  PROVE  /\ conn' \in [Client -> ConnRecord] /\ \A d \in Client : d # c => conn'[d] = conn[d]
         /\ conn[c].pc = "opening" /\ conn'[c].pc = "idle" /\ conn'[c].ws = conn[c].ws
         /\ conn'[c].attached = conn[c].attached
         /\ conn'[c].got = conn[c].got /\ conn'[c].seen = conn[c].seen
         /\ stream' \in [1..MaxStreams -> StreamRecord]
         /\ \E i \in 1..MaxStreams :
              /\ stream[i].state = "opening" /\ stream[i].conn = c /\ ReadUp(i)
              /\ conn'[c].stream = i /\ stream'[i] = [stream[i] EXCEPT !.state = "open"]
              /\ \A h \in 1..MaxStreams : h # i => stream'[h] = stream[h]
         /\ UNCHANGED <<scope, events, chunks, ended, cursor, saved, transcript, session, inputs, sub>>
<1>1. /\ conn \in [Client -> ConnRecord] /\ conn[c] \in ConnRecord
      /\ stream \in [1..MaxStreams -> StreamRecord] /\ MaxStreams \in Nat
  BY RealtimeAssumption DEF TypeOK
<1>2. PICK i \in 1..MaxStreams :
        /\ stream[i].state = "opening" /\ stream[i].conn = c /\ ReadUp(i)
        /\ stream' = [stream EXCEPT ![i].state = "open"]
        /\ conn' = [conn EXCEPT ![c].pc = "idle", ![c].stream = i]
  BY DEF Opened
<1>3. PICK q : q = [conn[c] EXCEPT !.pc = "idle", !.stream = i] OBVIOUS
<1>4. /\ q \in ConnRecord /\ q.pc = "idle" /\ q.ws = conn[c].ws /\ q.attached = conn[c].attached
      /\ q.got = conn[c].got /\ q.seen = conn[c].seen /\ q.stream = i
  <2>1. i \in 0..MaxStreams BY <1>1
  <2>2. QED BY <1>1, <1>3, <2>1 DEF ConnRecord
<1>5. conn' = [conn EXCEPT ![c] = q] BY <1>1, <1>2, <1>3
<1>6. /\ stream' \in [1..MaxStreams -> StreamRecord]
      /\ stream'[i] = [stream[i] EXCEPT !.state = "open"]
      /\ \A h \in 1..MaxStreams : h # i => stream'[h] = stream[h]
  BY <1>1, <1>2 DEF StreamRecord
<1>7. /\ conn' \in [Client -> ConnRecord] /\ (\A d \in Client : d # c => conn'[d] = conn[d])
      /\ conn'[c] = q
  BY <1>1, <1>4, <1>5
<1>8. /\ conn[c].pc = "opening"
      /\ UNCHANGED <<scope, events, chunks, ended, cursor, saved, transcript, session, inputs, sub>>
  BY DEF Opened
<1>9. \E h \in 1..MaxStreams :
        /\ stream[h].state = "opening" /\ stream[h].conn = c /\ ReadUp(h)
        /\ conn'[c].stream = h /\ stream'[h] = [stream[h] EXCEPT !.state = "open"]
        /\ \A g \in 1..MaxStreams : g # h => stream'[g] = stream[g]
  BY <1>2, <1>4, <1>6, <1>7
<1>10. QED BY <1>4, <1>6, <1>7, <1>8, <1>9

\* What a stream does, the others do not.
Sole(i) == \A h \in 1..MaxStreams : h # i => stream'[h] = stream[h]

LEMMA PumpEffect ==
  ASSUME TypeInv, NEW i \in 1..MaxStreams, Pump(i)
  PROVE  /\ stream[i].state = "opening" \/ (scope = "file" /\ stream[i].state = "open")
         /\ stream[i].todo = {}
         /\ stream' \in [1..MaxStreams -> StreamRecord] /\ Sole(i)
         /\ stream'[i].state = stream[i].state /\ stream'[i].conn = stream[i].conn
         /\ stream'[i].live = stream[i].live /\ stream'[i].after = stream[i].after
         /\ stream'[i].todo \subseteq Unread(i) /\ stream'[i].read \in stream'[i].todo
         /\ \A k \in stream'[i].todo : k <= stream'[i].read
         /\ scope = "file" => stream'[i].todo = Unread(i)
         /\ scope # "file" => \A k \in Unread(i) : k = stream'[i].read \/ k > stream'[i].read
         /\ UNCHANGED <<scope, events, chunks, ended, cursor, saved, transcript, session, inputs, conn, sub>>
<1>1. /\ stream \in [1..MaxStreams -> StreamRecord] /\ stream[i] \in StreamRecord
      /\ chunks \in Seq(1..MaxChunks) /\ Len(chunks) <= MaxChunks /\ MaxChunks \in Nat
  BY RealtimeAssumption DEF TypeInv, TypeOK
<1>2. PICK ks : ks = IF scope = "file" THEN Unread(i) ELSE {Min(Unread(i))} OBVIOUS
<1>3. /\ stream[i].state = "opening" \/ (scope = "file" /\ stream[i].state = "open")
      /\ stream[i].todo = {} /\ Unread(i) # {}
      /\ stream' = [stream EXCEPT ![i].todo = ks, ![i].read = Max(ks)]
      /\ UNCHANGED <<scope, events, chunks, ended, cursor, saved, transcript, session, inputs, conn, sub>>
  BY <1>2 DEF Pump
<1>4. Len(chunks) \in Nat /\ DOMAIN chunks = 1..Len(chunks) /\ DOMAIN chunks \subseteq 1..MaxChunks
  BY <1>1
<1>5. Unread(i) \subseteq DOMAIN chunks BY DEF Unread
<1>6. Min(Unread(i)) \in Unread(i) /\ \A k \in Unread(i) : Min(Unread(i)) <= k
  BY <1>3, <1>4, <1>5, Least
<1>7. ks \subseteq Unread(i) /\ ks # {} BY <1>2, <1>3, <1>6
<1>8. ks \subseteq 0..MaxChunks BY <1>4, <1>5, <1>7
<1>9. Max(ks) \in ks /\ \A k \in ks : k <= Max(ks) BY <1>1, <1>7, <1>8, Greatest
<1>10. PICK m : m = Max(ks) OBVIOUS
<1>11. m \in 0..MaxChunks /\ ks \in SUBSET (1..MaxChunks) BY <1>4, <1>5, <1>7, <1>8, <1>9, <1>10
<1>12. PICK s : s = [stream[i] EXCEPT !.todo = ks, !.read = m] OBVIOUS
<1>13. /\ s \in StreamRecord /\ s.state = stream[i].state /\ s.conn = stream[i].conn
       /\ s.live = stream[i].live /\ s.after = stream[i].after /\ s.todo = ks /\ s.read = m
  BY <1>1, <1>11, <1>12 DEF StreamRecord
<1>14. stream' = [stream EXCEPT ![i] = s] BY <1>1, <1>3, <1>10, <1>12
<1>15. stream' \in [1..MaxStreams -> StreamRecord] /\ stream'[i] = s /\ Sole(i)
  BY <1>1, <1>13, <1>14 DEF Sole
<1>16. ASSUME scope # "file", NEW k \in Unread(i) PROVE k = m \/ k > m
  <2>1. m = Min(Unread(i)) BY <1>2, <1>9, <1>10, <1>16
  <2>2. m <= k /\ m \in Nat /\ k \in Nat BY <1>4, <1>5, <1>6, <2>1
  <2>3. QED BY <2>2
<1>17. QED BY <1>2, <1>3, <1>7, <1>9, <1>10, <1>13, <1>15, <1>16

LEMMA DeliverEffect ==
  ASSUME TypeInv, NEW i \in 1..MaxStreams, Deliver(i)
  PROVE  /\ stream' \in [1..MaxStreams -> StreamRecord] /\ Sole(i)
         /\ stream'[i].state = stream[i].state /\ stream'[i].conn = stream[i].conn
         /\ stream'[i].live = stream[i].live /\ stream'[i].after = stream[i].after
         /\ stream'[i].read = stream[i].read
         /\ conn' \in [Client -> ConnRecord]
         /\ \E k \in stream[i].todo :
              /\ InOrder(i) => \A m \in stream[i].todo : k <= m
              /\ stream'[i].todo = stream[i].todo \ {k}
              /\ saved' = chunks[k] /\ transcript' = Append(transcript, k)
              /\ \A c \in Client :
                   IF stream[i].live /\ c = stream[i].conn THEN Saw(conn[c], {k}, conn'[c])
                                                          ELSE conn'[c] = conn[c]
         /\ UNCHANGED <<scope, events, chunks, ended, cursor, session, inputs, sub>>
<1>1. /\ stream \in [1..MaxStreams -> StreamRecord] /\ stream[i] \in StreamRecord
      /\ conn \in [Client -> ConnRecord] /\ stream[i].todo \subseteq DOMAIN chunks
      /\ chunks \in Seq(1..MaxChunks) /\ stream[i].conn \in Client /\ TypeOK
  BY DEF TypeInv, TypeOK, StreamRecord
<1>2. PICK k \in stream[i].todo :
        /\ InOrder(i) => k = Min(stream[i].todo)
        /\ saved' = chunks[k] /\ transcript' = Append(transcript, k)
        /\ stream' = [stream EXCEPT ![i].todo = @ \ {k}]
        /\ conn' = IF stream[i].live
                   THEN [conn EXCEPT ![stream[i].conn] = Sees(conn[stream[i].conn], {k})] ELSE conn
        /\ UNCHANGED <<scope, events, chunks, ended, cursor, session, inputs, sub>>
  BY <1>1 DEF Deliver
<1>3. InOrder(i) => \A m \in stream[i].todo : k <= m
  <2>1. stream[i].todo \subseteq Nat BY <1>1
  <2>2. QED BY <1>2, <2>1, Least
<1>4. PICK s : s = [stream[i] EXCEPT !.todo = stream[i].todo \ {k}] OBVIOUS
<1>5. /\ s \in StreamRecord /\ s.state = stream[i].state /\ s.conn = stream[i].conn
      /\ s.live = stream[i].live /\ s.after = stream[i].after /\ s.read = stream[i].read
      /\ s.todo = stream[i].todo \ {k}
  BY <1>1, <1>4 DEF StreamRecord
<1>6. stream' = [stream EXCEPT ![i] = s] BY <1>1, <1>2, <1>4
<1>7. stream' \in [1..MaxStreams -> StreamRecord] /\ stream'[i] = s /\ Sole(i)
  BY <1>1, <1>5, <1>6 DEF Sole
<1>8. PICK d : d = stream[i].conn OBVIOUS
<1>9. PICK q : q = Sees(conn[d], {k}) OBVIOUS
<1>10. Saw(conn[d], {k}, q) BY <1>1, <1>8, <1>9, SeesFields
<1>11. q \in ConnRecord BY <1>10 DEF Saw
<1>12. /\ conn' \in [Client -> ConnRecord]
       /\ \A c \in Client :
            IF stream[i].live /\ c = stream[i].conn THEN Saw(conn[c], {k}, conn'[c])
                                                   ELSE conn'[c] = conn[c]
  <2>1. CASE stream[i].live
    <3>1. conn' = [conn EXCEPT ![d] = q] BY <1>2, <1>8, <1>9, <2>1
    <3>2. QED BY <1>1, <1>8, <1>10, <1>11, <2>1, <3>1
  <2>2. CASE ~stream[i].live BY <1>1, <1>2, <2>2
  <2>3. QED BY <2>1, <2>2
<1>13. QED BY <1>2, <1>3, <1>5, <1>7, <1>12

LEMMA ProduceEffect ==
  ASSUME TypeInv, Produce
  PROVE  /\ Session /\ ~ended /\ Len(chunks) < MaxChunks
         /\ \E n \in 1..(Len(chunks) + 1) :
              /\ chunks' = Append(chunks, n)
              /\ scope = "file" => n = Len(chunks) + 1 /\ stream' = stream /\ cursor' = cursor
              /\ scope # "file" =>
                   /\ cursor' = n
                   /\ \A i \in 1..MaxStreams :
                        IF stream[i].state = "open" /\ n > stream[i].after
                        THEN stream'[i] = [stream[i] EXCEPT !.todo = @ \cup {Len(chunks) + 1}]
                        ELSE stream'[i] = stream[i]
         /\ stream' \in [1..MaxStreams -> StreamRecord]
         /\ UNCHANGED <<scope, events, ended, saved, transcript, session, inputs, conn, sub>>
<1>1. /\ stream \in [1..MaxStreams -> StreamRecord] /\ MaxChunks \in Nat /\ MaxStreams \in Nat
      /\ chunks \in Seq(1..MaxChunks) /\ cursor \in 0..Len(chunks)
  BY RealtimeAssumption DEF TypeInv, TypeOK
<1>2. PICK k, n : k = Len(chunks) + 1 /\ n = IF scope = "file" THEN k ELSE cursor + 1 OBVIOUS
<1>3. /\ Session /\ ~ended /\ Len(chunks) < MaxChunks /\ chunks' = Append(chunks, n)
      /\ UNCHANGED <<scope, events, ended, saved, transcript, session, inputs, conn, sub>>
  BY <1>2 DEF Produce
<1>4. n \in 1..(Len(chunks) + 1) /\ k \in 1..MaxChunks BY <1>1, <1>2, <1>3
<1>5. CASE scope = "file"
  <2>1. stream' = stream /\ cursor' = cursor BY <1>5 DEF Produce
  <2>2. n = Len(chunks) + 1 BY <1>2, <1>5
  <2>3. QED BY <1>1, <1>3, <1>4, <1>5, <2>1, <2>2
<1>6. CASE scope # "file"
  <2>1. /\ cursor' = n
        /\ stream' = [i \in DOMAIN stream |->
             IF stream[i].state = "open" /\ n > stream[i].after
             THEN [stream[i] EXCEPT !.todo = @ \cup {k}] ELSE stream[i]]
    BY <1>2, <1>6 DEF Produce
  <2>2. ASSUME NEW i \in 1..MaxStreams
        PROVE  /\ IF stream[i].state = "open" /\ n > stream[i].after
                  THEN stream'[i] = [stream[i] EXCEPT !.todo = @ \cup {k}]
                  ELSE stream'[i] = stream[i]
               /\ stream'[i] \in StreamRecord
    <3>1. stream[i] \in StreamRecord BY <1>1
    <3>2. IF stream[i].state = "open" /\ n > stream[i].after
          THEN stream'[i] = [stream[i] EXCEPT !.todo = @ \cup {k}]
          ELSE stream'[i] = stream[i]
      BY <1>1, <2>1
    <3>3. [stream[i] EXCEPT !.todo = @ \cup {k}] \in StreamRecord
      BY <1>4, <3>1 DEF StreamRecord
    <3>4. QED BY <3>1, <3>2, <3>3
  <2>3. stream' \in [1..MaxStreams -> StreamRecord] BY <1>1, <2>1, <2>2
  <2>4. QED BY <1>2, <1>3, <1>4, <1>6, <2>1, <2>2, <2>3
<1>7. QED BY <1>5, <1>6

LEMMA ProduceStates ==
  ASSUME TypeInv, Produce, NEW i \in 1..MaxStreams
  PROVE  /\ stream'[i].state = stream[i].state /\ stream'[i].conn = stream[i].conn
         /\ stream'[i].live = stream[i].live /\ stream'[i].after = stream[i].after
         /\ stream'[i].read = stream[i].read /\ stream[i].todo \subseteq stream'[i].todo
<1>1. stream[i] \in StreamRecord BY DEF TypeInv, TypeOK
<1>2. PICK n \in 1..(Len(chunks) + 1) :
        /\ scope = "file" => stream' = stream
        /\ scope # "file" =>
             IF stream[i].state = "open" /\ n > stream[i].after
             THEN stream'[i] = [stream[i] EXCEPT !.todo = @ \cup {Len(chunks) + 1}]
             ELSE stream'[i] = stream[i]
  BY ProduceEffect
<1>3. stream'[i] = stream[i] \/ stream'[i] = [stream[i] EXCEPT !.todo = @ \cup {Len(chunks) + 1}]
  BY <1>2
<1>4. QED BY <1>1, <1>3 DEF StreamRecord

LEMMA RuntimeEndsEffect ==
  ASSUME TypeOK, RuntimeEnds
  PROVE  /\ scope = "stdio" /\ ~ended /\ ended'
         /\ stream' \in [1..MaxStreams -> StreamRecord]
         /\ \A i \in 1..MaxStreams :
              /\ stream'[i].conn = stream[i].conn /\ stream'[i].after = stream[i].after
              /\ stream'[i].read = stream[i].read /\ stream'[i].todo = stream[i].todo
              /\ stream'[i].live = stream[i].live
              /\ stream'[i].state = IF stream[i].state = "open" THEN "closed" ELSE stream[i].state
         /\ UNCHANGED <<scope, events, chunks, cursor, saved, transcript, session, inputs, conn, sub>>
<1>1. stream \in [1..MaxStreams -> StreamRecord] BY DEF TypeOK
<1>2. /\ scope = "stdio" /\ ~ended /\ ended' = TRUE
      /\ stream' = [i \in DOMAIN stream |-> IF stream[i].state = "open"
                      THEN [stream[i] EXCEPT !.state = "closed"] ELSE stream[i]]
      /\ UNCHANGED <<scope, events, chunks, cursor, saved, transcript, session, inputs, conn, sub>>
  BY DEF RuntimeEnds
<1>3. ASSUME NEW i \in 1..MaxStreams
      PROVE  /\ stream'[i] \in StreamRecord
             /\ stream'[i].conn = stream[i].conn /\ stream'[i].after = stream[i].after
             /\ stream'[i].read = stream[i].read /\ stream'[i].todo = stream[i].todo
             /\ stream'[i].live = stream[i].live
             /\ stream'[i].state = IF stream[i].state = "open" THEN "closed" ELSE stream[i].state
  <2>1. stream[i] \in StreamRecord BY <1>1
  <2>2. CASE stream[i].state = "open"
    <3>1. stream'[i] = [stream[i] EXCEPT !.state = "closed"] BY <1>1, <1>2, <2>2
    <3>2. QED BY <2>1, <2>2, <3>1 DEF StreamRecord
  <2>3. CASE stream[i].state # "open"
    <3>1. stream'[i] = stream[i] BY <1>1, <1>2, <2>3
    <3>2. QED BY <2>1, <2>3, <3>1
  <2>4. QED BY <2>2, <2>3
<1>4. stream' \in [1..MaxStreams -> StreamRecord] BY <1>1, <1>2, <1>3
<1>5. QED BY <1>2, <1>3, <1>4

-----------------------------------------------------------------------------
(* Every step keeps the types *)

LEMMA TypeInit == Init => TypeInv
<1> SUFFICES ASSUME Init PROVE TypeInv OBVIOUS
<1>1. PICK n, z, s : n = NoConn /\ z = NoSub /\ s = NoStream OBVIOUS
<1>2. n \in ConnRecord /\ z \in SubRecord BY <1>1, NoConnFields
<1>3. /\ s.conn \in Client /\ 0 \in 0..MaxChunks /\ 0 \in 0..MaxInputs
      /\ MaxEvents \in Nat /\ MaxChunks \in Nat
  BY <1>1, RealtimeAssumption DEF NoStream
<1>4. s \in StreamRecord /\ s.read = 0 /\ s.todo = {} BY <1>1, <1>3 DEF NoStream, StreamRecord
<1>5. /\ conn = [c \in Client |-> n] /\ sub = [c \in Client |-> z]
      /\ stream = [i \in 1..MaxStreams |-> s]
  BY <1>1 DEF Init
<1>6. /\ conn \in [Client -> ConnRecord] /\ sub \in [Client -> SubRecord]
      /\ stream \in [1..MaxStreams -> StreamRecord]
      /\ \A i \in 1..MaxStreams : stream[i].read = 0 /\ stream[i].todo = {}
  BY <1>2, <1>4, <1>5
<1>7. /\ scope \in Scopes /\ log = <<>> /\ unsent = {} /\ chunks = <<>> /\ ended = FALSE
      /\ cursor = 0 /\ saved = 0 /\ transcript = <<>> /\ inputs = 0
      /\ session = [open |-> TRUE, clients |-> 0]
  BY DEF Init
<1>8. /\ log \in Seq(BOOLEAN) /\ chunks \in Seq(1..MaxChunks) /\ transcript \in Seq(DOMAIN chunks)
      /\ Len(log) = 0 /\ Len(chunks) = 0 /\ DOMAIN chunks = {}
  BY <1>7
<1>9. /\ Len(log) <= MaxEvents /\ Len(chunks) <= MaxChunks /\ cursor \in 0..MaxChunks
      /\ saved \in 0..MaxChunks /\ inputs \in 0..MaxInputs
      /\ cursor \in 0..Len(chunks) /\ saved \in 0..Len(chunks)
  BY <1>3, <1>7, <1>8
<1>10. session \in [open: BOOLEAN, clients: Nat] /\ ended \in BOOLEAN /\ unsent \subseteq DOMAIN log
  BY <1>7
<1>11. TypeOK BY <1>6, <1>7, <1>8, <1>9, <1>10 DEF TypeOK
<1>12. QED BY <1>6, <1>8, <1>9, <1>11 DEF TypeInv

\* The steps of connections alone, and of events.
LEMMA TypeEvents ==
  ASSUME TypeInv, conn' \in [Client -> ConnRecord], sub' \in [Client -> SubRecord],
         UNCHANGED <<scope, events, output>>
  PROVE  TypeInv'
BY DEF TypeInv, TypeOK, events, output

LEMMA TypeStore ==
  ASSUME TypeInv, Store
  PROVE  TypeInv'
<1>1. /\ log \in Seq(BOOLEAN) /\ unsent \subseteq DOMAIN log /\ MaxEvents \in Nat
  BY RealtimeAssumption DEF TypeInv, TypeOK
<1>2. PICK b \in BOOLEAN : log' = Append(log, b) BY DEF Store
<1>3. /\ unsent' = unsent \cup {Len(log')} /\ Len(log) < MaxEvents
      /\ UNCHANGED <<scope, output, conn, sub>>
  BY DEF Store
<1>4. log' \in Seq(BOOLEAN) /\ Len(log') = Len(log) + 1 /\ DOMAIN log' = 1..(Len(log) + 1)
  BY <1>1, <1>2
<1>5. Len(log') <= MaxEvents /\ unsent' \subseteq DOMAIN log' BY <1>1, <1>3, <1>4
<1>6. QED BY <1>3, <1>4, <1>5 DEF TypeInv, TypeOK, output

LEMMA TypeProduce ==
  ASSUME TypeInv, Produce
  PROVE  TypeInv'
<1>1. /\ chunks \in Seq(1..MaxChunks) /\ MaxChunks \in Nat /\ transcript \in Seq(DOMAIN chunks)
      /\ cursor \in 0..Len(chunks) /\ saved \in 0..Len(chunks)
      /\ \A k \in DOMAIN chunks : chunks[k] \in 1..k
  BY RealtimeAssumption DEF TypeInv, TypeOK
<1>2. /\ Len(chunks) < MaxChunks /\ stream' \in [1..MaxStreams -> StreamRecord]
      /\ UNCHANGED <<scope, events, ended, saved, transcript, session, inputs, conn, sub>>
  BY ProduceEffect
<1>3. PICK n \in 1..(Len(chunks) + 1) :
        /\ chunks' = Append(chunks, n)
        /\ scope = "file" => n = Len(chunks) + 1 /\ stream' = stream /\ cursor' = cursor
        /\ scope # "file" =>
             /\ cursor' = n
             /\ \A i \in 1..MaxStreams :
                  IF stream[i].state = "open" /\ n > stream[i].after
                  THEN stream'[i] = [stream[i] EXCEPT !.todo = @ \cup {Len(chunks) + 1}]
                  ELSE stream'[i] = stream[i]
  BY ProduceEffect
<1>4. n \in 1..MaxChunks BY <1>1, <1>2
<1>5. /\ chunks' \in Seq(1..MaxChunks) /\ Len(chunks') = Len(chunks) + 1
      /\ DOMAIN chunks = 1..Len(chunks) /\ DOMAIN chunks' = 1..(Len(chunks) + 1)
      /\ chunks'[Len(chunks) + 1] = n /\ \A k \in DOMAIN chunks : chunks'[k] = chunks[k]
  BY <1>1, <1>3, <1>4
<1>6. /\ Len(chunks') <= MaxChunks /\ DOMAIN chunks \subseteq DOMAIN chunks'
      /\ Len(chunks) + 1 \in DOMAIN chunks' /\ cursor' \in 0..Len(chunks')
      /\ saved' \in 0..Len(chunks') /\ cursor' \in 0..MaxChunks /\ saved' \in 0..MaxChunks
  BY <1>1, <1>2, <1>3, <1>5
<1>7. transcript' \in Seq(DOMAIN chunks') BY <1>1, <1>2, <1>6
<1>8. ASSUME NEW k \in DOMAIN chunks' PROVE chunks'[k] \in 1..k
  <2>1. k \in DOMAIN chunks \/ k = Len(chunks) + 1 BY <1>1, <1>5
  <2>2. QED BY <1>1, <1>5, <2>1
<1>9. ASSUME NEW i \in 1..MaxStreams
      PROVE  stream'[i].read <= Len(chunks') /\ stream'[i].todo \subseteq DOMAIN chunks'
  <2>1. /\ stream[i] \in StreamRecord /\ stream[i].read <= Len(chunks)
        /\ stream[i].todo \subseteq DOMAIN chunks
    BY DEF TypeInv, TypeOK
  <2>2. /\ stream'[i].read = stream[i].read
        /\ stream'[i].todo \subseteq stream[i].todo \cup {Len(chunks) + 1}
    BY <1>3, <2>1 DEF StreamRecord
  <2>3. stream[i].read \in Nat BY <1>1, <2>1 DEF StreamRecord
  <2>4. stream[i].read <= Len(chunks')
    <3>1. PICK l, r : l = Len(chunks) /\ r = stream[i].read OBVIOUS
    <3>2. l \in Nat /\ r \in Nat /\ r <= l BY <1>1, <2>1, <2>3, <3>1
    <3>3. r <= l + 1 BY <3>2
    <3>4. QED BY <1>5, <3>1, <3>3
  <2>5. stream'[i].todo \subseteq DOMAIN chunks' BY <1>6, <2>1, <2>2
  <2>6. QED BY <2>2, <2>4, <2>5
<1>10. TypeOK' BY <1>2, <1>5, <1>6, <1>7 DEF TypeInv, TypeOK, events
<1>11. QED BY <1>6, <1>8, <1>9, <1>10 DEF TypeInv

LEMMA TypeStreams ==
  ASSUME TypeInv, NEW i \in 1..MaxStreams, Streaming(i)
  PROVE  TypeInv'
<1>1. /\ chunks \in Seq(1..MaxChunks) /\ transcript \in Seq(DOMAIN chunks)
      /\ \A k \in DOMAIN chunks : chunks[k] \in 1..k
      /\ MaxChunks \in Nat /\ Len(chunks) <= MaxChunks
      /\ \A h \in 1..MaxStreams : stream[h].read <= Len(chunks) /\ stream[h].todo \subseteq DOMAIN chunks
  BY RealtimeAssumption DEF TypeInv, TypeOK
<1>2. DOMAIN chunks = 1..Len(chunks) /\ Len(chunks) \in Nat BY <1>1
<1>3. CASE Pump(i)
  <2>1. /\ stream' \in [1..MaxStreams -> StreamRecord] /\ Sole(i)
        /\ stream'[i].todo \subseteq Unread(i) /\ stream'[i].read \in stream'[i].todo
        /\ UNCHANGED <<scope, events, chunks, ended, cursor, saved, transcript, session, inputs, conn, sub>>
    BY <1>3, PumpEffect
  <2>2. Unread(i) \subseteq DOMAIN chunks BY DEF Unread
  <2>3. stream'[i].read \in DOMAIN chunks /\ stream'[i].todo \subseteq DOMAIN chunks BY <2>1, <2>2
  <2>4. stream'[i].read <= Len(chunks) BY <1>2, <2>3
  <2>5. ASSUME NEW h \in 1..MaxStreams
        PROVE  stream'[h].read <= Len(chunks) /\ stream'[h].todo \subseteq DOMAIN chunks
    BY <1>1, <2>1, <2>3, <2>4 DEF Sole
  <2>6. TypeOK' BY <2>1 DEF TypeInv, TypeOK, events
  <2>7. QED BY <2>1, <2>5, <2>6 DEF TypeInv
<1>4. CASE Deliver(i)
  <2>1. /\ stream' \in [1..MaxStreams -> StreamRecord] /\ Sole(i)
        /\ stream'[i].read = stream[i].read /\ conn' \in [Client -> ConnRecord]
        /\ UNCHANGED <<scope, events, chunks, ended, cursor, session, inputs, sub>>
    BY <1>4, DeliverEffect
  <2>2. PICK k \in stream[i].todo :
          /\ stream'[i].todo = stream[i].todo \ {k}
          /\ saved' = chunks[k] /\ transcript' = Append(transcript, k)
    BY <1>4, DeliverEffect
  <2>3. k \in DOMAIN chunks BY <1>1
  <2>4. chunks[k] \in 0..Len(chunks) /\ chunks[k] \in 0..MaxChunks BY <1>1, <1>2, <2>3
  <2>5. transcript' \in Seq(DOMAIN chunks) BY <1>1, <2>2, <2>3
  <2>6. ASSUME NEW h \in 1..MaxStreams
        PROVE  stream'[h].read <= Len(chunks) /\ stream'[h].todo \subseteq DOMAIN chunks
    BY <1>1, <2>1, <2>2 DEF Sole
  <2>7. TypeOK' BY <2>1, <2>2, <2>4, <2>5 DEF TypeInv, TypeOK, events
  <2>8. QED BY <2>1, <2>2, <2>4, <2>6, <2>7 DEF TypeInv
<1>5. QED BY <1>3, <1>4 DEF Streaming

\* What detachSession makes of the session record.
LEMMA DetachedFields ==
  ASSUME TypeInv, NEW n \in {0, 1}
  PROVE  /\ Detached(n) \in [open: BOOLEAN, clients: Nat] /\ Detached(n).open = session.open
         /\ Detached(n).clients = IF session.clients = 0 THEN 0 ELSE session.clients - n
         /\ SavedAfter(n) \in 0..Len(chunks) /\ SavedAfter(n) \in 0..MaxChunks
<1>1. /\ session \in [open: BOOLEAN, clients: Nat] /\ chunks \in Seq(1..MaxChunks)
      /\ cursor \in 0..Len(chunks) /\ saved \in 0..Len(chunks)
      /\ cursor \in 0..MaxChunks /\ saved \in 0..MaxChunks
  BY DEF TypeInv, TypeOK
<1>2. SavedAfter(n) \in {cursor, saved} BY DEF SavedAfter
<1>3. PICK k : k = IF session.clients = 0 THEN 0 ELSE session.clients - n OBVIOUS
<1>4. k \in Nat BY <1>1, <1>3
<1>5. PICK s : s = [session EXCEPT !.clients = k] OBVIOUS
<1>6. s \in [open: BOOLEAN, clients: Nat] /\ s.open = session.open /\ s.clients = k
  BY <1>1, <1>4, <1>5
<1>7. Detached(n) = s BY <1>1, <1>3, <1>5 DEF Detached
<1>8. QED BY <1>1, <1>2, <1>3, <1>6, <1>7

\* The record and the saved cursor after a step of a client.
LEMMA SessionEffect ==
  ASSUME TypeInv, NEW c \in Client, Close(c) \/ Quits(c)
  PROVE  session' \in [open: BOOLEAN, clients: Nat] /\ saved' \in 0..Len(chunks) /\ saved' \in 0..MaxChunks
<1>1. /\ session \in [open: BOOLEAN, clients: Nat] /\ saved \in 0..Len(chunks) /\ saved \in 0..MaxChunks
  BY DEF TypeInv, TypeOK
<1>2. CASE Close(c)
  <2>1. PICK n : n = IF conn[c].attached /\ session.open THEN 1 ELSE 0 OBVIOUS
  <2>2. session' = Detached(n) /\ saved' = SavedAfter(n) BY <1>2, <2>1 DEF Close
  <2>3. n \in {0, 1} BY <2>1
  <2>4. QED BY <2>2, <2>3, DetachedFields
<1>3. CASE Detach(c)
  <2>1. PICK n : n = IF session.open THEN 1 ELSE 0 OBVIOUS
  <2>2. session' = Detached(n) /\ saved' = SavedAfter(n) BY <1>3, <2>1 DEF Detach
  <2>3. n \in {0, 1} BY <2>1
  <2>4. QED BY <2>2, <2>3, DetachedFields
<1>4. CASE Resume(c) BY <1>1, <1>4 DEF Resume
<1>5. CASE Cancel(c) BY <1>1, <1>5 DEF Cancel
<1>6. QED BY <1>2, <1>3, <1>4, <1>5 DEF Quits

LEMMA TypeClient ==
  ASSUME TypeInv, NEW c \in Client,
         Close(c) \/ Quits(c) \/ Attach(c) \/ Open(c) \/ Opened(c)
  PROVE  TypeInv'
<1>1. /\ chunks \in Seq(1..MaxChunks) /\ cursor \in 0..Len(chunks) /\ saved \in 0..Len(chunks)
      /\ cursor \in 0..MaxChunks /\ saved \in 0..MaxChunks /\ TypeOK
      /\ session \in [open: BOOLEAN, clients: Nat]
      /\ \A i \in 1..MaxStreams : stream[i].read <= Len(chunks) /\ stream[i].todo \subseteq DOMAIN chunks
  BY DEF TypeInv, TypeOK
<1>2. CASE Close(c)
  <2>1. /\ conn' \in [Client -> ConnRecord] /\ sub' \in [Client -> SubRecord]
        /\ stream' \in [1..MaxStreams -> StreamRecord]
        /\ UNCHANGED <<scope, events, chunks, ended, cursor, transcript, inputs>>
    BY <1>1, <1>2, CloseEffect
  <2>2. \A i \in 1..MaxStreams : stream'[i].read = stream[i].read /\ stream'[i].todo = stream[i].todo
    BY <1>1, <1>2, CloseEffect
  <2>3. session' \in [open: BOOLEAN, clients: Nat] /\ saved' \in 0..Len(chunks) /\ saved' \in 0..MaxChunks
    BY <1>2, SessionEffect
  <2>4. TypeOK' BY <2>1, <2>3 DEF TypeInv, TypeOK, events
  <2>5. QED BY <2>1, <2>2, <2>3, <2>4 DEF TypeInv
<1>3. CASE Quits(c)
  <2>1. /\ conn' \in [Client -> ConnRecord] /\ stream' \in [1..MaxStreams -> StreamRecord]
        /\ UNCHANGED <<scope, events, chunks, ended, cursor, transcript, inputs, sub>>
    BY <1>1, <1>3, QuitsEffect
  <2>2. \A i \in 1..MaxStreams : stream'[i].read = stream[i].read /\ stream'[i].todo = stream[i].todo
    BY <1>1, <1>3, QuitsEffect
  <2>3. session' \in [open: BOOLEAN, clients: Nat] /\ saved' \in 0..Len(chunks) /\ saved' \in 0..MaxChunks
    BY <1>3, SessionEffect
  <2>4. TypeOK' BY <2>1, <2>3 DEF TypeInv, TypeOK, events
  <2>5. QED BY <2>1, <2>2, <2>3, <2>4 DEF TypeInv
<1>4. CASE Attach(c)
  <2>1. /\ conn' \in [Client -> ConnRecord] /\ sub' \in [Client -> SubRecord]
        /\ session' = [session EXCEPT !.clients = @ + 1] /\ cursor' = Restored
        /\ UNCHANGED <<scope, events, chunks, ended, saved, transcript, stream, inputs>>
    BY <1>1, <1>4, AttachEffect
  <2>2. session' \in [open: BOOLEAN, clients: Nat] BY <1>1, <2>1
  <2>3. cursor' \in 0..Len(chunks) /\ cursor' \in 0..MaxChunks BY <1>1, <2>1 DEF Restored
  <2>4. TypeOK' BY <2>1, <2>2, <2>3 DEF TypeInv, TypeOK, events
  <2>5. QED BY <1>1, <2>1, <2>3, <2>4 DEF TypeInv
<1>5. CASE Open(c)
  <2>1. /\ conn' \in [Client -> ConnRecord] /\ stream' \in [1..MaxStreams -> StreamRecord]
        /\ UNCHANGED <<scope, events, chunks, ended, cursor, saved, transcript, session, inputs, sub>>
    BY <1>5, OpenEffect
  <2>2. ASSUME NEW h \in 1..MaxStreams
        PROVE  stream'[h].read <= Len(chunks) /\ stream'[h].todo \subseteq DOMAIN chunks
    <3>1. stream'[h] = stream[h] \/ (stream'[h].read = 0 /\ stream'[h].todo = {})
      BY <1>5, OpenEffect
    <3>2. 0 <= Len(chunks) BY <1>1
    <3>3. QED BY <1>1, <3>1, <3>2
  <2>3. TypeOK' BY <2>1 DEF TypeInv, TypeOK, events
  <2>4. QED BY <2>1, <2>2, <2>3 DEF TypeInv
<1>6. CASE Opened(c)
  <2>1. /\ conn' \in [Client -> ConnRecord] /\ stream' \in [1..MaxStreams -> StreamRecord]
        /\ UNCHANGED <<scope, events, chunks, ended, cursor, saved, transcript, session, inputs, sub>>
    BY <1>1, <1>6, OpenedEffect
  <2>2. ASSUME NEW h \in 1..MaxStreams
        PROVE  stream'[h].read = stream[h].read /\ stream'[h].todo = stream[h].todo
    <3>1. stream[h] \in StreamRecord BY <1>1 DEF TypeOK
    <3>2. stream'[h] = stream[h] \/ stream'[h] = [stream[h] EXCEPT !.state = "open"]
      BY <1>1, <1>6, OpenedEffect
    <3>3. QED BY <3>1, <3>2 DEF StreamRecord
  <2>3. TypeOK' BY <2>1 DEF TypeInv, TypeOK, events
  <2>4. QED BY <2>1, <2>2, <2>3 DEF TypeInv
<1>7. QED BY <1>2, <1>3, <1>4, <1>5, <1>6

\* The steps of Next, as the proofs take them.
LEMMA Steps ==
  ASSUME [Next]_vars
  PROVE  \/ Store \/ Produce \/ RuntimeEnds \/ Input \/ \E k \in unsent : Emit(k)
         \/ \E c \in Client : \/ Observing(c) \/ Poll(c) \/ Polled(c) \/ Abort(c)
                              \/ Connect(c) \/ \E wide, offset \in BOOLEAN : Request(c, wide, offset)
                              \/ Close(c) \/ Quits(c) \/ Attach(c) \/ Open(c) \/ Opened(c)
         \/ \E i \in 1..MaxStreams : Pump(i) \/ Deliver(i)
         \/ UNCHANGED vars
<1>1. ASSUME NEW c \in Client, Calling(c) \/ Handling(c)
      PROVE  \/ Observing(c) \/ Abort(c) \/ Connect(c)
             \/ \E wide, offset \in BOOLEAN : Request(c, wide, offset)
             \/ Close(c) \/ Quits(c) \/ Attach(c) \/ Open(c) \/ Opened(c)
  BY <1>1 DEF Calling, Handling, Observing, Quits, JobEvents, WorkerEvents, SessionEvents
<1>2. QED BY <1>1 DEF Next, Streaming

LEMMA TypeNext == TypeInv /\ [Next]_vars => TypeInv'
<1> SUFFICES ASSUME TypeInv, [Next]_vars PROVE TypeInv' OBVIOUS
<1>0. TypeOK BY DEF TypeInv
<1>1. CASE Store BY <1>1, TypeStore
<1>2. CASE Produce BY <1>2, TypeProduce
<1>3. CASE RuntimeEnds
  <2>1. /\ ended' /\ stream' \in [1..MaxStreams -> StreamRecord]
        /\ \A i \in 1..MaxStreams : stream'[i].read = stream[i].read /\ stream'[i].todo = stream[i].todo
        /\ UNCHANGED <<scope, events, chunks, cursor, saved, transcript, session, inputs, conn, sub>>
    BY <1>0, <1>3, RuntimeEndsEffect
  <2>2. ended' \in BOOLEAN BY <1>3 DEF RuntimeEnds
  <2>3. TypeOK' BY <2>1, <2>2 DEF TypeInv, TypeOK, events
  <2>4. QED BY <2>1, <2>3 DEF TypeInv
<1>4. CASE Input
  <2>1. /\ inputs < MaxInputs /\ inputs' = inputs + 1 /\ saved' = cursor
        /\ UNCHANGED <<scope, events, chunks, ended, cursor, transcript, session, stream, conn, sub>>
    BY <1>4 DEF Input
  <2>2. inputs' \in 0..MaxInputs BY <2>1, RealtimeAssumption DEF TypeInv, TypeOK
  <2>3. saved' \in 0..MaxChunks /\ saved' \in 0..Len(chunks) BY <2>1 DEF TypeInv, TypeOK
  <2>4. TypeOK' BY <2>1, <2>2, <2>3 DEF TypeInv, TypeOK, events
  <2>5. QED BY <2>1, <2>3, <2>4 DEF TypeInv
<1>5. ASSUME NEW k \in unsent, Emit(k) PROVE TypeInv'
  <2>1. /\ conn' \in [Client -> ConnRecord] /\ UNCHANGED <<scope, log, output, sub>>
        /\ unsent' \subseteq unsent
    BY <1>0, <1>5, EmitEffect
  <2>2. QED BY <2>1 DEF TypeInv, TypeOK, output
<1>6. ASSUME NEW c \in Client, Observing(c) \/ Poll(c) \/ Polled(c) PROVE TypeInv'
  BY <1>0, <1>6, EventsEffect, TypeEvents
<1>7. ASSUME NEW c \in Client, Abort(c) PROVE TypeInv' BY <1>0, <1>7, AbortEffect, TypeEvents
<1>8. ASSUME NEW c \in Client, Connect(c) PROVE TypeInv'
  <2>1. UNCHANGED <<scope, events, output>> BY <1>8 DEF Connect
  <2>2. QED BY <1>0, <1>8, <2>1, ConnectEffect, TypeEvents
<1>9. ASSUME NEW c \in Client, NEW wide \in BOOLEAN, NEW offset \in BOOLEAN,
             Request(c, wide, offset)
      PROVE  TypeInv'
  <2>1. UNCHANGED <<scope, events, output>> BY <1>9 DEF Request
  <2>2. QED BY <1>0, <1>9, <2>1, RequestEffect, TypeEvents
<1>10. ASSUME NEW c \in Client, Close(c) \/ Quits(c) \/ Attach(c) \/ Open(c) \/ Opened(c)
       PROVE  TypeInv'
  BY <1>10, TypeClient
<1>11. ASSUME NEW i \in 1..MaxStreams, Pump(i) \/ Deliver(i) PROVE TypeInv'
  BY <1>11, TypeStreams DEF Streaming
<1>12. CASE UNCHANGED vars BY <1>12 DEF TypeInv, TypeOK, vars, events, output
<1>13. QED
  BY <1>1, <1>2, <1>3, <1>4, <1>5, <1>6, <1>7, <1>8, <1>9, <1>10, <1>11, <1>12, Steps

\* The types with the numbers they are bounded by.
LEMMA Types == Spec => []TypeInv
BY TypeInit, TypeNext, PTL DEF Spec

\* Type correctness of connections, subscriptions and streams, for any number of
\* clients and events: what clients are sent was published or put out, and sequence
\* numbers stay within the output whatever a transport is restored to.
THEOREM TypeCorrect == Spec => []TypeOK
<1>1. TypeInv => TypeOK BY DEF TypeInv
<1>2. QED BY Types, <1>1, PTL

-----------------------------------------------------------------------------
(* Connections and their streams *)

\* What a connection waits for belongs to its scope,
Phases == \A c \in Client :
  /\ conn[c].pc \in {"subscribing", "requested", "writing"} => ~Session
  /\ conn[c].pc \in {"replay", "opening"} => Session

\* and the subscription a connection holds is its own, and was opened.
Owned == \A c \in Client, i \in 1..MaxStreams :
  conn[c].stream = i => stream[i].conn = c /\ stream[i].state \in {"open", "closed"}

\* The steps that touch no stream, and no session.
LEMMA EventsPhases ==
  ASSUME TypeInv, Phases, NEW c \in Client,
         Observing(c) \/ Abort(c) \/ \E wide, offset \in BOOLEAN : Request(c, wide, offset)
  PROVE  ~Session
BY DEF Phases, Observing, SubscribeEvents, Subscribed, StreamOpened, WriteEvent, Abort, Request, Session

\* A step after which the connections and the streams are as Phases and Owned say.
LEMMA StillOwned ==
  ASSUME TypeInv, TypeInv', Phases, Owned, scope' = scope,
         \A c \in Client : conn'[c].stream \in {0, conn[c].stream},
         \A i \in 1..MaxStreams :
           /\ stream'[i].conn = stream[i].conn
           /\ stream[i].state \in {"open", "closed"} => stream'[i].state \in {"open", "closed"}
  PROVE  Owned'
<1>1. \A i \in 1..MaxStreams : i # 0 BY RealtimeAssumption
<1>2. QED BY <1>1 DEF Owned

LEMMA PhasesInit == Init => Phases /\ Owned
<1> SUFFICES ASSUME Init PROVE Phases /\ Owned OBVIOUS
<1>1. \A c \in Client : conn[c] = NoConn BY DEF Init
<1>2. \A i \in 1..MaxStreams : i # 0 BY RealtimeAssumption
<1>3. QED BY <1>1, <1>2, NoConnFields DEF Phases, Owned

LEMMA PhasesNext == TypeInv /\ Phases /\ Owned /\ [Next]_vars => Phases' /\ Owned'
<1> SUFFICES ASSUME TypeInv, Phases, Owned, [Next]_vars PROVE Phases' /\ Owned' OBVIOUS
<1>0. TypeOK /\ TypeInv' /\ (Session' <=> scope' # "events") /\ (Session <=> scope # "events")
  BY TypeNext DEF TypeInv, Session
<1>1. CASE Store \/ Input \/ UNCHANGED vars
  <2>1. UNCHANGED <<scope, conn, stream>> BY <1>1 DEF Store, Input, vars, output
  <2>2. QED BY <2>1 DEF Phases, Owned, Session
<1>2. CASE Produce
  <2>1. UNCHANGED <<scope, conn>> BY <1>2, ProduceEffect
  <2>2. \A i \in 1..MaxStreams : stream'[i].conn = stream[i].conn /\ stream'[i].state = stream[i].state
    BY <1>2, ProduceStates
  <2>3. Phases' BY <1>0, <2>1 DEF Phases
  <2>4. QED BY <1>0, <2>1, <2>2, <2>3, StillOwned
<1>3. CASE RuntimeEnds
  <2>1. /\ UNCHANGED <<scope, conn>>
        /\ \A i \in 1..MaxStreams :
             /\ stream'[i].conn = stream[i].conn
             /\ stream'[i].state = IF stream[i].state = "open" THEN "closed" ELSE stream[i].state
    BY <1>0, <1>3, RuntimeEndsEffect
  <2>2. Phases' BY <1>0, <2>1 DEF Phases
  <2>3. QED BY <1>0, <2>1, <2>2, StillOwned
<1>4. ASSUME NEW k \in unsent, Emit(k) PROVE Phases' /\ Owned'
  <2>1. /\ UNCHANGED <<scope, stream>>
        /\ \A c \in Client : conn'[c].stream = conn[c].stream /\ conn'[c].pc = conn[c].pc
    BY <1>0, <1>4, EmitEffect DEF output
  <2>2. Phases' BY <1>0, <2>1 DEF Phases
  <2>3. QED BY <1>0, <2>1, <2>2, StillOwned
<1>5. ASSUME NEW c \in Client, Observing(c) \/ Poll(c) \/ Polled(c) PROVE Phases' /\ Owned'
  <2>1. /\ UNCHANGED <<scope, stream>> /\ Others(c) /\ conn'[c].stream = conn[c].stream
        /\ conn'[c].pc # conn[c].pc => conn'[c].pc \in {"idle", "subscribing", "writing"} /\ Observing(c)
    BY <1>0, <1>5, EventsEffect DEF output
  <2>2. Observing(c) => ~Session BY EventsPhases
  <2>3. Phases' BY <1>0, <2>1, <2>2 DEF Phases, Others
  <2>4. \A d \in Client : conn'[d].stream = conn[d].stream BY <2>1 DEF Others
  <2>5. QED BY <1>0, <2>1, <2>3, <2>4, StillOwned
<1>6. ASSUME NEW c \in Client, Abort(c) PROVE Phases' /\ Owned'
  <2>1. /\ UNCHANGED <<scope, stream>> /\ Others(c) /\ conn'[c].stream = conn[c].stream
        /\ conn'[c].pc = "idle"
    BY <1>0, <1>6, AbortEffect DEF output
  <2>2. Phases' BY <1>0, <2>1 DEF Phases, Others
  <2>3. \A d \in Client : conn'[d].stream = conn[d].stream BY <2>1 DEF Others
  <2>4. QED BY <1>0, <2>1, <2>2, <2>3, StillOwned
<1>7. ASSUME NEW c \in Client, Connect(c) PROVE Phases' /\ Owned'
  <2>1. UNCHANGED <<scope, stream>> BY <1>7 DEF Connect, output
  <2>2. Others(c) /\ conn'[c].stream = 0 /\ conn'[c].pc = "idle" BY <1>0, <1>7, ConnectEffect
  <2>3. Phases' BY <1>0, <2>1, <2>2 DEF Phases, Others
  <2>4. \A d \in Client : conn'[d].stream \in {0, conn[d].stream} BY <2>2 DEF Others
  <2>5. QED BY <1>0, <2>1, <2>3, <2>4, StillOwned
<1>8. ASSUME NEW c \in Client, NEW wide \in BOOLEAN, NEW offset \in BOOLEAN,
             Request(c, wide, offset)
      PROVE  Phases' /\ Owned'
  <2>1. UNCHANGED <<scope, stream>> /\ ~Session BY <1>8, EventsPhases DEF Request, output
  <2>2. Others(c) /\ conn'[c].stream = 0 /\ conn'[c].pc = "requested" BY <1>0, <1>8, RequestEffect
  <2>3. Phases' BY <1>0, <2>1, <2>2 DEF Phases, Others
  <2>4. \A d \in Client : conn'[d].stream \in {0, conn[d].stream} BY <2>2 DEF Others
  <2>5. QED BY <1>0, <2>1, <2>3, <2>4, StillOwned
<1>9. ASSUME NEW c \in Client, Close(c) PROVE Phases' /\ Owned'
  <2>1. /\ scope' = scope /\ Others(c) /\ conn'[c].stream = 0 /\ conn'[c].pc = conn[c].pc
        /\ \A i \in 1..MaxStreams :
             /\ stream'[i].conn = stream[i].conn
             /\ stream'[i].state = IF stream[i].conn = c /\ conn[c].stream = i THEN "closed"
                                   ELSE stream[i].state
    BY <1>0, <1>9, CloseEffect
  <2>2. Phases' BY <1>0, <2>1 DEF Phases, Others
  <2>3. \A d \in Client : conn'[d].stream \in {0, conn[d].stream} BY <2>1 DEF Others
  <2>4. QED BY <1>0, <2>1, <2>2, <2>3, StillOwned
<1>10. ASSUME NEW c \in Client, Quits(c) PROVE Phases' /\ Owned'
  <2>1. /\ scope' = scope /\ Others(c) /\ conn'[c].stream = 0 /\ Session
        /\ conn'[c].pc = (IF Resume(c) THEN "replay" ELSE "idle")
        /\ \A i \in 1..MaxStreams :
             /\ stream'[i].conn = stream[i].conn
             /\ stream'[i].state = IF conn[c].stream = i THEN "closed" ELSE stream[i].state
    BY <1>0, <1>10, QuitsEffect
  <2>2. conn'[c].pc \in {"replay", "idle"} BY <2>1
  <2>3. Phases' BY <1>0, <2>1, <2>2 DEF Phases, Others
  <2>4. \A d \in Client : conn'[d].stream \in {0, conn[d].stream} BY <2>1 DEF Others
  <2>5. QED BY <1>0, <2>1, <2>3, <2>4, StillOwned
<1>11. ASSUME NEW c \in Client, Attach(c) PROVE Phases' /\ Owned'
  <2>1. /\ scope' = scope /\ stream' = stream /\ Others(c) /\ Session
        /\ conn'[c].stream = conn[c].stream /\ conn'[c].pc = "replay"
    BY <1>0, <1>11, AttachEffect
  <2>2. Phases' BY <1>0, <2>1 DEF Phases, Others
  <2>3. \A d \in Client : conn'[d].stream = conn[d].stream BY <2>1 DEF Others
  <2>4. QED BY <1>0, <2>1, <2>2, <2>3, StillOwned
<1>12. ASSUME NEW c \in Client, Open(c) PROVE Phases' /\ Owned'
  <2>1. /\ scope' = scope /\ \A d \in Client : d # c => conn'[d] = conn[d]
        /\ conn[c].pc = "replay" /\ conn'[c].stream = conn[c].stream
        /\ conn'[c].pc = IF session.open THEN "opening" ELSE "idle"
    BY <1>0, <1>12, OpenEffect
  <2>2. conn'[c].pc \in {"opening", "idle"} BY <2>1
  <2>3. Phases' BY <1>0, <2>1, <2>2 DEF Phases
  <2>4. \A i \in 1..MaxStreams : stream'[i] = stream[i] \/ stream[i].state = "free"
    BY <1>12, OpenEffect
  <2>5. \A d \in Client : conn'[d].stream = conn[d].stream BY <2>1
  <2>6. ASSUME NEW d \in Client, NEW i \in 1..MaxStreams, conn'[d].stream = i
        PROVE  stream'[i].conn = d /\ stream'[i].state \in {"open", "closed"}
    <3>1. stream[i].conn = d /\ stream[i].state \in {"open", "closed"}
      BY <2>5, <2>6 DEF Owned
    <3>2. QED BY <2>4, <3>1
  <2>7. QED BY <2>3, <2>6 DEF Owned
<1>13. ASSUME NEW c \in Client, Opened(c) PROVE Phases' /\ Owned'
  <2>1. /\ scope' = scope /\ \A d \in Client : d # c => conn'[d] = conn[d]
        /\ conn'[c].pc = "idle"
    BY <1>0, <1>13, OpenedEffect
  <2>2. PICK i \in 1..MaxStreams :
          /\ stream[i].state = "opening" /\ stream[i].conn = c /\ conn'[c].stream = i
          /\ stream'[i] = [stream[i] EXCEPT !.state = "open"]
          /\ \A h \in 1..MaxStreams : h # i => stream'[h] = stream[h]
    BY <1>0, <1>13, OpenedEffect
  <2>3. Phases' BY <1>0, <2>1 DEF Phases
  <2>4. stream'[i].state = "open" /\ stream'[i].conn = c
    BY <1>0, <2>2 DEF TypeOK, StreamRecord
  <2>5. ASSUME NEW d \in Client, NEW h \in 1..MaxStreams, conn'[d].stream = h
        PROVE  stream'[h].conn = d /\ stream'[h].state \in {"open", "closed"}
    <3>1. CASE d = c BY <2>2, <2>4, <2>5, <3>1
    <3>2. CASE d # c
      <4>1. stream[h].conn = d /\ stream[h].state \in {"open", "closed"}
        BY <2>1, <2>5, <3>2 DEF Owned
      <4>2. QED BY <2>2, <4>1
    <3>3. QED BY <3>1, <3>2
  <2>6. QED BY <2>3, <2>5 DEF Owned
<1>14. ASSUME NEW i \in 1..MaxStreams, Pump(i) \/ Deliver(i) PROVE Phases' /\ Owned'
  <2>1. /\ scope' = scope
        /\ \A c \in Client : conn'[c].stream = conn[c].stream /\ conn'[c].pc = conn[c].pc
        /\ \A h \in 1..MaxStreams : stream'[h].conn = stream[h].conn /\ stream'[h].state = stream[h].state
    <3>1. CASE Pump(i) BY <3>1, PumpEffect DEF Sole
    <3>2. CASE Deliver(i)
      <4>1. /\ scope' = scope /\ Sole(i)
            /\ stream'[i].state = stream[i].state /\ stream'[i].conn = stream[i].conn
        BY <3>2, DeliverEffect
      <4>2. \A c \in Client : conn'[c] = conn[c] \/ \E k \in stream[i].todo : Saw(conn[c], {k}, conn'[c])
        BY <3>2, DeliverEffect
      <4>3. QED BY <4>1, <4>2 DEF Sole, Saw
    <3>3. QED BY <1>14, <3>1, <3>2
  <2>2. Phases' BY <1>0, <2>1 DEF Phases
  <2>3. QED BY <1>0, <2>1, <2>2, StillOwned
<1>15. QED
  BY <1>1, <1>2, <1>3, <1>4, <1>5, <1>6, <1>7, <1>8, <1>9, <1>10, <1>11, <1>12, <1>13, <1>14, Steps

-----------------------------------------------------------------------------
(* No stream drops a chunk *)

OutInv ==
  /\ ended => scope = "stdio"
  /\ \A i \in 1..MaxStreams :
       /\ stream[i].live => Session /\ conn[stream[i].conn].ws
       /\ stream[i].state = "closed" /\ conn[stream[i].conn].stream = i => ended

\* A stream that is still its client's, and what such a stream has done.
Tracked(i) ==
  /\ stream[i].live
  /\ \/ stream[i].state \in {"opening", "open"}
     \/ ended /\ stream[i].state = "closed" /\ conn[stream[i].conn].stream = i
Covered(i) ==
  \A k \in DOMAIN chunks : chunks[k] > stream[i].after =>
    \/ k \in conn[stream[i].conn].got \cup stream[i].todo
    \/ k \in Unread(i) /\ (scope = "file" \/ stream[i].state = "opening")
Unbroken == \A i \in 1..MaxStreams : Tracked(i) => Covered(i)

DropInv == OutInv /\ Unbroken

\* Steps that leave a stream as far as it was, or farther.
LEMMA StillCovered ==
  ASSUME NEW i \in 1..MaxStreams, Covered(i), UNCHANGED <<scope, chunks>>,
         stream'[i].conn = stream[i].conn, stream'[i].after = stream[i].after,
         stream'[i].read = stream[i].read, stream[i].todo \subseteq stream'[i].todo,
         stream'[i].state = stream[i].state,
         conn[stream[i].conn].got \subseteq conn'[stream[i].conn].got
  PROVE  Covered(i)'
BY DEF Covered, Unread

\* A step that no stream takes part in.
LEMMA DropEvents ==
  ASSUME TypeInv, DropInv, UNCHANGED <<scope, chunks, ended, stream>>,
         \A c \in Client :
           /\ Session => conn[c].got \subseteq conn'[c].got
           /\ conn'[c].stream \in {0, conn[c].stream}
           /\ Session => (conn[c].ws => conn'[c].ws)
  PROVE  DropInv'
<1>0. \A i \in 1..MaxStreams : stream[i].conn \in Client /\ i # 0
  <2>1. \A i \in 1..MaxStreams : stream[i].conn \in Client BY DEF TypeInv, TypeOK, StreamRecord
  <2>2. \A i \in 1..MaxStreams : i # 0 BY RealtimeAssumption
  <2>3. QED BY <2>1, <2>2
<1>1. OutInv' BY <1>0 DEF DropInv, OutInv, Session
<1>2. ASSUME NEW i \in 1..MaxStreams, Tracked(i)' PROVE Covered(i)'
  <2>1. stream[i].live /\ Session BY <1>2 DEF Tracked, DropInv, OutInv
  <2>2. stream[i].conn \in Client /\ i # 0 BY <1>0
  <2>3. Tracked(i) BY <1>2, <2>2 DEF Tracked
  <2>4. Covered(i) BY <2>3 DEF DropInv, Unbroken
  <2>5. conn[stream[i].conn].got \subseteq conn'[stream[i].conn].got BY <2>1, <2>2
  <2>6. QED BY <2>4, <2>5, StillCovered
<1>3. QED BY <1>1, <1>2 DEF DropInv, Unbroken

LEMMA DropInit == Init => DropInv
<1> SUFFICES ASSUME Init PROVE DropInv OBVIOUS
<1>1. /\ \A i \in 1..MaxStreams : ~stream[i].live /\ stream[i].state = "free"
      /\ ended = FALSE
  BY DEF Init, NoStream
<1>2. QED BY <1>1 DEF DropInv, OutInv, Unbroken, Tracked

LEMMA DropProduce ==
  ASSUME TypeInv, DropInv, Produce
  PROVE  DropInv'
<1>0. /\ chunks \in Seq(1..MaxChunks) /\ MaxStreams \in Nat
      /\ \A i \in 1..MaxStreams : stream[i] \in StreamRecord /\ stream[i].read <= Len(chunks)
  BY RealtimeAssumption DEF TypeInv, TypeOK
<1>1. UNCHANGED <<scope, ended, conn>> /\ ~ended BY ProduceEffect
<1>2. \A i \in 1..MaxStreams :
        /\ stream'[i].state = stream[i].state /\ stream'[i].conn = stream[i].conn
        /\ stream'[i].live = stream[i].live /\ stream'[i].after = stream[i].after
        /\ stream'[i].read = stream[i].read /\ stream[i].todo \subseteq stream'[i].todo
  BY ProduceStates
<1>3. OutInv' BY <1>1, <1>2 DEF DropInv, OutInv, Session
<1>4. PICK n \in 1..(Len(chunks) + 1) :
        /\ chunks' = Append(chunks, n)
        /\ scope # "file" =>
             \A i \in 1..MaxStreams :
               IF stream[i].state = "open" /\ n > stream[i].after
               THEN stream'[i] = [stream[i] EXCEPT !.todo = @ \cup {Len(chunks) + 1}]
               ELSE stream'[i] = stream[i]
  BY ProduceEffect
<1>5. /\ DOMAIN chunks' = 1..(Len(chunks) + 1) /\ DOMAIN chunks = 1..Len(chunks)
      /\ Len(chunks) \in Nat
      /\ chunks'[Len(chunks) + 1] = n /\ \A k \in DOMAIN chunks : chunks'[k] = chunks[k]
  BY <1>0, <1>4
<1>6. ASSUME NEW i \in 1..MaxStreams, Tracked(i)' PROVE Covered(i)'
  <2>1. stream[i].state \in {"opening", "open"} /\ Tracked(i) BY <1>1, <1>2, <1>6 DEF Tracked
  <2>2. Covered(i) BY <2>1 DEF DropInv, Unbroken
  <2>3. ASSUME NEW k \in DOMAIN chunks', chunks'[k] > stream'[i].after
        PROVE  \/ k \in conn'[stream'[i].conn].got \cup stream'[i].todo
               \/ k \in Unread(i)' /\ (scope' = "file" \/ stream'[i].state = "opening")
    <3>1. CASE k \in DOMAIN chunks
      <4>1. chunks[k] > stream[i].after BY <1>2, <1>5, <2>3, <3>1
      <4>2. \/ k \in conn[stream[i].conn].got \cup stream[i].todo
            \/ k \in Unread(i) /\ (scope = "file" \/ stream[i].state = "opening")
        BY <2>2, <3>1, <4>1 DEF Covered
      <4>3. k \in Unread(i) => k \in Unread(i)' BY <1>2, <2>3 DEF Unread
      <4>4. QED BY <1>1, <1>2, <4>2, <4>3
    <3>2. CASE k \notin DOMAIN chunks
      <4>1. k = Len(chunks) + 1 BY <1>5, <3>2
      <4>2. stream[i].read \in Nat BY <1>0, RealtimeAssumption DEF StreamRecord
      <4>3. k > stream[i].read BY <1>0, <1>5, <4>1, <4>2
      <4>4. k \in Unread(i)' BY <1>2, <2>3, <4>3 DEF Unread
      <4>5. CASE scope = "file" \/ stream[i].state = "opening" BY <1>1, <1>2, <4>4, <4>5
      <4>6. CASE scope # "file" /\ stream[i].state = "open"
        <5>1. n > stream[i].after BY <1>2, <1>5, <2>3, <4>1
        <5>2. stream'[i] = [stream[i] EXCEPT !.todo = @ \cup {k}] BY <1>4, <4>1, <4>6, <5>1
        <5>3. stream[i] \in StreamRecord BY <1>0
        <5>4. k \in stream'[i].todo BY <5>2, <5>3 DEF StreamRecord
        <5>5. QED BY <5>4
      <4>7. QED BY <2>1, <4>5, <4>6
    <3>3. QED BY <3>1, <3>2
  <2>4. QED BY <2>3 DEF Covered
<1>7. QED BY <1>3, <1>6 DEF DropInv, Unbroken

LEMMA DropEnds ==
  ASSUME TypeInv, DropInv, RuntimeEnds
  PROVE  DropInv'
<1>1. /\ scope = "stdio" /\ ~ended /\ ended' /\ UNCHANGED <<scope, chunks, conn>>
      /\ \A i \in 1..MaxStreams :
           /\ stream'[i].conn = stream[i].conn /\ stream'[i].after = stream[i].after
           /\ stream'[i].read = stream[i].read /\ stream'[i].todo = stream[i].todo
           /\ stream'[i].live = stream[i].live
           /\ stream'[i].state = IF stream[i].state = "open" THEN "closed" ELSE stream[i].state
  BY RuntimeEndsEffect DEF TypeInv
<1>2. OutInv' BY <1>1 DEF DropInv, OutInv, Session
<1>3. ASSUME NEW i \in 1..MaxStreams, Tracked(i)' PROVE Covered(i)'
  <2>1. CASE stream[i].state = "open"
    <3>1. Covered(i) BY <1>1, <1>3, <2>1 DEF Tracked, DropInv, Unbroken
    <3>2. QED BY <1>1, <2>1, <3>1 DEF Covered, Unread
  <2>2. CASE stream[i].state = "opening"
    <3>1. Covered(i) BY <1>1, <1>3, <2>2 DEF Tracked, DropInv, Unbroken
    <3>2. stream'[i].state = stream[i].state BY <1>1, <2>2
    <3>3. QED BY <1>1, <3>1, <3>2, StillCovered
  <2>3. CASE stream[i].state \notin {"opening", "open"}
    <3>1. stream[i].state = "closed" /\ conn[stream[i].conn].stream = i
      BY <1>1, <1>3, <2>3 DEF Tracked
    <3>2. QED BY <1>1, <3>1 DEF DropInv, OutInv
  <2>4. QED BY <2>1, <2>2, <2>3
<1>4. QED BY <1>2, <1>3 DEF DropInv, Unbroken

LEMMA DropStreams ==
  ASSUME TypeInv, DropInv, NEW i \in 1..MaxStreams, Pump(i) \/ Deliver(i)
  PROVE  DropInv'
<1>0. \A h \in 1..MaxStreams : stream[h].conn \in Client BY DEF TypeInv, TypeOK, StreamRecord
<1>1. CASE Pump(i)
  <2>1. /\ UNCHANGED <<scope, chunks, ended, conn>> /\ Sole(i)
        /\ stream'[i].state = stream[i].state /\ stream'[i].conn = stream[i].conn
        /\ stream'[i].live = stream[i].live /\ stream'[i].after = stream[i].after
        /\ stream[i].todo = {} /\ stream'[i].read \in stream'[i].todo
        /\ stream[i].state = "opening" \/ (scope = "file" /\ stream[i].state = "open")
        /\ scope = "file" => stream'[i].todo = Unread(i)
        /\ scope # "file" => \A k \in Unread(i) : k = stream'[i].read \/ k > stream'[i].read
    BY <1>1, PumpEffect
  <2>2. OutInv' BY <2>1 DEF DropInv, OutInv, Session, Sole
  <2>3. ASSUME Tracked(i)' PROVE Covered(i)'
    <3>1. Covered(i) BY <2>1, <2>3 DEF Tracked, DropInv, Unbroken
    <3>2. ASSUME NEW k \in DOMAIN chunks, chunks[k] > stream[i].after,
                 k \notin conn[stream[i].conn].got
          PROVE  k \in stream'[i].todo \/ (k \in Unread(i)' /\ stream[i].state = "opening")
      <4>1. k \in Unread(i) BY <2>1, <3>1, <3>2 DEF Covered
      <4>2. CASE scope = "file" BY <2>1, <4>1, <4>2
      <4>3. CASE scope # "file"
        <5>1. k = stream'[i].read \/ k > stream'[i].read BY <2>1, <4>1, <4>3
        <5>2. CASE k = stream'[i].read BY <2>1, <5>2
        <5>3. CASE k > stream'[i].read BY <2>1, <3>2, <4>3, <5>3 DEF Unread
        <5>4. QED BY <5>1, <5>2, <5>3
      <4>4. QED BY <4>2, <4>3
    <3>3. QED BY <2>1, <3>2 DEF Covered
  <2>4. ASSUME NEW h \in 1..MaxStreams, h # i, Tracked(h)' PROVE Covered(h)'
    <3>1. stream'[h] = stream[h] BY <2>1, <2>4 DEF Sole
    <3>2. Covered(h) BY <2>1, <2>4, <3>1 DEF Tracked, DropInv, Unbroken
    <3>3. QED BY <2>1, <3>1, <3>2, StillCovered
  <2>5. QED BY <2>2, <2>3, <2>4 DEF DropInv, Unbroken
<1>2. CASE Deliver(i)
  <2>1. /\ UNCHANGED <<scope, chunks, ended>> /\ Sole(i)
        /\ stream'[i].state = stream[i].state /\ stream'[i].conn = stream[i].conn
        /\ stream'[i].live = stream[i].live /\ stream'[i].after = stream[i].after
        /\ stream'[i].read = stream[i].read
    BY <1>2, DeliverEffect
  <2>2. PICK k \in stream[i].todo :
          /\ stream'[i].todo = stream[i].todo \ {k}
          /\ \A c \in Client :
               IF stream[i].live /\ c = stream[i].conn THEN Saw(conn[c], {k}, conn'[c])
                                                      ELSE conn'[c] = conn[c]
    BY <1>2, DeliverEffect
  <2>3. \A c \in Client : /\ conn'[c].ws = conn[c].ws /\ conn'[c].stream = conn[c].stream
                          /\ conn[c].got \subseteq conn'[c].got
    <3>1. ASSUME NEW c \in Client
          PROVE  /\ conn'[c].ws = conn[c].ws /\ conn'[c].stream = conn[c].stream
                 /\ conn[c].got \subseteq conn'[c].got
      <4>1. CASE Saw(conn[c], {k}, conn'[c])
        <5>1. conn'[c].got = IF conn[c].ws THEN conn[c].got \cup {k} ELSE conn[c].got
          BY <4>1 DEF Saw
        <5>2. QED BY <4>1, <5>1 DEF Saw
      <4>2. CASE conn'[c] = conn[c] BY <4>2
      <4>3. QED BY <2>2, <4>1, <4>2
    <3>2. QED BY <3>1
  <2>4. \A h \in 1..MaxStreams : /\ stream'[h].conn = stream[h].conn
                                 /\ stream'[h].state = stream[h].state
                                 /\ stream'[h].live = stream[h].live
    BY <2>1 DEF Sole
  <2>5. OutInv' BY <1>0, <2>1, <2>3, <2>4 DEF DropInv, OutInv, Session
  <2>6. \A h \in 1..MaxStreams : Tracked(h)' => Tracked(h)
    BY <1>0, <2>1, <2>3, <2>4 DEF Tracked
  <2>7. ASSUME Tracked(i)' PROVE Covered(i)'
    <3>1. Covered(i) /\ stream[i].live BY <2>6, <2>7 DEF Tracked, DropInv, Unbroken
    <3>2. PICK c \in Client : c = stream[i].conn BY <1>0
    <3>3. conn[c].ws /\ Saw(conn[c], {k}, conn'[c])
      BY <2>2, <3>1, <3>2 DEF DropInv, OutInv
    <3>4. conn'[c].got = conn[c].got \cup {k} BY <3>3 DEF Saw
    <3>5. stream'[i].conn = c BY <2>1, <3>2
    <3>6. QED BY <2>1, <2>2, <3>1, <3>2, <3>4, <3>5 DEF Covered, Unread
  <2>8. ASSUME NEW h \in 1..MaxStreams, h # i, Tracked(h)' PROVE Covered(h)'
    <3>1. stream'[h] = stream[h] BY <2>1, <2>8 DEF Sole
    <3>2. Covered(h) BY <2>6, <2>8 DEF DropInv, Unbroken
    <3>3. conn[stream[h].conn].got \subseteq conn'[stream[h].conn].got BY <1>0, <2>3
    <3>4. QED BY <2>1, <3>1, <3>2, <3>3, StillCovered
  <2>9. QED BY <2>5, <2>7, <2>8 DEF DropInv, Unbroken
<1>3. QED BY <1>1, <1>2

LEMMA DropClient ==
  ASSUME TypeInv, Phases, Owned, DropInv, NEW c \in Client,
         Close(c) \/ Quits(c) \/ Attach(c) \/ Open(c) \/ Opened(c)
  PROVE  DropInv'
<1>0. /\ TypeOK /\ chunks \in Seq(1..MaxChunks) /\ scope \in {"events", "file", "stdio"}
      /\ \A h \in 1..MaxStreams : stream[h] \in StreamRecord /\ stream[h].conn \in Client
  BY RealtimeAssumption DEF TypeInv, TypeOK, StreamRecord
<1>00. \A i \in 1..MaxStreams : i # 0 BY RealtimeAssumption
<1>1. CASE Close(c)
  <2>1. /\ UNCHANGED <<scope, chunks, ended>> /\ Others(c) /\ conn'[c].stream = 0
        /\ conn'[c].got = conn[c].got
        /\ \A i \in 1..MaxStreams :
             /\ stream'[i].conn = stream[i].conn /\ stream'[i].after = stream[i].after
             /\ stream'[i].read = stream[i].read /\ stream'[i].todo = stream[i].todo
             /\ stream'[i].live = (stream[i].live /\ stream[i].conn # c)
             /\ stream'[i].state = IF stream[i].conn = c /\ conn[c].stream = i THEN "closed"
                                   ELSE stream[i].state
    BY <1>0, <1>1, CloseEffect
  <2>2. ASSUME NEW i \in 1..MaxStreams
        PROVE  /\ stream'[i].live => Session /\ conn'[stream[i].conn].ws
               /\ stream'[i].state = "closed" /\ conn'[stream[i].conn].stream = i => ended
    <3>1. CASE stream[i].conn = c BY <1>00, <2>1, <3>1
    <3>2. CASE stream[i].conn # c
      <4>1. /\ conn'[stream[i].conn] = conn[stream[i].conn] /\ stream'[i].state = stream[i].state
            /\ stream'[i].live => stream[i].live
        BY <1>0, <2>1, <3>2 DEF Others
      <4>2. QED BY <4>1 DEF DropInv, OutInv
    <3>3. QED BY <3>1, <3>2
  <2>3. OutInv' BY <2>1, <2>2 DEF DropInv, OutInv, Session
  <2>4. ASSUME NEW i \in 1..MaxStreams, Tracked(i)' PROVE Covered(i)'
    <3>1. stream[i].live /\ stream[i].conn # c BY <2>1, <2>4 DEF Tracked
    <3>2. conn'[stream[i].conn] = conn[stream[i].conn] BY <1>0, <2>1, <3>1 DEF Others
    <3>3. stream'[i].state = stream[i].state BY <2>1, <3>1
    <3>4. Covered(i) BY <2>1, <2>4, <3>1, <3>2, <3>3 DEF Tracked, DropInv, Unbroken
    <3>5. QED BY <2>1, <3>2, <3>3, <3>4, StillCovered
  <2>5. QED BY <2>3, <2>4 DEF DropInv, Unbroken
<1>2. CASE Quits(c)
  <2>1. /\ UNCHANGED <<scope, chunks, ended>> /\ Others(c) /\ conn'[c].stream = 0
        /\ conn'[c].got = conn[c].got /\ conn'[c].ws
        /\ \A i \in 1..MaxStreams :
             /\ stream'[i].conn = stream[i].conn /\ stream'[i].after = stream[i].after
             /\ stream'[i].read = stream[i].read /\ stream'[i].todo = stream[i].todo
             /\ stream'[i].live = stream[i].live
             /\ stream'[i].state = IF conn[c].stream = i THEN "closed" ELSE stream[i].state
    BY <1>0, <1>2, QuitsEffect
  <2>2. ASSUME NEW i \in 1..MaxStreams
        PROVE  /\ conn'[stream[i].conn].ws \/ ~stream[i].live
               /\ conn'[stream[i].conn].stream = i => conn[stream[i].conn].stream = i /\ stream[i].conn # c
               /\ conn'[stream[i].conn].got = conn[stream[i].conn].got
    <3>1. CASE stream[i].conn = c BY <1>00, <2>1, <3>1
    <3>2. CASE stream[i].conn # c
      <4>1. conn'[stream[i].conn] = conn[stream[i].conn] BY <1>0, <2>1, <3>2 DEF Others
      <4>2. QED BY <3>2, <4>1 DEF DropInv, OutInv
    <3>3. QED BY <3>1, <3>2
  <2>3. ASSUME NEW i \in 1..MaxStreams, stream'[i].state # stream[i].state
        PROVE  stream'[i].state = "closed" /\ conn'[stream[i].conn].stream # i
    <3>1. conn[c].stream = i /\ stream'[i].state = "closed" BY <2>1, <2>3
    <3>2. stream[i].conn = c BY <3>1 DEF Owned
    <3>3. QED BY <2>2, <3>1, <3>2
  <2>4. ASSUME NEW i \in 1..MaxStreams,
               stream'[i].state = "closed", conn'[stream[i].conn].stream = i
        PROVE  ended
    <3>1. stream[i].state = "closed" /\ conn[stream[i].conn].stream = i BY <2>2, <2>3, <2>4
    <3>2. QED BY <3>1 DEF DropInv, OutInv
  <2>5. OutInv' BY <2>1, <2>2, <2>4 DEF DropInv, OutInv, Session
  <2>6. ASSUME NEW i \in 1..MaxStreams, Tracked(i)' PROVE Covered(i)'
    <3>1. stream'[i].state = stream[i].state BY <2>1, <2>3, <2>6 DEF Tracked
    <3>2. Tracked(i) BY <2>1, <2>2, <2>6, <3>1 DEF Tracked
    <3>3. Covered(i) BY <3>2 DEF DropInv, Unbroken
    <3>4. conn[stream[i].conn].got \subseteq conn'[stream[i].conn].got BY <2>2
    <3>5. QED BY <2>1, <3>1, <3>3, <3>4, StillCovered
  <2>7. QED BY <2>5, <2>6 DEF DropInv, Unbroken
<1>3. CASE Attach(c)
  <2>1. /\ UNCHANGED <<scope, chunks, ended, stream>> /\ Others(c)
        /\ conn'[c].ws /\ conn'[c].stream = conn[c].stream /\ conn'[c].got = conn[c].got
    BY <1>0, <1>3, AttachEffect
  <2>2. \A d \in Client : /\ conn[d].got \subseteq conn'[d].got
                          /\ conn'[d].stream \in {0, conn[d].stream}
                          /\ conn[d].ws => conn'[d].ws
    BY <2>1 DEF Others
  <2>3. QED BY <2>1, <2>2, DropEvents
<1>4. CASE Open(c)
  <2>1. /\ UNCHANGED <<scope, chunks, ended>> /\ \A d \in Client : d # c => conn'[d] = conn[d]
        /\ conn'[c].stream = conn[c].stream /\ conn'[c].ws = conn[c].ws
        /\ conn[c].pc = "replay"
    BY <1>4, OpenEffect
  <2>2. conn'[c].got = IF conn[c].ws THEN conn[c].got \cup Replay(c) ELSE conn[c].got
    BY <1>4, OpenEffect
  <2>3. \A d \in Client : /\ conn[d].got \subseteq conn'[d].got
                          /\ conn'[d].stream = conn[d].stream /\ conn'[d].ws = conn[d].ws
    BY <2>1, <2>2
  <2>4. CASE stream' = stream
    <3>1. \A d \in Client : /\ conn'[d].stream \in {0, conn[d].stream}
                            /\ conn[d].ws => conn'[d].ws
      BY <2>3
    <3>2. QED BY <2>1, <2>3, <2>4, DropEvents
  <2>5. CASE stream' # stream
    <3>1. PICK i \in 1..MaxStreams :
            /\ stream[i].state = "free"
            /\ \A h \in 1..MaxStreams : h # i => stream'[h] = stream[h]
            /\ stream'[i].state = "opening" /\ stream'[i].conn = c
            /\ stream'[i].live = conn[c].ws /\ stream'[i].after = After(c)
            /\ stream'[i].read = 0 /\ stream'[i].todo = {}
      BY <1>4, <2>5, OpenEffect
    <3>2. Session BY <2>1 DEF Phases
    <3>3. OutInv' BY <1>0, <2>1, <2>3, <3>1, <3>2 DEF DropInv, OutInv, Session
    <3>4. Covered(i)'
      <4>1. \A k \in DOMAIN chunks : k > 0 BY <1>0
      <4>2. QED BY <2>1, <3>1, <4>1 DEF Covered, Unread
    <3>5. ASSUME NEW h \in 1..MaxStreams, h # i, Tracked(h)' PROVE Covered(h)'
      <4>1. stream'[h] = stream[h] /\ stream[h].conn \in Client BY <1>0, <3>1, <3>5
      <4>2. Tracked(h) BY <2>1, <2>3, <3>5, <4>1 DEF Tracked
      <4>3. Covered(h) BY <4>2 DEF DropInv, Unbroken
      <4>4. conn[stream[h].conn].got \subseteq conn'[stream[h].conn].got BY <2>3, <4>1
      <4>5. QED BY <2>1, <4>1, <4>3, <4>4, StillCovered
    <3>6. QED BY <3>3, <3>4, <3>5 DEF DropInv, Unbroken
  <2>6. QED BY <2>4, <2>5
<1>5. CASE Opened(c)
  <2>1. /\ UNCHANGED <<scope, chunks, ended>> /\ \A d \in Client : d # c => conn'[d] = conn[d]
        /\ conn'[c].got = conn[c].got /\ conn'[c].ws = conn[c].ws /\ conn[c].pc = "opening"
    BY <1>0, <1>5, OpenedEffect
  <2>2. PICK i \in 1..MaxStreams :
          /\ stream[i].state = "opening" /\ stream[i].conn = c /\ ReadUp(i)
          /\ conn'[c].stream = i /\ stream'[i] = [stream[i] EXCEPT !.state = "open"]
          /\ \A h \in 1..MaxStreams : h # i => stream'[h] = stream[h]
    BY <1>0, <1>5, OpenedEffect
  <2>3. /\ stream'[i].state = "open" /\ stream'[i].conn = c /\ stream'[i].live = stream[i].live
        /\ stream'[i].after = stream[i].after /\ stream'[i].read = stream[i].read
        /\ stream'[i].todo = stream[i].todo
    BY <1>0, <2>2 DEF StreamRecord
  <2>4. \A d \in Client : conn'[d].got = conn[d].got /\ conn'[d].ws = conn[d].ws BY <2>1
  <2>5. ASSUME NEW h \in 1..MaxStreams, h # i
        PROVE  /\ stream'[h] = stream[h] /\ stream[h].conn \in Client
               /\ conn'[stream[h].conn].stream = h => conn[stream[h].conn].stream = h
    <3>1. stream'[h] = stream[h] /\ stream[h].conn \in Client BY <1>0, <2>2, <2>5
    <3>2. CASE stream[h].conn = c BY <2>2, <2>5, <3>1, <3>2
    <3>3. CASE stream[h].conn # c BY <2>1, <3>1, <3>3
    <3>4. QED BY <3>1, <3>2, <3>3
  <2>6. OutInv'
    <3>1. ASSUME NEW h \in 1..MaxStreams
          PROVE  /\ stream'[h].live => Session /\ conn'[stream'[h].conn].ws
                 /\ stream'[h].state = "closed" /\ conn'[stream'[h].conn].stream = h => ended
      <4>1. CASE h = i
        <5>1. stream[i].live => Session /\ conn[c].ws BY <2>2 DEF DropInv, OutInv
        <5>2. QED BY <2>3, <2>4, <4>1, <5>1
      <4>2. CASE h # i
        <5>1. stream[h].live => Session /\ conn[stream[h].conn].ws BY DEF DropInv, OutInv
        <5>2. stream[h].state = "closed" /\ conn[stream[h].conn].stream = h => ended
          BY DEF DropInv, OutInv
        <5>3. QED BY <2>4, <2>5, <4>2, <5>1, <5>2
      <4>3. QED BY <4>1, <4>2
    <3>2. QED BY <2>1, <3>1 DEF DropInv, OutInv, Session
  <2>7. ASSUME Tracked(i)' PROVE Covered(i)'
    <3>1. Covered(i) BY <2>2, <2>3, <2>7 DEF Tracked, DropInv, Unbroken
    <3>2. scope = "file" \/ Unread(i) = {}
      <4>1. scope # "events" BY <2>1 DEF Phases, Session
      <4>2. QED BY <1>0, <2>2, <4>1 DEF ReadUp
    <3>3. QED BY <2>1, <2>2, <2>3, <3>1, <3>2 DEF Covered, Unread
  <2>8. ASSUME NEW h \in 1..MaxStreams, h # i, Tracked(h)' PROVE Covered(h)'
    <3>1. Tracked(h) BY <2>1, <2>5, <2>8 DEF Tracked
    <3>2. Covered(h) BY <3>1 DEF DropInv, Unbroken
    <3>3. conn[stream[h].conn].got \subseteq conn'[stream[h].conn].got BY <2>4, <2>5, <2>8
    <3>4. QED BY <2>1, <2>5, <2>8, <3>2, <3>3, StillCovered
  <2>9. QED BY <2>6, <2>7, <2>8 DEF DropInv, Unbroken
<1>6. QED BY <1>1, <1>2, <1>3, <1>4, <1>5

LEMMA DropNext == TypeInv /\ Phases /\ Owned /\ DropInv /\ [Next]_vars => DropInv'
<1> SUFFICES ASSUME TypeInv, Phases, Owned, DropInv, [Next]_vars PROVE DropInv' OBVIOUS
<1>0. TypeOK BY DEF TypeInv
<1>1. CASE Store \/ Input \/ UNCHANGED vars
  <2>1. UNCHANGED <<scope, chunks, ended, stream, conn>>
    BY <1>1 DEF Store, Input, vars, output
  <2>2. QED BY <2>1, DropEvents
<1>2. CASE Produce BY <1>2, DropProduce
<1>3. CASE RuntimeEnds BY <1>3, DropEnds
<1>4. ASSUME NEW k \in unsent, Emit(k) PROVE DropInv'
  <2>1. /\ UNCHANGED <<scope, chunks, ended, stream>>
        /\ \A c \in Client : /\ conn'[c].stream = conn[c].stream /\ conn'[c].ws = conn[c].ws
                             /\ conn[c].got \subseteq conn'[c].got
    BY <1>0, <1>4, EmitEffect DEF output
  <2>2. QED BY <2>1, DropEvents
<1>5. ASSUME NEW c \in Client, Observing(c) \/ Poll(c) \/ Polled(c) PROVE DropInv'
  <2>1. /\ UNCHANGED <<scope, chunks, ended, stream>> /\ Others(c)
        /\ conn'[c].stream = conn[c].stream /\ conn'[c].ws = conn[c].ws
        /\ conn[c].got \subseteq conn'[c].got
    BY <1>0, <1>5, EventsEffect DEF output
  <2>2. \A d \in Client : /\ conn'[d].stream = conn[d].stream /\ conn'[d].ws = conn[d].ws
                          /\ conn[d].got \subseteq conn'[d].got
    BY <2>1 DEF Others
  <2>3. QED BY <2>1, <2>2, DropEvents
<1>6. ASSUME NEW c \in Client, Abort(c) PROVE DropInv'
  <2>1. /\ UNCHANGED <<scope, chunks, ended, stream>> /\ Others(c)
        /\ conn'[c].stream = conn[c].stream /\ ~Session
    BY <1>0, <1>6, AbortEffect, EventsPhases DEF output
  <2>2. \A d \in Client : conn'[d].stream = conn[d].stream BY <2>1 DEF Others
  <2>3. QED BY <2>1, <2>2, DropEvents
<1>7. ASSUME NEW c \in Client, Connect(c) PROVE DropInv'
  <2>1. UNCHANGED <<scope, chunks, ended, stream>> BY <1>7 DEF Connect, output
  <2>2. Others(c) /\ conn'[c].stream = 0 /\ conn'[c].ws /\ (Session => conn'[c].got = conn[c].got)
    BY <1>0, <1>7, ConnectEffect
  <2>3. \A d \in Client : /\ conn'[d].stream \in {0, conn[d].stream}
                          /\ conn[d].ws => conn'[d].ws
                          /\ Session => conn[d].got \subseteq conn'[d].got
    BY <2>2 DEF Others
  <2>4. QED BY <2>1, <2>3, DropEvents
<1>8. ASSUME NEW c \in Client, NEW wide \in BOOLEAN, NEW offset \in BOOLEAN,
             Request(c, wide, offset)
      PROVE  DropInv'
  <2>1. UNCHANGED <<scope, chunks, ended, stream>> /\ ~Session
    BY <1>8, EventsPhases DEF Request, output
  <2>2. Others(c) /\ conn'[c].stream = 0 BY <1>0, <1>8, RequestEffect
  <2>3. \A d \in Client : conn'[d].stream \in {0, conn[d].stream} BY <2>2 DEF Others
  <2>4. QED BY <2>1, <2>3, DropEvents
<1>9. ASSUME NEW c \in Client, Close(c) \/ Quits(c) \/ Attach(c) \/ Open(c) \/ Opened(c)
      PROVE  DropInv'
  BY <1>9, DropClient
<1>10. ASSUME NEW i \in 1..MaxStreams, Pump(i) \/ Deliver(i) PROVE DropInv'
  BY <1>10, DropStreams
<1>11. QED BY <1>1, <1>2, <1>3, <1>4, <1>5, <1>6, <1>7, <1>8, <1>9, <1>10, Steps

\* No stream of output drops a chunk: for any number of clients and streams,
\* however their replays and deliveries interleave, and also when clients close
\* while a message is handled or resume before they subscribe.
THEOREM StreamsComplete == Spec => []NothingDropped
<1>1. DropInv => NothingDropped
  <2> SUFFICES ASSUME DropInv, NEW i \in 1..MaxStreams, Tracked(i) PROVE Covered(i)
    BY DEF NothingDropped, Tracked, Covered
  <2>1. QED BY DEF DropInv, Unbroken
<1>2. Init => Phases /\ Owned /\ DropInv BY PhasesInit, DropInit
<1>3. TypeInv /\ Phases /\ Owned /\ DropInv /\ [Next]_vars => Phases' /\ Owned' /\ DropInv'
  BY PhasesNext, DropNext
<1>4. QED BY <1>1, <1>2, <1>3, Types, PTL DEF Spec

-----------------------------------------------------------------------------
(* A client of a file transport misses no chunk *)

Heard == {transcript[p] : p \in DOMAIN transcript}

\* A session has no events of a job,
Quiet == Session => log = <<>> /\ unsent = {} /\ \A c \in Client : sub[c].page = {}

\* the transcript leaves no chunk out before one it has,
Gapless == \A p \in DOMAIN transcript : \A m \in 1..transcript[p] : \E q \in 1..p : transcript[q] = m

\* a client has what is up to its last chunk, all of it in the transcript,
Told(c) == conn[c].got = 1..conn[c].seen /\ 1..conn[c].seen \subseteq Heard

\* and what a stream has read is being delivered, or is in the transcript and,
\* while its socket is open, with the client.
Sent(i) ==
  /\ 1..stream[i].after \subseteq Heard
  /\ \A m \in 1..stream[i].read : m \in stream[i].todo \cup Heard
  /\ \A m \in stream[i].todo : m <= stream[i].read
  /\ stream[i].live =>
       /\ stream[i].after <= conn[stream[i].conn].seen
       /\ \A m \in 1..stream[i].read : m \in stream[i].todo \/ m <= conn[stream[i].conn].seen

SkipInv ==
  /\ \A k \in DOMAIN chunks : chunks[k] = k
  /\ Gapless /\ (\A c \in Client : Told(c)) /\ (\A i \in 1..MaxStreams : Sent(i))

FileInv == Quiet /\ (scope = "file" => SkipInv)

\* A step that moves no stream on, and tells no client anything.
LEMMA SkipSame ==
  ASSUME TypeInv, SkipInv, UNCHANGED <<chunks, transcript>>,
         \A c \in Client : conn'[c].got = conn[c].got /\ conn'[c].seen = conn[c].seen,
         \A i \in 1..MaxStreams :
           /\ stream'[i].conn = stream[i].conn /\ stream'[i].after = stream[i].after
           /\ stream'[i].read = stream[i].read /\ stream'[i].todo = stream[i].todo
           /\ stream'[i].live => stream[i].live
  PROVE  SkipInv'
<1>1. \A i \in 1..MaxStreams : stream[i].conn \in Client BY DEF TypeInv, TypeOK, StreamRecord
<1>2. Heard' = Heard BY DEF Heard
<1>3. Gapless' BY DEF SkipInv, Gapless
<1>4. \A c \in Client : Told(c)' BY <1>2 DEF SkipInv, Told
<1>5. ASSUME NEW i \in 1..MaxStreams PROVE Sent(i)'
  <2>1. Sent(i) BY DEF SkipInv
  <2>2. conn'[stream[i].conn].seen = conn[stream[i].conn].seen BY <1>1
  <2>3. QED BY <1>2, <2>1, <2>2 DEF Sent
<1>6. QED BY <1>3, <1>4, <1>5 DEF SkipInv

\* In a session, what a connection gets of events is nothing.
LEMMA QuietEvents ==
  ASSUME TypeInv, Quiet, Session, NEW c \in Client, Poll(c) \/ Polled(c)
  PROVE  /\ conn'[c].got = conn[c].got /\ conn'[c].seen = conn[c].seen /\ sub'[c].page = {}
<1>0. conn[c] \in ConnRecord /\ sub[c] \in SubRecord BY DEF TypeInv, TypeOK
<1>00. conn \in [Client -> ConnRecord] /\ sub \in [Client -> SubRecord] BY DEF TypeInv, TypeOK
<1>1. CASE Poll(c)
  <2>1. PICK page : page = Page(conn[c], sub[c].next) OBVIOUS
  <2>2. page \subseteq DOMAIN log BY <2>1, PageOf DEF TypeInv
  <2>3. page = {} BY <2>2 DEF Quiet
  <2>4. conn' = conn /\ sub' = [sub EXCEPT ![c].fetching = TRUE, ![c].page = page]
    BY <1>1, <2>1 DEF Poll
  <2>5. QED BY <1>0, <1>00, <2>3, <2>4 DEF SubRecord
<1>2. CASE Polled(c)
  <2>1. PICK n : n = sub[c].next + Cardinality(sub[c].page) OBVIOUS
  <2>2. sub' = [sub EXCEPT ![c].fetching = FALSE, ![c].page = {}, ![c].next = n]
    BY <1>2, <2>1 DEF Polled
  <2>3. sub'[c].page = {} BY <1>0, <1>00, <2>2 DEF SubRecord
  <2>4. PICK r : r = Received(conn[c], sub[c].page) OBVIOUS
  <2>5. sub[c].page = {} BY DEF Quiet
  <2>6. r.seen = conn[c].seen /\ r.got = IF conn[c].ws THEN conn[c].got \cup {} ELSE conn[c].got
    BY <1>0, <2>4, <2>5, ReceivedFields
  <2>7. conn' = [conn EXCEPT ![c] = r] BY <1>0, <1>2, <2>4 DEF Polled
  <2>8. conn'[c] = r BY <1>00, <2>7
  <2>9. QED BY <2>3, <2>6, <2>8
<1>3. QED BY <1>1, <1>2

\* The numbers of connections and streams.
LEMMA Numbers ==
  ASSUME TypeInv
  PROVE  /\ \A c \in Client : conn[c].seen \in Nat
         /\ \A i \in 1..MaxStreams : /\ stream[i].conn \in Client
                                     /\ stream[i].after \in Nat /\ stream[i].read \in Nat
<1>1. /\ \A c \in Client : conn[c] \in ConnRecord
      /\ \A i \in 1..MaxStreams : stream[i] \in StreamRecord
  BY DEF TypeInv, TypeOK
<1>2. MaxChunks \in Nat BY RealtimeAssumption
<1>3. \A c \in Client : conn[c].seen \in Nat BY <1>1, <1>2 DEF ConnRecord
<1>4. \A i \in 1..MaxStreams : /\ stream[i].conn \in Client
                               /\ stream[i].after \in Nat /\ stream[i].read \in Nat
  BY <1>1, <1>2 DEF StreamRecord
<1>5. QED BY <1>3, <1>4

\* What is replayed is, with what the client has, all up to the last of it.
LEMMA ReplayWhole ==
  ASSUME TypeInv, SkipInv, NEW c \in Client, NEW k \in Replay(c), NEW m \in 1..k
  PROVE  m \in conn[c].got \cup Replay(c)
<1>1. /\ transcript \in Seq(DOMAIN chunks) /\ chunks \in Seq(1..MaxChunks)
      /\ conn[c].seen \in Nat /\ Limit \in Nat
  BY RealtimeAssumption DEF TypeInv, TypeOK, ConnRecord
<1>2. PICK p \in Replayed(c) : k = transcript[p] BY DEF Replay
<1>3. p \in Later(c) /\ Place(p, Later(c)) <= Limit BY <1>2 DEF Replayed
<1>4. Later(c) \subseteq DOMAIN transcript BY DEF Later
<1>5. PICK q \in 1..p : transcript[q] = m BY <1>2, <1>3, <1>4 DEF SkipInv, Gapless
<1>6. DOMAIN transcript = 1..Len(transcript) /\ Len(transcript) \in Nat BY <1>1
<1>7. p \in Nat /\ q \in DOMAIN transcript /\ q <= p BY <1>3, <1>4, <1>5, <1>6
<1>8. m \in DOMAIN chunks /\ m \in Nat BY <1>1, <1>5, <1>7
<1>9. CASE m <= conn[c].seen
  <2>1. m \in 1..conn[c].seen BY <1>1, <1>8, <1>9
  <2>2. QED BY <2>1 DEF SkipInv, Told
<1>10. CASE m > conn[c].seen
  <2>1. chunks[transcript[q]] = m BY <1>5, <1>8 DEF SkipInv
  <2>2. q \in Later(c) BY <1>7, <1>10, <2>1 DEF Later
  <2>3. Later(c) \subseteq 0..Len(transcript) BY <1>4, <1>6
  <2>4. /\ Place(q, Later(c)) \in Nat /\ Place(p, Later(c)) \in Nat
        /\ Place(q, Later(c)) <= Place(p, Later(c))
    BY <1>3, <1>6, <1>7, <2>2, <2>3, Places
  <2>5. Place(q, Later(c)) <= Limit BY <1>1, <1>3, <2>4
  <2>6. q \in Replayed(c) BY <2>2, <2>5 DEF Replayed
  <2>7. QED BY <1>5, <2>6 DEF Replay
<1>11. QED BY <1>1, <1>8, <1>9, <1>10

LEMMA SkipOpen ==
  ASSUME TypeInv, SkipInv, NEW c \in Client, Open(c)
  PROVE  SkipInv'
<1>0. /\ chunks \in Seq(1..MaxChunks) /\ transcript \in Seq(DOMAIN chunks)
      /\ conn \in [Client -> ConnRecord]
      /\ \A h \in 1..MaxStreams : stream[h].conn \in Client /\ stream[h].after \in Nat /\ stream[h].read \in Nat
      /\ \A d \in Client : conn[d].seen \in Nat
  BY Numbers DEF TypeInv, TypeOK
<1>1. /\ UNCHANGED <<chunks, transcript>> /\ \A d \in Client : d # c => conn'[d] = conn[d]
      /\ conn[c].seen <= conn'[c].seen
      /\ conn[c].ws => \A k \in Replay(c) : chunks[k] <= conn'[c].seen
      /\ conn'[c].seen = conn[c].seen \/ \E k \in Replay(c) : conn'[c].seen = chunks[k]
      /\ conn[c].ws \/ conn'[c].seen = conn[c].seen
      /\ conn' \in [Client -> ConnRecord]
  BY <1>0, OpenEffect
<1>2. conn'[c].got = (IF conn[c].ws THEN conn[c].got \cup Replay(c) ELSE conn[c].got) BY OpenEffect
<1>3. /\ Replay(c) \subseteq DOMAIN chunks /\ Replay(c) \subseteq Heard
      /\ \A k \in DOMAIN chunks : chunks[k] = k /\ k \in Nat /\ k >= 1
  <2>1. Replayed(c) \subseteq DOMAIN transcript /\ Replay(c) \subseteq DOMAIN chunks BY ReplayOf
  <2>2. QED BY <1>0, <2>1 DEF Replay, Heard, SkipInv
<1>4. Heard' = Heard BY <1>1 DEF Heard
<1>5. Told(c) BY DEF SkipInv
<1>6. conn'[c].seen \in Nat BY <1>1, RealtimeAssumption DEF ConnRecord
<1>7. \A k \in Replay(c) : \A m \in 1..k : m \in conn[c].got \cup Replay(c) BY ReplayWhole
<1>8. conn'[c].got = 1..conn'[c].seen
  <2>1. CASE ~conn[c].ws BY <1>1, <1>2, <1>5, <2>1 DEF Told
  <2>2. CASE conn[c].ws
    <3>1. ASSUME NEW m \in conn'[c].got PROVE m \in 1..conn'[c].seen
      <4>1. CASE m \in conn[c].got
        <5>1. m \in 1..conn[c].seen BY <1>5, <4>1 DEF Told
        <5>2. QED BY <1>0, <1>1, <1>6, <5>1
      <4>2. CASE m \in Replay(c)
        <5>1. m \in Nat /\ m >= 1 /\ m <= conn'[c].seen BY <1>1, <1>3, <2>2, <4>2
        <5>2. QED BY <1>6, <5>1
      <4>3. QED BY <1>2, <2>2, <3>1, <4>1, <4>2
    <3>2. ASSUME NEW m \in 1..conn'[c].seen PROVE m \in conn'[c].got
      <4>1. CASE conn'[c].seen = conn[c].seen BY <1>2, <1>5, <2>2, <3>2, <4>1 DEF Told
      <4>2. CASE conn'[c].seen # conn[c].seen
        <5>1. PICK k \in Replay(c) : conn'[c].seen = chunks[k] BY <1>1, <4>2
        <5>2. m \in 1..k BY <1>3, <3>2, <5>1
        <5>3. QED BY <1>2, <1>7, <2>2, <5>2
      <4>3. QED BY <4>1, <4>2
    <3>3. QED BY <3>1, <3>2
  <2>3. QED BY <2>1, <2>2
<1>9. conn'[c].got \subseteq Heard BY <1>2, <1>3, <1>5 DEF Told
<1>10. ASSUME NEW d \in Client PROVE Told(d)'
  <2>1. CASE d = c BY <1>4, <1>8, <1>9, <2>1 DEF Told
  <2>2. CASE d # c
    <3>1. Told(d) BY DEF SkipInv
    <3>2. QED BY <1>1, <1>4, <2>2, <3>1 DEF Told
  <2>3. QED BY <2>1, <2>2
<1>11. \A d \in Client : conn[d].seen <= conn'[d].seen /\ conn'[d].seen \in Nat BY <1>0, <1>1, <1>6
<1>12. ASSUME NEW h \in 1..MaxStreams, stream'[h] = stream[h] PROVE Sent(h)'
  <2>1. Sent(h) BY DEF SkipInv
  <2>2. PICK d \in Client : d = stream[h].conn BY <1>0
  <2>3. conn[d].seen <= conn'[d].seen /\ conn'[d].seen \in Nat /\ conn[d].seen \in Nat BY <1>0, <1>11
  <2>4. stream[h].live =>
          /\ stream[h].after <= conn'[d].seen
          /\ \A m \in 1..stream[h].read : m \in stream[h].todo \/ m <= conn'[d].seen
    <3>1. SUFFICES ASSUME stream[h].live
                   PROVE  /\ stream[h].after <= conn'[d].seen
                          /\ \A m \in 1..stream[h].read : m \in stream[h].todo \/ m <= conn'[d].seen
      OBVIOUS
    <3>2. stream[h].after <= conn'[d].seen BY <1>0, <2>1, <2>2, <2>3, <3>1 DEF Sent
    <3>3. ASSUME NEW m \in 1..stream[h].read PROVE m \in stream[h].todo \/ m <= conn'[d].seen
      <4>1. m \in stream[h].todo \/ m <= conn[d].seen BY <2>1, <2>2, <3>1 DEF Sent
      <4>2. m \in Nat BY <1>0
      <4>3. QED BY <2>3, <4>1, <4>2
    <3>4. QED BY <3>2, <3>3
  <2>5. QED BY <1>4, <1>12, <2>1, <2>2, <2>4 DEF Sent
<1>13. ASSUME NEW i \in 1..MaxStreams, stream'[i].conn = c, stream'[i].live = conn[c].ws,
              stream'[i].after = After(c), stream'[i].read = 0, stream'[i].todo = {}
       PROVE  Sent(i)'
  <2>1. After(c) = conn[c].seen \/ \E k \in Replay(c) : After(c) = chunks[k]
    BY ReplayOf DEF Replay
  <2>2. 1..After(c) \subseteq Heard
    <3>1. CASE After(c) = conn[c].seen BY <1>5, <3>1 DEF Told
    <3>2. CASE \E k \in Replay(c) : After(c) = chunks[k]
      <4>1. PICK k \in Replay(c) : After(c) = k BY <1>3, <3>2
      <4>2. \A m \in 1..k : m \in conn[c].got \cup Replay(c) BY <1>7
      <4>3. conn[c].got \subseteq Heard BY <1>5 DEF Told
      <4>4. QED BY <1>3, <4>1, <4>2, <4>3
    <3>3. QED BY <2>1, <3>1, <3>2
  <2>3. conn[c].ws => After(c) <= conn'[c].seen BY <1>1, <2>1
  <2>4. QED BY <1>4, <1>13, <2>2, <2>3 DEF Sent
<1>14. ASSUME NEW h \in 1..MaxStreams PROVE Sent(h)'
  <2>1. CASE stream'[h] = stream[h] BY <1>12, <2>1
  <2>2. CASE stream'[h] # stream[h]
    <3>1. PICK i \in 1..MaxStreams :
            /\ stream[i].state = "free"
            /\ \A g \in 1..MaxStreams : g # i => stream'[g] = stream[g]
            /\ stream'[i].state = "opening" /\ stream'[i].conn = c
            /\ stream'[i].live = conn[c].ws /\ stream'[i].after = After(c)
            /\ stream'[i].read = 0 /\ stream'[i].todo = {}
      BY <2>2, OpenEffect
    <3>2. h = i BY <2>2, <3>1
    <3>3. QED BY <1>13, <3>1, <3>2
  <2>3. QED BY <2>1, <2>2
<1>15. Gapless' BY <1>1 DEF SkipInv, Gapless
<1>16. QED BY <1>1, <1>10, <1>14, <1>15 DEF SkipInv

LEMMA SkipPump ==
  ASSUME TypeInv, SkipInv, scope = "file", NEW i \in 1..MaxStreams, Pump(i)
  PROVE  SkipInv'
<1>0. /\ \A h \in 1..MaxStreams : stream[h].conn \in Client /\ stream[h].after \in Nat /\ stream[h].read \in Nat
      /\ chunks \in Seq(1..MaxChunks)
  BY Numbers DEF TypeInv, TypeOK
<1>1. /\ UNCHANGED <<chunks, transcript, conn>> /\ Sole(i)
      /\ stream'[i].conn = stream[i].conn /\ stream'[i].live = stream[i].live
      /\ stream'[i].after = stream[i].after
      /\ stream[i].todo = {} /\ stream'[i].todo = Unread(i) /\ stream'[i].read \in stream'[i].todo
      /\ \A k \in stream'[i].todo : k <= stream'[i].read
  BY PumpEffect
<1>2. Heard' = Heard /\ Gapless' /\ \A c \in Client : Told(c)'
  BY <1>1 DEF SkipInv, Gapless, Told, Heard
<1>3. Sent(i) BY DEF SkipInv
<1>4. /\ DOMAIN chunks = 1..Len(chunks) /\ Len(chunks) \in Nat
      /\ stream'[i].read \in DOMAIN chunks /\ \A k \in DOMAIN chunks : chunks[k] = k
  BY <1>0, <1>1 DEF Unread, SkipInv
<1>5. ASSUME NEW m \in 1..stream'[i].read
      PROVE  \/ m \in stream'[i].todo
             \/ m \in Heard /\ (stream[i].live => m <= conn[stream[i].conn].seen)
  <2>1. m \in DOMAIN chunks /\ chunks[m] = m /\ m \in Nat /\ m >= 1 BY <1>4
  <2>2. CASE m <= stream[i].read
    <3>1. m \in 1..stream[i].read BY <1>0, <2>1, <2>2
    <3>2. QED BY <1>1, <1>3, <3>1 DEF Sent
  <2>3. CASE m > stream[i].read /\ m > stream[i].after BY <1>1, <2>1, <2>3 DEF Unread
  <2>4. CASE m <= stream[i].after
    <3>1. m \in 1..stream[i].after BY <1>0, <2>1, <2>4
    <3>2. m \in Heard BY <1>3, <3>1 DEF Sent
    <3>3. stream[i].live => stream[i].after <= conn[stream[i].conn].seen BY <1>3 DEF Sent
    <3>4. conn[stream[i].conn].seen \in Nat BY <1>0, Numbers
    <3>5. QED BY <1>0, <2>1, <2>4, <3>2, <3>3, <3>4
  <2>5. QED BY <1>0, <2>1, <2>2, <2>3, <2>4
<1>6. Sent(i)' BY <1>1, <1>2, <1>3, <1>5 DEF Sent
<1>7. ASSUME NEW h \in 1..MaxStreams, h # i PROVE Sent(h)'
  <2>1. Sent(h) /\ stream'[h] = stream[h] BY <1>1, <1>7 DEF SkipInv, Sole
  <2>2. QED BY <1>1, <1>2, <2>1 DEF Sent
<1>8. QED BY <1>1, <1>2, <1>6, <1>7 DEF SkipInv

LEMMA SkipDeliver ==
  ASSUME TypeInv, SkipInv, OutInv, scope = "file", NEW i \in 1..MaxStreams, Deliver(i)
  PROVE  SkipInv'
<1>0. /\ \A h \in 1..MaxStreams : stream[h].conn \in Client /\ stream[h].after \in Nat /\ stream[h].read \in Nat
      /\ \A c \in Client : conn[c].seen \in Nat
      /\ chunks \in Seq(1..MaxChunks) /\ transcript \in Seq(DOMAIN chunks)
      /\ stream[i].todo \subseteq DOMAIN chunks /\ conn' \in [Client -> ConnRecord]
  BY Numbers, DeliverEffect DEF TypeInv, TypeOK
<1>1. /\ UNCHANGED chunks /\ Sole(i)
      /\ stream'[i].conn = stream[i].conn /\ stream'[i].live = stream[i].live
      /\ stream'[i].after = stream[i].after /\ stream'[i].read = stream[i].read
  BY DeliverEffect
<1>2. PICK k \in stream[i].todo :
        /\ InOrder(i) => \A m \in stream[i].todo : k <= m
        /\ stream'[i].todo = stream[i].todo \ {k}
        /\ transcript' = Append(transcript, k)
        /\ \A c \in Client :
             IF stream[i].live /\ c = stream[i].conn THEN Saw(conn[c], {k}, conn'[c])
                                                    ELSE conn'[c] = conn[c]
  BY DeliverEffect
<1>3. /\ k \in Nat /\ k >= 1 /\ chunks[k] = k /\ \A m \in stream[i].todo : k <= m
  <2>1. k \in DOMAIN chunks BY <1>0
  <2>2. chunks[k] = k BY <2>1 DEF SkipInv
  <2>3. \A m \in stream[i].todo : k <= m BY <1>2 DEF InOrder
  <2>4. QED BY <1>0, <2>1, <2>2, <2>3
<1>4. Sent(i) BY DEF SkipInv
<1>5. ASSUME NEW m \in 1..(k - 1)
      PROVE  m \in Heard /\ (stream[i].live => m <= conn[stream[i].conn].seen)
  <2>1. k <= stream[i].read BY <1>4 DEF Sent
  <2>2. m \in Nat /\ m < k /\ m \in 1..stream[i].read BY <1>0, <1>3, <2>1
  <2>3. m \notin stream[i].todo BY <1>3, <2>2
  <2>4. QED BY <1>4, <2>2, <2>3 DEF Sent
<1>6. /\ Len(transcript) \in Nat /\ DOMAIN transcript = 1..Len(transcript)
      /\ DOMAIN transcript' = 1..(Len(transcript) + 1)
      /\ transcript'[Len(transcript) + 1] = k
      /\ \A p \in DOMAIN transcript : transcript'[p] = transcript[p]
  BY <1>0, <1>2
<1>7. Heard' = Heard \cup {k}
  <2>1. ASSUME NEW x \in Heard' PROVE x \in Heard \cup {k}
    <3>1. PICK p \in DOMAIN transcript' : x = transcript'[p] BY DEF Heard
    <3>2. p \in DOMAIN transcript \/ p = Len(transcript) + 1 BY <1>6
    <3>3. QED BY <1>6, <3>1, <3>2 DEF Heard
  <2>2. ASSUME NEW x \in Heard PROVE x \in Heard'
    <3>1. PICK p \in DOMAIN transcript : x = transcript[p] BY DEF Heard
    <3>2. p \in DOMAIN transcript' BY <1>6
    <3>3. QED BY <1>6, <3>1, <3>2 DEF Heard
  <2>3. k \in Heard'
    <3>1. Len(transcript) + 1 \in DOMAIN transcript' BY <1>6
    <3>2. QED BY <1>6, <3>1 DEF Heard
  <2>4. QED BY <2>1, <2>2, <2>3
<1>8. Gapless'
  <2>1. ASSUME NEW p \in DOMAIN transcript', NEW m \in 1..transcript'[p]
        PROVE  \E q \in 1..p : transcript'[q] = m
    <3>1. CASE p \in DOMAIN transcript
      <4>1. PICK q \in 1..p : transcript[q] = m BY <1>6, <2>1, <3>1 DEF SkipInv, Gapless
      <4>2. q \in DOMAIN transcript BY <1>6, <3>1, <4>1
      <4>3. QED BY <1>6, <4>1, <4>2
    <3>2. CASE p = Len(transcript) + 1
      <4>1. m \in 1..k BY <1>6, <2>1, <3>2
      <4>2. CASE m = k BY <1>6, <3>2, <4>2
      <4>3. CASE m # k
        <5>1. m \in 1..(k - 1) BY <1>3, <4>1, <4>3
        <5>2. m \in Heard BY <1>5, <5>1
        <5>3. PICK q \in DOMAIN transcript : transcript[q] = m BY <5>2 DEF Heard
        <5>4. q \in 1..p BY <1>6, <3>2
        <5>5. QED BY <1>6, <5>3, <5>4
      <4>4. QED BY <4>2, <4>3
    <3>3. QED BY <1>6, <3>1, <3>2
  <2>2. QED BY <2>1 DEF Gapless
<1>9. PICK d \in Client : d = stream[i].conn BY <1>0
<1>10. /\ \A c \in Client : /\ conn'[c].seen \in Nat /\ conn[c].seen <= conn'[c].seen
                            /\ Told(c)'
       /\ stream[i].live => k <= conn'[d].seen
  <2>1. \A c \in Client : conn'[c].seen \in Nat BY <1>0, RealtimeAssumption DEF ConnRecord
  <2>2. ASSUME NEW c \in Client, conn'[c] = conn[c]
        PROVE  conn[c].seen <= conn'[c].seen /\ Told(c)'
    <3>1. Told(c) BY DEF SkipInv
    <3>2. conn[c].seen <= conn'[c].seen BY <1>0, <2>2
    <3>3. Told(c)' BY <1>7, <2>2, <3>1 DEF Told
    <3>4. QED BY <3>2, <3>3
  <2>3. ASSUME stream[i].live
        PROVE  conn[d].seen <= conn'[d].seen /\ k <= conn'[d].seen /\ Told(d)'
    <3>1. Saw(conn[d], {k}, conn'[d]) /\ conn[d].ws BY <1>2, <1>9, <2>3 DEF OutInv
    <3>2. /\ conn'[d].got = conn[d].got \cup {k}
          /\ conn[d].seen <= conn'[d].seen /\ k <= conn'[d].seen
          /\ conn'[d].seen = conn[d].seen \/ conn'[d].seen = k
      <4>1. conn'[d].got = IF conn[d].ws THEN conn[d].got \cup {k} ELSE conn[d].got
        BY <3>1 DEF Saw
      <4>2. /\ conn[d].seen <= conn'[d].seen /\ chunks[k] <= conn'[d].seen
            /\ conn'[d].seen = conn[d].seen \/ conn'[d].seen = chunks[k]
        BY <3>1 DEF Saw
      <4>3. QED BY <1>3, <3>1, <4>1, <4>2
    <3>3. Told(d) BY DEF SkipInv
    <3>4. \A m \in 1..(k - 1) : m <= conn[d].seen BY <1>5, <1>9, <2>3
    <3>5. k <= conn[d].seen + 1
      <4>1. CASE k = 1 BY <1>0, <4>1
      <4>2. CASE k # 1
        <5>1. k - 1 \in 1..(k - 1) BY <1>3, <4>2
        <5>2. k - 1 <= conn[d].seen BY <3>4, <5>1
        <5>3. QED BY <1>0, <1>3, <5>2
      <4>3. QED BY <4>1, <4>2
    <3>6. PICK s, t : s = conn[d].seen /\ t = conn'[d].seen OBVIOUS
    <3>7. /\ s \in Nat /\ t \in Nat /\ s <= t /\ k <= t /\ (t = s \/ t = k) /\ k <= s + 1
          /\ conn[d].got = 1..s /\ conn'[d].got = (1..s) \cup {k}
      BY <1>0, <2>1, <3>2, <3>3, <3>5, <3>6 DEF Told
    <3>8. (1..s) \cup {k} = 1..t BY <1>3, <3>7
    <3>9. 1..t \subseteq Heard'
      <4>1. 1..s \subseteq Heard BY <3>3, <3>6 DEF Told
      <4>2. QED BY <1>7, <3>8, <4>1
    <3>10. Told(d)' BY <3>6, <3>7, <3>8, <3>9 DEF Told
    <3>11. QED BY <3>2, <3>10
  <2>4. ASSUME NEW c \in Client
        PROVE  conn[c].seen <= conn'[c].seen /\ Told(c)'
    <3>1. CASE stream[i].live /\ c = stream[i].conn BY <1>9, <2>3, <3>1
    <3>2. CASE ~(stream[i].live /\ c = stream[i].conn)
      <4>1. conn'[c] = conn[c] BY <1>2, <3>2
      <4>2. QED BY <2>2, <4>1
    <3>3. QED BY <3>1, <3>2
  <2>5. QED BY <2>1, <2>3, <2>4
<1>11. ASSUME NEW h \in 1..MaxStreams PROVE Sent(h)'
  <2>1. Sent(h) BY DEF SkipInv
  <2>2. PICK c \in Client : c = stream[h].conn BY <1>0
  <2>3. /\ stream'[h].conn = c /\ stream'[h].live = stream[h].live
        /\ stream'[h].after = stream[h].after /\ stream'[h].read = stream[h].read
        /\ stream'[h].todo \subseteq stream[h].todo
        /\ \A m \in stream[h].todo : m \in stream'[h].todo \/ (m = k /\ h = i)
    BY <1>1, <1>2, <2>2 DEF Sole
  <2>4. /\ conn[c].seen \in Nat /\ conn'[c].seen \in Nat /\ conn[c].seen <= conn'[c].seen
        /\ stream[h].after \in Nat /\ stream[h].read \in Nat
    BY <1>0, <1>10
  <2>5. 1..stream'[h].after \subseteq Heard' BY <1>7, <2>1, <2>3 DEF Sent
  <2>6. ASSUME NEW m \in 1..stream'[h].read PROVE m \in stream'[h].todo \cup Heard'
    BY <1>7, <2>1, <2>3 DEF Sent
  <2>7. \A m \in stream'[h].todo : m <= stream'[h].read BY <2>1, <2>3 DEF Sent
  <2>8. ASSUME stream[h].live PROVE stream'[h].after <= conn'[c].seen
    <3>1. stream[h].after <= conn[c].seen BY <2>1, <2>2, <2>8 DEF Sent
    <3>2. QED BY <2>3, <2>4, <3>1
  <2>9. ASSUME stream[h].live, NEW m \in 1..stream'[h].read
        PROVE  m \in stream'[h].todo \/ m <= conn'[c].seen
    <3>1. m \in 1..stream[h].read /\ m \in Nat BY <2>3, <2>4
    <3>2. m \in stream[h].todo \/ m <= conn[c].seen BY <2>1, <2>2, <2>9, <3>1 DEF Sent
    <3>3. CASE m <= conn[c].seen BY <2>4, <3>1, <3>3
    <3>4. CASE m = k /\ h = i
      <4>1. c = d BY <1>9, <2>2, <3>4
      <4>2. QED BY <1>10, <2>9, <3>4, <4>1
    <3>5. QED BY <2>3, <3>2, <3>3, <3>4
  <2>10. QED BY <2>3, <2>5, <2>6, <2>7, <2>8, <2>9 DEF Sent
<1>12. QED BY <1>1, <1>8, <1>10, <1>11 DEF SkipInv

LEMMA FileInit == Init => FileInv
<1> SUFFICES ASSUME Init PROVE FileInv OBVIOUS
<1>0. /\ log = <<>> /\ unsent = {} /\ chunks = <<>> /\ transcript = <<>>
      /\ \A c \in Client : conn[c] = NoConn /\ sub[c] = NoSub
      /\ \A i \in 1..MaxStreams : stream[i] = NoStream
  BY DEF Init
<1>1. Quiet BY <1>0, NoConnFields DEF Quiet
<1>2. NoConn.got = {} /\ NoConn.seen = 0 BY DEF NoConn
<1>3. /\ NoStream.after = 0 /\ NoStream.read = 0 /\ NoStream.todo = {} /\ ~NoStream.live
  BY DEF NoStream
<1>4. \A c \in Client : Told(c)
  <2>1. 1..0 = {} OBVIOUS
  <2>2. \A c \in Client : conn[c].got = {} /\ conn[c].seen = 0 BY <1>0, <1>2
  <2>3. QED BY <2>1, <2>2 DEF Told
<1>5. \A i \in 1..MaxStreams : Sent(i) BY <1>0, <1>3 DEF Sent
<1>6. DOMAIN chunks = {} /\ DOMAIN transcript = {} BY <1>0
<1>7. QED BY <1>1, <1>4, <1>5, <1>6 DEF FileInv, SkipInv, Gapless

LEMMA SkipProduce ==
  ASSUME TypeInv, SkipInv, scope = "file", Produce
  PROVE  SkipInv'
<1>1. PICK n \in 1..(Len(chunks) + 1) :
        /\ chunks' = Append(chunks, n) /\ n = Len(chunks) + 1 /\ stream' = stream
  BY ProduceEffect
<1>2. UNCHANGED <<transcript, conn>> BY ProduceEffect
<1>3. chunks \in Seq(1..MaxChunks) /\ MaxChunks \in Nat /\ Len(chunks) < MaxChunks
  BY ProduceEffect, RealtimeAssumption DEF TypeInv, TypeOK
<1>4. ASSUME NEW k \in DOMAIN chunks' PROVE chunks'[k] = k
  <2>1. k \in DOMAIN chunks \/ k = Len(chunks) + 1 BY <1>1, <1>3
  <2>2. k \in DOMAIN chunks => chunks[k] = k BY DEF SkipInv
  <2>3. QED BY <1>1, <1>3, <2>1, <2>2
<1>5. Heard' = Heard /\ Gapless' BY <1>2 DEF SkipInv, Heard, Gapless
<1>6. \A c \in Client : Told(c)' BY <1>2, <1>5 DEF SkipInv, Told
<1>7. \A i \in 1..MaxStreams : Sent(i)' BY <1>1, <1>2, <1>5 DEF SkipInv, Sent
<1>8. QED BY <1>4, <1>5, <1>6, <1>7 DEF SkipInv

LEMMA QuietNext == TypeInv /\ Phases /\ Quiet /\ [Next]_vars => Quiet'
<1> SUFFICES ASSUME TypeInv, Phases, Quiet, [Next]_vars, Session' PROVE Quiet' BY DEF Quiet
<1>0. TypeOK /\ (Session' <=> scope' # "events") /\ (Session <=> scope # "events")
  BY DEF TypeInv, Session
<1>1. CASE Store BY <1>0, <1>1 DEF Store
<1>2. CASE Produce BY <1>0, <1>2, ProduceEffect DEF Quiet, events
<1>3. CASE RuntimeEnds
  <2>1. UNCHANGED <<scope, events, sub>> BY <1>3 DEF RuntimeEnds
  <2>2. QED BY <1>0, <2>1 DEF Quiet, events
<1>4. CASE Input \/ UNCHANGED vars BY <1>0, <1>4 DEF Input, vars, Quiet, events
<1>5. ASSUME NEW k \in unsent, Emit(k) PROVE Quiet'
  <2>1. UNCHANGED <<scope, log, sub>> /\ unsent' \subseteq unsent BY <1>0, <1>5, EmitEffect
  <2>2. QED BY <1>0, <2>1 DEF Quiet
<1>6. ASSUME NEW c \in Client, Observing(c) PROVE Quiet'
  <2>1. UNCHANGED <<scope, events, output>> BY <1>0, <1>6, EventsEffect
  <2>2. QED BY <1>0, <1>6, <2>1, EventsPhases
<1>7. ASSUME NEW c \in Client, Poll(c) \/ Polled(c) PROVE Quiet'
  <2>1. UNCHANGED <<scope, events, output>> /\ Others(c) BY <1>0, <1>7, EventsEffect
  <2>2. Session BY <1>0, <2>1
  <2>3. sub'[c].page = {} BY <1>7, <2>2, QuietEvents
  <2>4. QED BY <2>1, <2>2, <2>3 DEF Quiet, Others, events
<1>8. ASSUME NEW c \in Client, Abort(c) PROVE Quiet'
  <2>1. UNCHANGED <<scope, events, output>> BY <1>0, <1>8, AbortEffect
  <2>2. QED BY <1>0, <1>8, <2>1, EventsPhases
<1>9. ASSUME NEW c \in Client, Connect(c) PROVE Quiet'
  <2>1. UNCHANGED <<scope, events, output>> BY <1>9 DEF Connect
  <2>2. Others(c) /\ sub'[c].page = {} BY <1>0, <1>9, ConnectEffect
  <2>3. QED BY <1>0, <2>1, <2>2 DEF Quiet, Others, events
<1>10. ASSUME NEW c \in Client, NEW wide \in BOOLEAN, NEW offset \in BOOLEAN,
              Request(c, wide, offset)
       PROVE  Quiet'
  <2>1. UNCHANGED <<scope, events, output>> BY <1>10 DEF Request
  <2>2. QED BY <1>0, <1>10, <2>1, EventsPhases
<1>11. ASSUME NEW c \in Client, Close(c) PROVE Quiet'
  <2>1. UNCHANGED <<scope, events>> /\ Others(c) /\ sub'[c].page = sub[c].page
    BY <1>0, <1>11, CloseEffect
  <2>2. QED BY <1>0, <2>1 DEF Quiet, Others, events
<1>12. ASSUME NEW c \in Client, Attach(c) PROVE Quiet'
  <2>1. UNCHANGED <<scope, events>> /\ Others(c) /\ sub'[c].page = sub[c].page
    BY <1>0, <1>12, AttachEffect
  <2>2. QED BY <1>0, <2>1 DEF Quiet, Others, events
<1>13. ASSUME NEW c \in Client, Quits(c) \/ Open(c) \/ Opened(c) PROVE Quiet'
  <2>1. UNCHANGED <<scope, events, sub>>
    BY <1>13 DEF Quits, Resume, Detach, Cancel, Open, Opened
  <2>2. QED BY <1>0, <2>1 DEF Quiet, events
<1>14. ASSUME NEW i \in 1..MaxStreams, Pump(i) \/ Deliver(i) PROVE Quiet'
  <2>1. UNCHANGED <<scope, events, sub>> BY <1>14 DEF Pump, Deliver
  <2>2. QED BY <1>0, <2>1 DEF Quiet, events
<1>15. QED
  BY <1>1, <1>2, <1>3, <1>4, <1>5, <1>6, <1>7, <1>8, <1>9, <1>10, <1>11, <1>12, <1>13, <1>14, Steps

LEMMA FileNext == TypeInv /\ Phases /\ OutInv /\ FileInv /\ [Next]_vars => FileInv'
<1> SUFFICES ASSUME TypeInv, Phases, OutInv, FileInv, [Next]_vars, scope' = "file" PROVE SkipInv'
  BY QuietNext DEF FileInv
<1>0. TypeOK /\ Quiet /\ (Session <=> scope # "events") BY DEF TypeInv, Session, FileInv
<1>1. scope = "file"
  <2>1. CASE Produce BY <2>1, ProduceEffect
  <2>2. CASE Store \/ RuntimeEnds \/ Input \/ (\E k \in unsent : Emit(k)) \/ UNCHANGED vars
    BY <2>2 DEF Store, RuntimeEnds, Input, Emit, vars
  <2>3. ASSUME NEW c \in Client, Observing(c) \/ Poll(c) \/ Polled(c) \/ Abort(c) PROVE scope' = scope
    BY <1>0, <2>3, EventsEffect, AbortEffect
  <2>4. ASSUME NEW c \in Client, NEW wide \in BOOLEAN, NEW offset \in BOOLEAN,
               Connect(c) \/ Request(c, wide, offset)
        PROVE  scope' = scope
    BY <2>4 DEF Connect, Request
  <2>5. ASSUME NEW c \in Client, Close(c) \/ Quits(c) \/ Attach(c) PROVE scope' = scope
    BY <2>5 DEF Close, Quits, Resume, Detach, Cancel, Attach
  <2>6. ASSUME NEW c \in Client, Open(c) \/ Opened(c) PROVE scope' = scope
    BY <2>6 DEF Open, Opened
  <2>7. ASSUME NEW i \in 1..MaxStreams, Pump(i) \/ Deliver(i) PROVE scope' = scope
    BY <2>7 DEF Pump, Deliver
  <2>8. QED BY <2>1, <2>2, <2>3, <2>4, <2>5, <2>6, <2>7, Steps
<1>2. Session /\ SkipInv BY <1>0, <1>1 DEF FileInv
<1>3. CASE Store BY <1>1, <1>3 DEF Store
<1>4. CASE Produce BY <1>1, <1>2, <1>4, SkipProduce
<1>5. CASE RuntimeEnds BY <1>1, <1>5 DEF RuntimeEnds
<1>6. CASE Input \/ UNCHANGED vars
  <2>1. UNCHANGED <<chunks, transcript, conn, stream>> BY <1>6 DEF Input, vars, output
  <2>2. QED BY <1>2, <2>1, SkipSame
<1>7. ASSUME NEW k \in unsent, Emit(k) PROVE SkipInv' BY <1>0, <1>2, <1>7 DEF Quiet
<1>8. ASSUME NEW c \in Client, NEW wide \in BOOLEAN, NEW offset \in BOOLEAN,
             Observing(c) \/ Abort(c) \/ Request(c, wide, offset)
      PROVE  SkipInv'
  BY <1>2, <1>8, EventsPhases
<1>9. ASSUME NEW c \in Client, Poll(c) \/ Polled(c) PROVE SkipInv'
  <2>1. UNCHANGED <<chunks, transcript, stream>> /\ Others(c) BY <1>0, <1>9, EventsEffect DEF output
  <2>2. conn'[c].got = conn[c].got /\ conn'[c].seen = conn[c].seen BY <1>0, <1>2, <1>9, QuietEvents
  <2>3. \A d \in Client : conn'[d].got = conn[d].got /\ conn'[d].seen = conn[d].seen
    BY <2>1, <2>2 DEF Others
  <2>4. QED BY <1>2, <2>1, <2>3, SkipSame
<1>10. ASSUME NEW c \in Client, Connect(c) PROVE SkipInv'
  <2>1. UNCHANGED <<chunks, transcript, stream>> BY <1>10 DEF Connect, output
  <2>2. Others(c) /\ conn'[c].got = conn[c].got /\ conn'[c].seen = conn[c].seen
    BY <1>0, <1>2, <1>10, ConnectEffect
  <2>3. \A d \in Client : conn'[d].got = conn[d].got /\ conn'[d].seen = conn[d].seen
    BY <2>2 DEF Others
  <2>4. QED BY <1>2, <2>1, <2>3, SkipSame
<1>11. ASSUME NEW c \in Client, Close(c) PROVE SkipInv'
  <2>1. /\ UNCHANGED <<chunks, transcript>> /\ Others(c)
        /\ conn'[c].got = conn[c].got /\ conn'[c].seen = conn[c].seen
        /\ \A i \in 1..MaxStreams :
             /\ stream'[i].conn = stream[i].conn /\ stream'[i].after = stream[i].after
             /\ stream'[i].read = stream[i].read /\ stream'[i].todo = stream[i].todo
             /\ stream'[i].live = (stream[i].live /\ stream[i].conn # c)
    BY <1>0, <1>11, CloseEffect
  <2>2. \A d \in Client : conn'[d].got = conn[d].got /\ conn'[d].seen = conn[d].seen
    BY <2>1 DEF Others
  <2>3. \A i \in 1..MaxStreams : stream'[i].live => stream[i].live BY <2>1
  <2>4. QED BY <1>2, <2>1, <2>2, <2>3, SkipSame
<1>12. ASSUME NEW c \in Client, Quits(c) PROVE SkipInv'
  <2>1. /\ UNCHANGED <<chunks, transcript>> /\ Others(c)
        /\ conn'[c].got = conn[c].got /\ conn'[c].seen = conn[c].seen
        /\ \A i \in 1..MaxStreams :
             /\ stream'[i].conn = stream[i].conn /\ stream'[i].after = stream[i].after
             /\ stream'[i].read = stream[i].read /\ stream'[i].todo = stream[i].todo
             /\ stream'[i].live = stream[i].live
    BY <1>0, <1>12, QuitsEffect
  <2>2. \A d \in Client : conn'[d].got = conn[d].got /\ conn'[d].seen = conn[d].seen
    BY <2>1 DEF Others
  <2>3. QED BY <1>2, <2>1, <2>2, SkipSame
<1>13. ASSUME NEW c \in Client, Attach(c) PROVE SkipInv'
  <2>1. /\ UNCHANGED <<chunks, transcript, stream>> /\ Others(c)
        /\ conn'[c].got = conn[c].got /\ conn'[c].seen = conn[c].seen
    BY <1>0, <1>13, AttachEffect
  <2>2. \A d \in Client : conn'[d].got = conn[d].got /\ conn'[d].seen = conn[d].seen
    BY <2>1 DEF Others
  <2>3. QED BY <1>2, <2>1, <2>2, SkipSame
<1>14. ASSUME NEW c \in Client, Open(c) PROVE SkipInv' BY <1>2, <1>14, SkipOpen
<1>15. ASSUME NEW c \in Client, Opened(c) PROVE SkipInv'
  <2>1. /\ UNCHANGED <<chunks, transcript>> /\ \A d \in Client : d # c => conn'[d] = conn[d]
        /\ conn'[c].got = conn[c].got /\ conn'[c].seen = conn[c].seen
    BY <1>0, <1>15, OpenedEffect
  <2>2. PICK i \in 1..MaxStreams :
          /\ stream[i].state = "opening" /\ stream[i].conn = c /\ ReadUp(i)
          /\ conn'[c].stream = i /\ stream'[i] = [stream[i] EXCEPT !.state = "open"]
          /\ \A h \in 1..MaxStreams : h # i => stream'[h] = stream[h]
    BY <1>0, <1>15, OpenedEffect
  <2>3. stream[i] \in StreamRecord BY <1>0 DEF TypeOK
  <2>4. /\ stream'[i].conn = stream[i].conn /\ stream'[i].after = stream[i].after
        /\ stream'[i].read = stream[i].read /\ stream'[i].todo = stream[i].todo
        /\ stream'[i].live = stream[i].live
    BY <2>2, <2>3 DEF StreamRecord
  <2>5. \A h \in 1..MaxStreams :
          /\ stream'[h].conn = stream[h].conn /\ stream'[h].after = stream[h].after
          /\ stream'[h].read = stream[h].read /\ stream'[h].todo = stream[h].todo
          /\ stream'[h].live = stream[h].live
    BY <2>2, <2>4
  <2>6. \A d \in Client : conn'[d].got = conn[d].got /\ conn'[d].seen = conn[d].seen BY <2>1
  <2>7. QED BY <1>2, <2>1, <2>5, <2>6, SkipSame
<1>16. ASSUME NEW i \in 1..MaxStreams, Pump(i) \/ Deliver(i) PROVE SkipInv'
  BY <1>1, <1>2, <1>16, SkipPump, SkipDeliver
<1>17. QED
  BY <1>3, <1>4, <1>5, <1>6, <1>7, <1>8, <1>9, <1>10, <1>11, <1>12, <1>13, <1>14, <1>15, <1>16, Steps

\* A client of a file transport has, whatever the history limit and however it
\* disconnects, resumes and shares the transcript with others, every chunk up to
\* the last it saw: first entries are replayed, never last ones.
THEOREM NothingSkipped == Spec => []NoSkip
<1>1. FileInv => NoSkip BY DEF FileInv, SkipInv, Told, NoSkip
<1>2. Init => Phases /\ Owned /\ DropInv /\ FileInv BY PhasesInit, DropInit, FileInit
<1>3. TypeInv /\ Phases /\ Owned /\ DropInv /\ FileInv /\ [Next]_vars
        => Phases' /\ Owned' /\ DropInv' /\ FileInv'
  <2>1. DropInv => OutInv BY DEF DropInv
  <2>2. QED BY <2>1, PhasesNext, DropNext, FileNext
<1>4. QED BY <1>1, <1>2, <1>3, Types, PTL DEF Spec

-----------------------------------------------------------------------------
(* A closed connection leaves nothing behind *)

\* A subscription is on its way to its connection, or in its hands,
Held(i) ==
  /\ stream[i].state = "opening" => conn[stream[i].conn].pc = "opening"
  /\ stream[i].state = "open" => conn[stream[i].conn].stream = i

\* one is on its way at a time,
OneOpening == \A i, h \in 1..MaxStreams :
  stream[i].state = "opening" /\ stream[h].state = "opening" /\ stream[i].conn = stream[h].conn => i = h

\* a connection holds no subscription while it waits for one, and only if it
\* has subscribed,
Kept(c) ==
  /\ ~conn[c].ws => conn[c].pc = "idle" /\ ~sub[c].on
  /\ conn[c].attached \/ conn[c].pc \in {"replay", "opening"} \/ conn[c].stream # 0
       => Session /\ sub[c].on
  /\ conn[c].pc \in {"replay", "opening"} => conn[c].stream = 0

\* and a session counts its clients.
Attached == {c \in Client : conn[c].attached}
Counts == session.open => session.clients = Cardinality(Attached)

HoldInv ==
  /\ \A i \in 1..MaxStreams : Held(i)
  /\ OneOpening /\ (\A c \in Client : Kept(c)) /\ Counts

\* A connection that is closed has no subscription, nor one under way.
LEMMA HoldReleases == TypeInv /\ HoldInv => Released
<1> SUFFICES ASSUME TypeInv, HoldInv PROVE Released OBVIOUS
<1>1. ASSUME NEW c \in Client, ~conn[c].ws
      PROVE  ~sub[c].on /\ \A i \in 1..MaxStreams :
               stream[i].conn = c => stream[i].state \notin {"opening", "open"}
  <2>1. conn[c].pc = "idle" /\ ~sub[c].on /\ conn[c].stream = 0 BY <1>1 DEF HoldInv, Kept
  <2>2. \A i \in 1..MaxStreams : Held(i) /\ i # 0 BY RealtimeAssumption DEF HoldInv
  <2>3. QED BY <2>1, <2>2 DEF Held
<1>2. QED BY <1>1 DEF HoldInv, Counts, Attached, Released

\* The steps that leave connections, and at most close what is open.
LEMMA HoldSame ==
  ASSUME TypeInv, Owned, HoldInv, UNCHANGED <<scope, session>>,
         \A c \in Client :
           /\ conn'[c].ws = conn[c].ws /\ conn'[c].pc = conn[c].pc
           /\ conn'[c].attached = conn[c].attached /\ conn'[c].stream = conn[c].stream
           /\ sub'[c].on = sub[c].on,
         \A i \in 1..MaxStreams :
           stream'[i].conn = stream[i].conn /\ stream'[i].state \in {stream[i].state, "closed"}
  PROVE  HoldInv'
<1>1. \A i \in 1..MaxStreams : stream[i].conn \in Client BY Numbers
<1>2. ASSUME NEW i \in 1..MaxStreams PROVE Held(i)'
  <2>1. Held(i) BY DEF HoldInv
  <2>2. QED BY <1>1, <2>1 DEF Held
<1>3. OneOpening' BY DEF HoldInv, OneOpening
<1>4. \A c \in Client : Kept(c)' BY DEF HoldInv, Kept, Session
<1>5. Attached' = Attached BY DEF Attached
<1>6. Counts' BY <1>5 DEF HoldInv, Counts
<1>7. QED BY <1>2, <1>3, <1>4, <1>6 DEF HoldInv

\* The steps of one connection that open nothing.
LEMMA HoldClient ==
  ASSUME TypeInv, HoldInv, scope' = scope, NEW c \in Client, Kept(c)', Counts',
         \A d \in Client : d # c => conn'[d] = conn[d] /\ sub'[d] = sub[d],
         \A i \in 1..MaxStreams :
           /\ stream'[i].conn = stream[i].conn
           /\ stream'[i].state = "opening" => stream[i].state = "opening"
           /\ stream[i].conn # c => stream'[i].state = stream[i].state
           /\ stream[i].conn = c => Held(i)'
  PROVE  HoldInv'
<1>1. \A i \in 1..MaxStreams : stream[i].conn \in Client BY Numbers
<1>2. ASSUME NEW i \in 1..MaxStreams PROVE Held(i)'
  <2>1. CASE stream[i].conn = c BY <2>1
  <2>2. CASE stream[i].conn # c
    <3>1. Held(i) BY DEF HoldInv
    <3>2. QED BY <1>1, <2>2, <3>1 DEF Held
  <2>3. QED BY <2>1, <2>2
<1>3. OneOpening' BY DEF HoldInv, OneOpening
<1>4. ASSUME NEW d \in Client PROVE Kept(d)'
  <2>1. CASE d = c BY <2>1
  <2>2. CASE d # c
    <3>1. Kept(d) BY DEF HoldInv
    <3>2. QED BY <2>2, <3>1 DEF Kept, Session
  <2>3. QED BY <2>1, <2>2
<1>5. QED BY <1>2, <1>3, <1>4 DEF HoldInv

\* The clients of a session are counted.
LEMMA CountsSame ==
  ASSUME Counts, session' = session, \A c \in Client : conn'[c].attached = conn[c].attached
  PROVE  Counts'
<1>1. Attached' = Attached BY DEF Attached
<1>2. QED BY <1>1 DEF Counts

LEMMA CountsMore ==
  ASSUME TypeInv, Counts, NEW c \in Client, ~conn[c].attached, conn'[c].attached,
         \A d \in Client : d # c => conn'[d] = conn[d],
         session' = [session EXCEPT !.clients = @ + 1]
  PROVE  Counts'
<1>1. Attached' = Attached \cup {c} /\ c \notin Attached BY DEF Attached
<1>2. IsFiniteSet(Client) BY RealtimeAssumption
<1>3. IsFiniteSet(Attached) BY <1>2, FS_Subset DEF Attached
<1>4. Cardinality(Attached') = Cardinality(Attached) + 1 BY <1>1, <1>3, FS_AddElement
<1>5. session \in [open: BOOLEAN, clients: Nat] BY DEF TypeInv, TypeOK
<1>6. session'.open = session.open /\ session'.clients = session.clients + 1 BY <1>5
<1>7. QED BY <1>4, <1>6 DEF Counts

LEMMA CountsLess ==
  ASSUME TypeInv, Counts, NEW c \in Client, conn[c].attached, ~conn'[c].attached,
         \A d \in Client : d # c => conn'[d] = conn[d],
         session' = Detached(1)
  PROVE  Counts'
<1>1. Attached' = Attached \ {c} /\ c \in Attached BY DEF Attached
<1>2. IsFiniteSet(Client) BY RealtimeAssumption
<1>3. IsFiniteSet(Attached) BY <1>2, FS_Subset DEF Attached
<1>4. Cardinality(Attached') = Cardinality(Attached) - 1 BY <1>1, <1>3, FS_RemoveElement
<1>5. Cardinality(Attached') \in Nat /\ Cardinality(Attached) \in Nat
  <2>1. IsFiniteSet(Attached') BY <1>1, <1>3, FS_Subset
  <2>2. QED BY <1>3, <2>1, FS_CardinalityType
<1>6. /\ session'.open = session.open
      /\ session'.clients = IF session.clients = 0 THEN 0 ELSE session.clients - 1
  BY DetachedFields
<1>7. SUFFICES ASSUME session'.open PROVE session'.clients = Cardinality(Attached') BY DEF Counts
<1>8. session.clients = Cardinality(Attached) BY <1>6, <1>7 DEF Counts
<1>9. session.clients # 0 BY <1>4, <1>5, <1>8
<1>10. QED BY <1>4, <1>6, <1>8, <1>9

LEMMA HoldInit == Init => HoldInv
<1> SUFFICES ASSUME Init PROVE HoldInv OBVIOUS
<1>1. /\ \A c \in Client : conn[c] = NoConn /\ sub[c] = NoSub
      /\ \A i \in 1..MaxStreams : stream[i] = NoStream
      /\ session = [open |-> TRUE, clients |-> 0]
  BY DEF Init
<1>2. NoStream.state = "free" BY DEF NoStream
<1>3. \A i \in 1..MaxStreams : Held(i) BY <1>1, <1>2 DEF Held
<1>4. OneOpening BY <1>1, <1>2 DEF OneOpening
<1>5. \A c \in Client : Kept(c) BY <1>1, NoConnFields DEF Kept
<1>6. Attached = {} BY <1>1, NoConnFields DEF Attached
<1>7. Cardinality(Attached) = 0 BY <1>6, FS_EmptySet
<1>8. Counts BY <1>1, <1>7 DEF Counts
<1>9. QED BY <1>3, <1>4, <1>5, <1>8 DEF HoldInv

\* A connection of a job's events has no part in a session.
LEMMA HoldApart ==
  ASSUME TypeInv, HoldInv, Phases, ~Session, NEW c \in Client
  PROVE  /\ ~conn[c].attached /\ conn[c].stream = 0 /\ conn[c].pc \notin {"replay", "opening"}
         /\ \A i \in 1..MaxStreams :
              stream[i].conn = c => stream[i].state \notin {"opening", "open"}
<1>1. /\ ~conn[c].attached /\ conn[c].stream = 0 /\ conn[c].pc \notin {"replay", "opening"}
  BY DEF HoldInv, Kept
<1>2. \A i \in 1..MaxStreams : Held(i) /\ i # 0 BY RealtimeAssumption DEF HoldInv
<1>3. QED BY <1>1, <1>2 DEF Held

LEMMA HoldEvents ==
  ASSUME TypeInv, Phases, HoldInv, NEW c \in Client,
         \/ Observing(c) \/ Abort(c) \/ Connect(c)
         \/ \E wide, offset \in BOOLEAN : Request(c, wide, offset)
  PROVE  HoldInv'
<1>0. TypeOK /\ Kept(c) /\ Counts BY DEF TypeInv, HoldInv
<1>1. UNCHANGED <<scope, stream, session>>
  BY <1>0, AbortEffect, EventsEffect DEF Connect, Request, output
<1>2. ASSUME ~Session, Others(c), ~conn'[c].attached, conn'[c].stream = 0,
             conn'[c].pc \notin {"replay", "opening"},
             ~conn'[c].ws => conn'[c].pc = "idle" /\ ~sub'[c].on
      PROVE  HoldInv'
  <2>1. Kept(c)' BY <1>2 DEF Kept
  <2>2. Counts'
    <3>1. \A d \in Client : conn'[d].attached = conn[d].attached
      <4>1. conn'[c].attached = conn[c].attached
        <5>1. ~conn[c].attached BY <1>2, HoldApart
        <5>2. conn[c].attached \in BOOLEAN /\ conn'[c].attached \in BOOLEAN
          <6>1. conn'[c] \in ConnRecord /\ conn[c] \in ConnRecord
            BY <1>0, EventsEffect, AbortEffect, ConnectEffect, RequestEffect DEF TypeOK
          <6>2. QED BY <6>1 DEF ConnRecord
        <5>3. QED BY <1>2, <5>1, <5>2
      <4>2. QED BY <1>2, <4>1 DEF Others
    <3>2. QED BY <1>0, <1>1, <3>1, CountsSame
  <2>3. \A i \in 1..MaxStreams : stream[i].conn = c => Held(i)'
    <3>1. \A i \in 1..MaxStreams : stream[i].conn = c => stream[i].state \notin {"opening", "open"}
      BY <1>2, HoldApart
    <3>2. QED BY <1>1, <3>1 DEF Held
  <2>4. QED BY <1>1, <1>2, <2>1, <2>2, <2>3, HoldClient DEF Others
<1>3. CASE Observing(c)
  <2>1. /\ Others(c) /\ conn'[c].ws = conn[c].ws /\ conn'[c].attached = conn[c].attached
        /\ conn'[c].stream = conn[c].stream
        /\ conn'[c].pc # conn[c].pc => conn'[c].pc \in {"idle", "subscribing", "writing"}
        /\ conn'[c].pc # conn[c].pc \/ sub'[c].on # sub[c].on => conn[c].ws \/ conn[c].pc # "idle"
    BY <1>0, <1>3, EventsEffect
  <2>2. ~Session BY <1>3, EventsPhases
  <2>3. ~conn[c].attached /\ conn[c].stream = 0 /\ conn[c].pc \notin {"replay", "opening"}
    BY <2>2, HoldApart
  <2>4. ~conn'[c].ws => conn'[c].pc = "idle" /\ ~sub'[c].on
    <3>1. ~conn[c].ws => conn[c].pc = "idle" /\ ~sub[c].on BY <1>0 DEF Kept
    <3>2. SUFFICES ASSUME ~conn[c].ws PROVE conn'[c].pc = "idle" /\ ~sub'[c].on BY <2>1
    <3>3. conn'[c].pc = conn[c].pc /\ sub'[c].on = sub[c].on BY <2>1, <3>1, <3>2
    <3>4. QED BY <3>1, <3>2, <3>3
  <2>5. QED BY <1>2, <2>1, <2>2, <2>3, <2>4
<1>4. CASE Abort(c)
  <2>1. /\ Others(c) /\ ~conn'[c].ws /\ conn'[c].pc = "idle" /\ ~sub'[c].on
        /\ conn'[c].attached = conn[c].attached /\ conn'[c].stream = conn[c].stream
    BY <1>0, <1>4, AbortEffect
  <2>2. ~Session BY <1>4, EventsPhases
  <2>3. ~conn[c].attached /\ conn[c].stream = 0 BY <2>2, HoldApart
  <2>4. QED BY <1>2, <2>1, <2>2, <2>3
<1>5. ASSUME NEW wide \in BOOLEAN, NEW offset \in BOOLEAN, Request(c, wide, offset)
      PROVE  HoldInv'
  <2>1. /\ Others(c) /\ conn'[c].ws /\ conn'[c].pc = "requested" /\ ~conn'[c].attached
        /\ conn'[c].stream = 0
    BY <1>0, <1>5, RequestEffect
  <2>2. ~Session BY <1>5, EventsPhases
  <2>3. QED BY <1>2, <2>1, <2>2
<1>6. CASE Connect(c)
  <2>1. /\ Others(c) /\ conn'[c].ws /\ conn'[c].pc = "idle" /\ ~conn'[c].attached
        /\ conn'[c].stream = 0
    BY <1>0, <1>6, ConnectEffect
  <2>2. ~conn[c].ws /\ conn[c].pc = "idle" /\ ~sub[c].on BY <1>6 DEF Connect, Free
  <2>3. ~conn[c].attached /\ conn[c].stream = 0 BY <1>0, <2>2 DEF Kept
  <2>4. Kept(c)' BY <2>1 DEF Kept
  <2>5. \A d \in Client : conn'[d].attached = conn[d].attached
    <3>1. conn'[c].attached \in BOOLEAN /\ conn[c].attached \in BOOLEAN
      <4>1. conn'[c] \in ConnRecord /\ conn[c] \in ConnRecord
        BY <1>0, <1>6, ConnectEffect DEF TypeOK
      <4>2. QED BY <4>1 DEF ConnRecord
    <3>2. QED BY <2>1, <2>3, <3>1 DEF Others
  <2>6. Counts' BY <1>0, <1>1, <2>5, CountsSame
  <2>7. ASSUME NEW i \in 1..MaxStreams, stream[i].conn = c PROVE Held(i)'
    <3>1. Held(i) /\ i # 0 BY RealtimeAssumption DEF HoldInv
    <3>2. stream[i].state \notin {"opening", "open"} BY <2>2, <2>3, <2>7, <3>1 DEF Held
    <3>3. QED BY <1>1, <3>2 DEF Held
  <2>8. QED BY <1>1, <2>1, <2>4, <2>6, <2>7, HoldClient DEF Others
<1>7. QED BY <1>3, <1>4, <1>5, <1>6

LEMMA HoldQuits ==
  ASSUME TypeInv, Owned, HoldInv, ~Hasty, NEW c \in Client, Close(c) \/ Quits(c)
  PROVE  HoldInv'
<1>0. /\ TypeOK /\ Kept(c) /\ Counts
      /\ \A i \in 1..MaxStreams : Held(i) /\ i # 0
      /\ stream \in [1..MaxStreams -> StreamRecord]
  BY RealtimeAssumption DEF TypeInv, HoldInv, TypeOK
<1>1. CASE Close(c)
  <2>1. /\ scope' = scope /\ Others(c) /\ conn[c].pc = "idle" /\ conn'[c].pc = conn[c].pc
        /\ ~conn'[c].ws /\ ~conn'[c].attached /\ conn'[c].stream = 0 /\ ~sub'[c].on
        /\ \A i \in 1..MaxStreams :
             /\ stream'[i].conn = stream[i].conn
             /\ stream'[i].state = IF stream[i].conn = c /\ conn[c].stream = i THEN "closed"
                                   ELSE stream[i].state
    BY <1>0, <1>1, CloseEffect
  <2>2. Kept(c)' BY <2>1 DEF Kept
  <2>3. Counts'
    <3>1. CASE session.open /\ conn[c].attached
      <4>1. session' = Detached(1) BY <1>1, <3>1 DEF Close
      <4>2. QED BY <1>0, <2>1, <3>1, <4>1, CountsLess DEF Others
    <3>2. CASE ~(session.open /\ conn[c].attached)
      <4>1. session' = Detached(0) BY <1>1, <3>2 DEF Close
      <4>2. /\ session'.open = session.open
            /\ session'.clients = IF session.clients = 0 THEN 0 ELSE session.clients - 0
        BY <4>1, DetachedFields
      <4>3. session.clients \in Nat BY <1>0 DEF TypeOK
      <4>4. session'.clients = session.clients BY <4>2, <4>3
      <4>5. session.open => Attached' = Attached BY <2>1, <3>2 DEF Attached, Others
      <4>6. QED BY <1>0, <4>2, <4>4, <4>5 DEF Counts
    <3>3. QED BY <3>1, <3>2
  <2>4. ASSUME NEW i \in 1..MaxStreams, stream[i].conn = c PROVE Held(i)'
    <3>1. stream[i].state # "opening" /\ (stream[i].state = "open" => conn[c].stream = i)
      BY <1>0, <2>1, <2>4 DEF Held
    <3>2. stream'[i].state \notin {"opening", "open"} BY <2>1, <2>4, <3>1
    <3>3. QED BY <3>2 DEF Held
  <2>5. \A i \in 1..MaxStreams :
          /\ stream'[i].conn = stream[i].conn
          /\ stream'[i].state = "opening" => stream[i].state = "opening"
          /\ stream[i].conn # c => stream'[i].state = stream[i].state
    BY <2>1
  <2>6. QED BY <2>1, <2>2, <2>3, <2>4, <2>5, HoldClient DEF Others
<1>2. CASE Quits(c)
  <2>1. /\ UNCHANGED <<scope, sub>> /\ Others(c) /\ conn[c].pc = "idle" /\ Session
        /\ conn'[c].ws /\ conn'[c].pc = (IF Resume(c) THEN "replay" ELSE "idle")
        /\ conn'[c].stream = 0 /\ conn'[c].attached => conn[c].attached
        /\ \A i \in 1..MaxStreams :
             /\ stream'[i].conn = stream[i].conn
             /\ stream'[i].state = IF conn[c].stream = i THEN "closed" ELSE stream[i].state
    BY <1>0, <1>2, QuitsEffect
  <2>2. Kept(c)'
    <3>1. conn'[c].attached => sub[c].on BY <1>0, <1>2, QuitsEffect DEF Kept
    <3>2. conn'[c].pc \in {"replay", "opening"} => sub[c].on
      <4>1. CASE Resume(c) BY <4>1 DEF Resume
      <4>2. CASE ~Resume(c) BY <2>1, <4>2
      <4>3. QED BY <4>1, <4>2
    <3>3. conn'[c].stream = 0 /\ conn'[c].ws /\ Session' BY <1>0, <1>2, <2>1, QuitsEffect DEF Session
    <3>4. sub'[c].on = sub[c].on BY <2>1
    <3>5. QED BY <3>1, <3>2, <3>3, <3>4 DEF Kept
  <2>3. Counts'
    <3>1. CASE Resume(c)
      <4>1. conn' = [conn EXCEPT ![c].pc = "replay", ![c].stream = 0] /\ session' = session
        BY <3>1 DEF Resume
      <4>2. \A d \in Client : conn'[d].attached = conn[d].attached
        BY <1>0, <4>1 DEF TypeOK, ConnRecord
      <4>3. QED BY <1>0, <4>1, <4>2, CountsSame
    <3>2. CASE Detach(c) /\ session.open
      <4>1. conn[c].attached /\ session' = Detached(1) BY <3>2 DEF Detach
      <4>2. PICK b \in BOOLEAN : ~b /\ conn' = [conn EXCEPT ![c].attached = b, ![c].stream = 0]
        <5>0. PICK n : n = 1 OBVIOUS
        <5>1. conn' = [conn EXCEPT ![c].attached = @ /\ n = 0, ![c].stream = 0]
          BY <3>2, <5>0 DEF Detach
        <5>2. PICK b : b = (conn[c].attached /\ n = 0) OBVIOUS
        <5>3. b \in BOOLEAN /\ ~b
          <6>1. n # 0 BY <5>0
          <6>2. QED BY <5>2, <6>1
        <5>4. conn' = [conn EXCEPT ![c].attached = b, ![c].stream = 0]
          BY <1>0, <5>1, <5>2 DEF TypeOK
        <5>5. QED BY <5>3, <5>4
      <4>3. ~conn'[c].attached BY <1>0, <4>2 DEF TypeOK, ConnRecord
      <4>4. QED BY <1>0, <2>1, <4>1, <4>3, CountsLess DEF Others
    <3>3. CASE Detach(c) /\ ~session.open
      <4>1. session' = Detached(0) BY <3>3 DEF Detach
      <4>2. session'.open = session.open BY <4>1, DetachedFields
      <4>3. QED BY <3>3, <4>2 DEF Counts
    <3>4. CASE Cancel(c) BY <3>4 DEF Cancel, Counts
    <3>5. QED BY <1>2, <3>1, <3>2, <3>3, <3>4 DEF Quits
  <2>4. ASSUME NEW i \in 1..MaxStreams, stream[i].conn = c PROVE Held(i)'
    <3>1. stream[i].state # "opening" /\ (stream[i].state = "open" => conn[c].stream = i)
      BY <1>0, <2>1, <2>4 DEF Held
    <3>2. stream'[i].state \notin {"opening", "open"} BY <2>1, <3>1
    <3>3. QED BY <3>2 DEF Held
  <2>5. \A i \in 1..MaxStreams :
          /\ stream'[i].conn = stream[i].conn
          /\ stream'[i].state = "opening" => stream[i].state = "opening"
          /\ stream[i].conn # c => stream'[i].state = stream[i].state
    BY <2>1 DEF Owned
  <2>6. \A d \in Client : d # c => conn'[d] = conn[d] /\ sub'[d] = sub[d] BY <2>1 DEF Others
  <2>7. scope' = scope BY <2>1
  <2>8. QED BY <2>2, <2>3, <2>4, <2>5, <2>6, <2>7, HoldClient
<1>3. QED BY <1>1, <1>2

LEMMA HoldOpens ==
  ASSUME TypeInv, Phases, Owned, HoldInv, NEW c \in Client, Attach(c) \/ Open(c) \/ Opened(c)
  PROVE  HoldInv'
<1>0. /\ TypeOK /\ Kept(c) /\ Counts
      /\ \A i \in 1..MaxStreams : Held(i) /\ i # 0
      /\ stream \in [1..MaxStreams -> StreamRecord]
  BY RealtimeAssumption DEF TypeInv, HoldInv, TypeOK
<1>1. CASE Attach(c)
  <2>1. /\ scope' = scope /\ stream' = stream /\ Others(c) /\ Session /\ conn[c].pc = "idle"
        /\ ~sub[c].on /\ conn'[c].ws /\ conn'[c].attached /\ conn'[c].pc = "replay"
        /\ conn'[c].stream = conn[c].stream /\ sub'[c].on
        /\ session' = [session EXCEPT !.clients = @ + 1]
    BY <1>0, <1>1, AttachEffect
  <2>2. conn[c].stream = 0 /\ ~conn[c].attached BY <1>0, <2>1 DEF Kept
  <2>3. Kept(c)' BY <2>1, <2>2 DEF Kept, Session
  <2>4. Counts' BY <1>0, <2>1, <2>2, CountsMore DEF Others
  <2>5. ASSUME NEW i \in 1..MaxStreams, stream[i].conn = c PROVE Held(i)'
    <3>1. stream[i].state \notin {"opening", "open"} BY <1>0, <2>1, <2>2, <2>5 DEF Held
    <3>2. QED BY <2>1, <3>1 DEF Held
  <2>6. QED BY <2>1, <2>3, <2>4, <2>5, HoldClient DEF Others
<1>2. CASE Open(c)
  <2>1. /\ UNCHANGED <<scope, session, sub>> /\ \A d \in Client : d # c => conn'[d] = conn[d]
        /\ conn[c].pc = "replay" /\ conn'[c].ws = conn[c].ws
        /\ conn'[c].pc = IF session.open THEN "opening" ELSE "idle"
        /\ conn'[c].attached = conn[c].attached /\ conn'[c].stream = conn[c].stream
    BY <1>2, OpenEffect
  <2>2. conn[c].ws /\ conn[c].stream = 0 /\ Session /\ sub[c].on BY <1>0, <2>1 DEF Kept
  <2>3. Kept(c)' BY <2>1, <2>2 DEF Kept, Session
  <2>4. \A d \in Client : conn'[d].attached = conn[d].attached BY <2>1
  <2>5. Counts' BY <1>0, <2>1, <2>4, CountsSame
  <2>6. \A h \in 1..MaxStreams : stream[h].conn = c => stream[h].state \notin {"opening", "open"}
    BY <1>0, <2>1, <2>2 DEF Held
  <2>7. CASE stream' = stream
    <3>1. \A h \in 1..MaxStreams : stream[h].conn = c => Held(h)' BY <2>6, <2>7 DEF Held
    <3>2. QED BY <2>1, <2>3, <2>5, <2>7, <3>1, HoldClient
  <2>8. CASE stream' # stream
    <3>1. PICK i \in 1..MaxStreams :
            /\ stream[i].state = "free"
            /\ \A h \in 1..MaxStreams : h # i => stream'[h] = stream[h]
            /\ stream'[i].state = "opening" /\ stream'[i].conn = c
            /\ stream'[i].live = conn[c].ws /\ stream'[i].after = After(c)
            /\ stream'[i].read = 0 /\ stream'[i].todo = {}
      BY <1>2, <2>8, OpenEffect
    <3>2. session.open BY <1>2, <2>8, OpenEffect
    <3>3. Held(i)' BY <2>1, <3>1, <3>2 DEF Held
    <3>4. ASSUME NEW h \in 1..MaxStreams, h # i PROVE Held(h)'
      <4>1. Held(h) /\ stream'[h] = stream[h] /\ stream[h].conn \in Client BY <1>0, <3>1, <3>4, Numbers
      <4>2. CASE stream[h].conn = c BY <2>6, <4>1, <4>2 DEF Held
      <4>3. CASE stream[h].conn # c BY <2>1, <4>1, <4>3 DEF Held
      <4>4. QED BY <4>2, <4>3
    <3>5. OneOpening'
      <4>1. SUFFICES ASSUME NEW g \in 1..MaxStreams, NEW h \in 1..MaxStreams,
                            stream'[g].state = "opening", stream'[h].state = "opening",
                            stream'[g].conn = stream'[h].conn
                     PROVE  g = h
        BY DEF OneOpening
      <4>2. CASE g # i /\ h # i BY <3>1, <4>1, <4>2 DEF HoldInv, OneOpening
      <4>3. CASE g = i /\ h # i BY <2>6, <3>1, <4>1, <4>3
      <4>4. CASE g # i /\ h = i BY <2>6, <3>1, <4>1, <4>4
      <4>5. QED BY <4>2, <4>3, <4>4
    <3>6. ASSUME NEW d \in Client PROVE Kept(d)'
      <4>1. CASE d = c BY <2>3, <4>1
      <4>2. CASE d # c
        <5>1. Kept(d) BY DEF HoldInv
        <5>2. QED BY <2>1, <4>2, <5>1 DEF Kept, Session
      <4>3. QED BY <4>1, <4>2
    <3>7. QED BY <2>5, <3>3, <3>4, <3>5, <3>6 DEF HoldInv
  <2>9. QED BY <2>7, <2>8
<1>3. CASE Opened(c)
  <2>1. /\ UNCHANGED <<scope, session, sub>> /\ \A d \in Client : d # c => conn'[d] = conn[d]
        /\ conn[c].pc = "opening" /\ conn'[c].pc = "idle" /\ conn'[c].ws = conn[c].ws
        /\ conn'[c].attached = conn[c].attached
    BY <1>0, <1>3, OpenedEffect
  <2>2. PICK i \in 1..MaxStreams :
          /\ stream[i].state = "opening" /\ stream[i].conn = c /\ ReadUp(i)
          /\ conn'[c].stream = i /\ stream'[i] = [stream[i] EXCEPT !.state = "open"]
          /\ \A h \in 1..MaxStreams : h # i => stream'[h] = stream[h]
    BY <1>0, <1>3, OpenedEffect
  <2>3. stream'[i].state = "open" /\ stream'[i].conn = c BY <1>0, <2>2 DEF StreamRecord
  <2>4. conn[c].ws /\ conn[c].stream = 0 /\ Session /\ sub[c].on BY <1>0, <2>1 DEF Kept
  <2>5. Kept(c)' BY <2>1, <2>4 DEF Kept, Session
  <2>6. \A d \in Client : conn'[d].attached = conn[d].attached BY <2>1
  <2>7. Counts' BY <1>0, <2>1, <2>6, CountsSame
  <2>8. ASSUME NEW h \in 1..MaxStreams, stream[h].conn = c PROVE Held(h)'
    <3>1. CASE h = i BY <2>2, <2>3, <3>1 DEF Held
    <3>2. CASE h # i
      <4>1. stream'[h] = stream[h] BY <2>2, <3>2
      <4>2. stream[h].state # "opening" BY <2>2, <2>8, <3>2 DEF HoldInv, OneOpening
      <4>3. stream[h].state # "open" BY <1>0, <2>4, <2>8 DEF Held
      <4>4. QED BY <4>1, <4>2, <4>3 DEF Held
    <3>3. QED BY <3>1, <3>2
  <2>9. \A h \in 1..MaxStreams :
          /\ stream'[h].conn = stream[h].conn
          /\ stream'[h].state = "opening" => stream[h].state = "opening"
          /\ stream[h].conn # c => stream'[h].state = stream[h].state
    BY <2>2, <2>3
  <2>10. QED BY <2>1, <2>5, <2>7, <2>8, <2>9, HoldClient
<1>4. QED BY <1>1, <1>2, <1>3

LEMMA HoldNext == TypeInv /\ Phases /\ Owned /\ HoldInv /\ ~Hasty /\ [Next]_vars => HoldInv'
<1> SUFFICES ASSUME TypeInv, Phases, Owned, HoldInv, ~Hasty, [Next]_vars PROVE HoldInv' OBVIOUS
<1>0. TypeOK BY DEF TypeInv
<1>1. CASE Store \/ Input \/ UNCHANGED vars
  <2>1. UNCHANGED <<scope, session, stream, conn, sub>> BY <1>1 DEF Store, Input, vars, output
  <2>2. QED BY <2>1, HoldSame
<1>2. CASE Produce
  <2>1. UNCHANGED <<scope, session, conn, sub>> BY <1>2, ProduceEffect
  <2>2. \A i \in 1..MaxStreams : stream'[i].conn = stream[i].conn /\ stream'[i].state = stream[i].state
    BY <1>2, ProduceStates
  <2>3. QED BY <2>1, <2>2, HoldSame
<1>3. CASE RuntimeEnds
  <2>1. /\ UNCHANGED <<scope, session, conn, sub>>
        /\ \A i \in 1..MaxStreams :
             /\ stream'[i].conn = stream[i].conn
             /\ stream'[i].state = IF stream[i].state = "open" THEN "closed" ELSE stream[i].state
    BY <1>0, <1>3, RuntimeEndsEffect
  <2>2. QED BY <2>1, HoldSame
<1>4. ASSUME NEW k \in unsent, Emit(k) PROVE HoldInv'
  <2>1. /\ UNCHANGED <<scope, session, stream, sub>>
        /\ \A c \in Client : /\ conn'[c].ws = conn[c].ws /\ conn'[c].attached = conn[c].attached
                             /\ conn'[c].stream = conn[c].stream /\ conn'[c].pc = conn[c].pc
    BY <1>0, <1>4, EmitEffect DEF output
  <2>2. QED BY <2>1, HoldSame
<1>5. ASSUME NEW c \in Client, Poll(c) \/ Polled(c) PROVE HoldInv'
  <2>1. CASE Observing(c) BY <2>1, HoldEvents
  <2>2. CASE ~Observing(c)
    <3>1. /\ UNCHANGED <<scope, session, stream>> /\ Others(c)
          /\ conn'[c].ws = conn[c].ws /\ conn'[c].attached = conn[c].attached
          /\ conn'[c].stream = conn[c].stream
          /\ conn'[c].pc = conn[c].pc /\ sub'[c].on = sub[c].on
      BY <1>0, <1>5, <2>2, EventsEffect DEF output
    <3>2. \A d \in Client :
            /\ conn'[d].ws = conn[d].ws /\ conn'[d].pc = conn[d].pc
            /\ conn'[d].attached = conn[d].attached /\ conn'[d].stream = conn[d].stream
            /\ sub'[d].on = sub[d].on
      BY <3>1 DEF Others
    <3>3. QED BY <3>1, <3>2, HoldSame
  <2>3. QED BY <2>1, <2>2
<1>6. ASSUME NEW c \in Client,
             \/ Observing(c) \/ Abort(c) \/ Connect(c)
             \/ \E wide, offset \in BOOLEAN : Request(c, wide, offset)
      PROVE  HoldInv'
  BY <1>6, HoldEvents
<1>7. ASSUME NEW c \in Client, Close(c) \/ Quits(c) PROVE HoldInv' BY <1>7, HoldQuits
<1>8. ASSUME NEW c \in Client, Attach(c) \/ Open(c) \/ Opened(c) PROVE HoldInv' BY <1>8, HoldOpens
<1>9. ASSUME NEW i \in 1..MaxStreams, Pump(i) \/ Deliver(i) PROVE HoldInv'
  <2>1. UNCHANGED <<scope, session, sub>> BY <1>9 DEF Pump, Deliver
  <2>2. /\ \A c \in Client : /\ conn'[c].ws = conn[c].ws /\ conn'[c].pc = conn[c].pc
                             /\ conn'[c].attached = conn[c].attached
                             /\ conn'[c].stream = conn[c].stream
        /\ \A h \in 1..MaxStreams : stream'[h].conn = stream[h].conn /\ stream'[h].state = stream[h].state
    <3>1. CASE Pump(i) BY <3>1, PumpEffect DEF Sole
    <3>2. CASE Deliver(i)
      <4>1. /\ Sole(i)
            /\ stream'[i].state = stream[i].state /\ stream'[i].conn = stream[i].conn
        BY <3>2, DeliverEffect
      <4>2. \A c \in Client : conn'[c] = conn[c] \/ \E k \in stream[i].todo : Saw(conn[c], {k}, conn'[c])
        BY <3>2, DeliverEffect
      <4>3. QED BY <4>1, <4>2 DEF Sole, Saw
    <3>3. QED BY <1>9, <3>1, <3>2
  <2>3. QED BY <2>1, <2>2, HoldSame
<1>10. QED BY <1>1, <1>2, <1>3, <1>4, <1>5, <1>6, <1>7, <1>8, <1>9, Steps

\* Where clients neither close while a message is handled nor resume before they
\* subscribe, a closed connection leaves neither a subscription to the event
\* stream nor one of output, and the session's count of clients is right.
THEOREM AllReleased ==
  ASSUME ~Hasty
  PROVE  Spec => []Released
<1>1. Init => Phases /\ Owned /\ HoldInv BY PhasesInit, HoldInit
<1>2. TypeInv /\ Phases /\ Owned /\ HoldInv /\ [Next]_vars => Phases' /\ Owned' /\ HoldInv'
  BY PhasesNext, HoldNext
<1>3. TypeInv /\ HoldInv => Released BY HoldReleases
<1>4. QED BY <1>1, <1>2, <1>3, Types, PTL DEF Spec
=============================================================================
