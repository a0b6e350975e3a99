------------------------------ MODULE KeyProofs ------------------------------
(***************************************************************************)
(* Proofs about KeyExchange, for any peers, any number of connections of     *)
(* each, any number of epochs, and peers that come back before their old     *)
(* channel has removed their key.                                            *)
(***************************************************************************)
EXTENDS KeyExchange, KeySessionProofs, TLAPS

-----------------------------------------------------------------------------
(* Sequences, partial functions and bags.                                   *)
LEMMA AppendLast ==
    ASSUME NEW S, NEW s \in Seq(S), NEW x \in S
    PROVE  /\ Append(s, x) \in Seq(S) /\ DOMAIN Append(s, x) = 1..(Len(s) + 1)
           /\ Append(s, x)[Len(s) + 1] = x /\ Len(s) \in Nat /\ DOMAIN s = 1..Len(s)
           /\ \A i \in 1..Len(s) : Append(s, x)[i] = s[i]
OBVIOUS

LEMMA TailRest ==
    ASSUME NEW S, NEW s \in Seq(S), s # <<>>
    PROVE  /\ Tail(s) \in Seq(S) /\ DOMAIN Tail(s) = 1..(Len(s) - 1) /\ Len(s) \in Nat \ {0}
           /\ 1 \in DOMAIN s /\ Head(s) = s[1] /\ Head(s) \in S
           /\ \A i \in DOMAIN Tail(s) : i + 1 \in DOMAIN s /\ i + 1 # 1 /\ Tail(s)[i] = s[i + 1]
OBVIOUS

LEMMA EmptySeq == ASSUME NEW S PROVE <<>> \in Seq(S) /\ DOMAIN <<>> = {}
OBVIOUS

LEMMA Partial ==
    ASSUME NEW A, NEW B, NEW f
    PROVE  f \in PartialFunctions(A, B) <=> DOMAIN f \subseteq A /\ f \in [DOMAIN f -> B]
BY DEF PartialFunctions

LEMMA PartialIntro ==
    ASSUME NEW A, NEW B, NEW f, f = [x \in DOMAIN f |-> f[x]], DOMAIN f \subseteq A,
           \A x \in DOMAIN f : f[x] \in B
    PROVE  f \in PartialFunctions(A, B)
BY Partial

LEMMA NothingPartial ==
    ASSUME NEW A, NEW B
    PROVE  Nothing \in PartialFunctions(A, B) /\ DOMAIN Nothing = {}
BY Partial DEF Nothing

LEMMA BagMembers ==
    ASSUME NEW S, NEW B \in PartialFunctions(S, Int), NEW x \in S
    PROVE  /\ BagAdd(B, x) \in PartialFunctions(S, Int)
           /\ DOMAIN BagAdd(B, x) = DOMAIN B \cup {x}
           /\ BagRemove(B, x) \in PartialFunctions(S, Int)
           /\ DOMAIN BagRemove(B, x) \subseteq DOMAIN B
<1>. DOMAIN B \subseteq S /\ B \in [DOMAIN B -> Int] BY Partial
<1>1. BagAdd(B, x) \in [DOMAIN B \cup {x} -> Int] BY DEF BagAdd
<1>2. /\ BagRemove(B, x) \in [DOMAIN BagRemove(B, x) -> Int]
      /\ DOMAIN BagRemove(B, x) \subseteq DOMAIN B
  BY DEF BagRemove
<1>. QED BY <1>1, <1>2, Partial

-----------------------------------------------------------------------------
(* Types.                                                                   *)
Lives == PartialFunctions(Peers, 1..MaxLives)
Statuses == {"registering", "awaiting", "ready", "failed"}
Session ==
    [id : Peers, life : 0..MaxLives, status : Statuses, epoch : Epochs, set : Lives,
     key : Keys \cup {NoKey}, leaderKey : Keys \cup {NoKey}, sealedSent : SUBSET Peers]
Whys == {"start", "set", "ahead", "unknown"}
Calls == {"register", "keyset", "publish"}
Tasks ==
    [at : Calls \cup {"open", "over"}, why : Whys, blob : Blobs \cup {NoBlob},
     key : Keys \cup {NoKey}, to : Peers \cup {0}, life : 0..MaxLives, rest : Lives]
Stages == {"read", "set", "blob", "reply"}
Requests == [task : Tasks, stage : Stages, ok : BOOLEAN, epoch : Epochs, set : Lives]
Messages ==
    [kind : {"set"}, body : [epoch : Epochs, set : Lives]] \cup [kind : {"blob"}, body : Blobs]
    \cup [kind : {"reply"}, body : Requests]

Types ==
    /\ open \in BOOLEAN /\ epoch \in Epochs /\ pubs \in Lives
    /\ sealed \in PartialFunctions(Peers, Blobs)
    /\ at \in [Peers -> {"out", "in", "closing"}] /\ tearing \subseteq Peers \X (1..MaxLives)
    /\ lives \in [Peers -> 0..MaxLives] /\ sess \in [Peers -> Session]
    /\ work \in [Peers -> PartialFunctions(Tasks, Int)] /\ chan \in [Peers -> Seq(Tasks)]
    /\ busy \in [Peers -> Requests \cup {NoTask}] /\ down \in [Peers -> Seq(Messages)]
    /\ accepted \subseteq Blobs /\ past \in [Peers -> SUBSET Blobs]
-----------------------------------------------------------------------------
(* What the clients and their channels hold is sound.                        *)

\* The present connection of q has registered, or tried to.
Enrolled(q) == \A i \in DOMAIN chan[q] : chan[q][i].at # "register"
\* A life that a key set may name.
Known(q, l) == q \in Peers /\ l \in 1..lives[q] /\ (l = lives[q] => Enrolled(q))
KnownSet(f) == f \in Lives /\ \A q \in DOMAIN f : Known(q, f[q])
KeyBy(p, life, e) == [by |-> p, life |-> life, epoch |-> e, n |-> 0]
OwnKey(p, k) == \E e \in Epochs : k = KeyBy(p, lives[p], e)
Given(p, b) == b \in accepted /\ b.to = p
SealedBy(p, t) ==
    [from |-> p, life |-> lives[p], to |-> t.to, toLife |-> t.life, epoch |-> t.key.epoch,
     key |-> t.key]

\* Task t of the session of p.
TaskOK(p, t) ==
    /\ t \in Tasks
    /\ t.at = "open" \/ t.why \in {"ahead", "unknown"} => Given(p, t.blob)
    /\ t.at = "publish" => /\ OwnKey(p, t.key) /\ t.to \in Peers \ {p}
                           /\ Known(t.to, t.life) /\ KnownSet(t.rest)
CallOK(p, t) == TaskOK(p, t) /\ t.at \in Calls
\* Request b at the channel of p.
RequestOK(p, b) ==
    /\ b \in Requests /\ CallOK(p, b.task) /\ KnownSet(b.set)
    /\ b.stage = "blob" => b.task.at = "publish" /\ SealedBy(p, b.task) \in accepted
\* Message m on the way to the client of p.
DownOK(p, m) ==
    /\ m \in Messages
    /\ m.kind = "set" => KnownSet(m.body.set)
    /\ m.kind = "blob" => Given(p, m.body)
    /\ m.kind = "reply" => RequestOK(p, m.body)
\* A room key the session of p may hold: its own, or one sealed to it.
Held(p, k) ==
    \/ k = NoKey \/ OwnKey(p, k)
    \/ \E b \in accepted : b.to = p /\ b.toLife = lives[p] /\ b.key = k
SessionOK(p, s) ==
    /\ s \in Session /\ s.id = p /\ s.life = lives[p] /\ p \notin s.sealedSent
    /\ KnownSet(s.set) /\ Held(p, s.key) /\ (s.leaderKey = NoKey \/ OwnKey(p, s.leaderKey))
Outcome(p, r) == SessionOK(p, r.s) /\ TaskOK(p, r.task) /\ r.task.at # "register"
-----------------------------------------------------------------------------
(* The pieces of the session (KeySession): each leaves the session sound and *)
(* asks for a sound task.                                                    *)
Ready(p) == p \in Peers /\ lives[p] \in 1..MaxLives /\ accepted \subseteq Blobs

LEMMA TaskFields ==
    ASSUME NEW a \in Calls \cup {"open", "over"}, NEW why \in Whys, NEW b \in Blobs \cup {NoBlob}
    PROVE  /\ Task(a, why, b) \in Tasks /\ Task(a, why, b).at = a /\ Task(a, why, b).why = why
           /\ Task(a, why, b).blob = b
<1>1. [q \in {} |-> 0] \in Lives BY NothingPartial DEF Lives, Nothing
<1>2. 0 \in 0..MaxLives BY BoundAssumption
<1>. QED BY <1>1, <1>2 DEF Task, Tasks

LEMMA OwnKeyType == ASSUME NEW p, Ready(p), NEW k, OwnKey(p, k) PROVE k \in Keys
BY DEF Ready, OwnKey, KeyBy, Keys

LEMMA StatusOK ==
    ASSUME NEW p, NEW s, SessionOK(p, s), NEW x \in Statuses
    PROVE  SessionOK(p, Status(s, x))
<1>1. Status(s, x) \in Session BY DEF SessionOK, Session, Status
<1>2. /\ Status(s, x).id = s.id /\ Status(s, x).life = s.life
      /\ Status(s, x).sealedSent = s.sealedSent /\ Status(s, x).set = s.set
      /\ Status(s, x).key = s.key /\ Status(s, x).leaderKey = s.leaderKey
  BY DEF SessionOK, Session, Status
<1>. QED BY <1>1, <1>2 DEF SessionOK

LEMMA KeyOK ==
    ASSUME NEW p, Ready(p), NEW s, SessionOK(p, s), NEW k, Held(p, k)
    PROVE  SessionOK(p, [s EXCEPT !.key = k])
<1>1. k \in Keys \cup {NoKey} BY OwnKeyType DEF Held, Ready, Blobs
<1>2. [s EXCEPT !.key = k] \in Session BY <1>1 DEF SessionOK, Session
<1>3. /\ [s EXCEPT !.key = k].id = s.id /\ [s EXCEPT !.key = k].life = s.life
      /\ [s EXCEPT !.key = k].sealedSent = s.sealedSent /\ [s EXCEPT !.key = k].set = s.set
      /\ [s EXCEPT !.key = k].key = k /\ [s EXCEPT !.key = k].leaderKey = s.leaderKey
  BY DEF SessionOK, Session
<1>. QED BY <1>2, <1>3 DEF SessionOK

LEMMA OverOK ==
    ASSUME NEW p, NEW s, SessionOK(p, s)
    PROVE  Outcome(p, Over(s))
BY TaskFields DEF Outcome, Over, Result, TaskOK, Whys

LEMMA OpenIfKnownOK ==
    ASSUME NEW p, Ready(p), NEW s, SessionOK(p, s), NEW b, Given(p, b)
    PROVE  Outcome(p, OpenIfKnown(s, b))
<1>1. CASE b.from \in DOMAIN s.set
  <2>. DEFINE t == [Task("open", "set", b) EXCEPT !.life = s.set[b.from]]
  <2>1. b \in Blobs BY DEF Given, Ready
  <2>2. s.set[b.from] \in 0..MaxLives
    <3>1. s.set \in PartialFunctions(Peers, 1..MaxLives) BY DEF SessionOK, KnownSet, Lives
    <3>2. s.set \in [DOMAIN s.set -> 1..MaxLives] BY <3>1, Partial
    <3>3. s.set[b.from] \in 1..MaxLives BY <1>1, <3>2
    <3>. QED BY <3>3, BoundAssumption
  <2>3. Task("open", "set", b) \in Tasks BY <2>1, TaskFields DEF Whys
  <2>4. t \in Tasks BY <2>2, <2>3 DEF Tasks
  <2>5. t.at = "open" /\ t.why = "set" /\ t.blob = b BY <2>1, <2>3, TaskFields DEF Tasks, Whys
  <2>6. TaskOK(p, t) /\ t.at # "register" BY <2>4, <2>5 DEF TaskOK
  <2>. QED BY <1>1, <2>6 DEF OpenIfKnown, Outcome, Result
<1>2. CASE b.from \notin DOMAIN s.set BY <1>2, OverOK DEF OpenIfKnown
<1>. QED BY <1>1, <1>2

LEMMA AfterFetchOK ==
    ASSUME NEW p, Ready(p), NEW s, SessionOK(p, s), NEW why, NEW b,
           why \in {"ahead", "unknown"} => Given(p, b)
    PROVE  Outcome(p, AfterFetch(s, why, b))
<1>1. Outcome(p, Over(s)) BY OverOK
<1>2. CASE why \in {"ahead", "unknown"}
  <2>1. Outcome(p, OpenIfKnown(s, b)) BY <1>2, OpenIfKnownOK
  <2>. QED BY <1>1, <1>2, <2>1 DEF AfterFetch
<1>3. CASE why \notin {"ahead", "unknown"} BY <1>1, <1>3 DEF AfterFetch
<1>. QED BY <1>2, <1>3

LEMMA OnSealedKeyOK ==
    ASSUME NEW p, Ready(p), NEW s, SessionOK(p, s), NEW b, Given(p, b)
    PROVE  Outcome(p, OnSealedKey(s, b))
<1>1. Outcome(p, Over(s)) /\ Outcome(p, OpenIfKnown(s, b)) BY OverOK, OpenIfKnownOK
<1>2. ASSUME NEW why \in {"ahead", "unknown"}
      PROVE  Outcome(p, Result(s, Task("keyset", why, b)))
  <2>1. b \in Blobs BY DEF Given, Ready
  <2>2. TaskOK(p, Task("keyset", why, b)) /\ Task("keyset", why, b).at = "keyset"
    BY <2>1, TaskFields DEF TaskOK, Whys, Calls
  <2>. QED BY <2>2 DEF Outcome, Result
<1>. QED BY <1>1, <1>2 DEF OnSealedKey

LEMMA OpenedOK ==
    ASSUME NEW p, Ready(p), NEW s, SessionOK(p, s), NEW t, Given(p, t.blob)
    PROVE  Outcome(p, Opened(s, t))
<1>1. CASE t.blob.life = t.life /\ t.blob.toLife = s.life
  <2>1. Held(p, t.blob.key) BY <1>1 DEF Held, Given, SessionOK
  <2>2. SessionOK(p, [s EXCEPT !.key = t.blob.key]) BY <2>1, KeyOK
  <2>3. SessionOK(p, Status([s EXCEPT !.key = t.blob.key], "ready"))
    BY <2>2, StatusOK DEF Statuses
  <2>. QED BY <1>1, <2>3, OverOK DEF Opened
<1>2. CASE ~(t.blob.life = t.life /\ t.blob.toLife = s.life)
  <2>1. SessionOK(p, Status(s, "awaiting")) BY StatusOK DEF Statuses
  <2>. QED BY <1>2, <2>1, OverOK DEF Opened
<1>. QED BY <1>1, <1>2

LEMMA KnownLife ==
    ASSUME NEW f, KnownSet(f), NEW q \in DOMAIN f
    PROVE  q \in Peers /\ f[q] \in 1..MaxLives /\ f[q] \in 0..MaxLives /\ Known(q, f[q])
<1>1. DOMAIN f \subseteq Peers /\ f \in [DOMAIN f -> 1..MaxLives]
  BY Partial DEF KnownSet, Lives
<1>2. f[q] \in 1..MaxLives BY <1>1
<1>. QED BY <1>1, <1>2, BoundAssumption DEF KnownSet

LEMMA PartKnown ==
    ASSUME NEW f, KnownSet(f), NEW S \in SUBSET DOMAIN f
    PROVE  KnownSet([x \in S |-> f[x]])
<1>. DEFINE g == [x \in S |-> f[x]]
<1>1. DOMAIN g = S /\ \A q \in S : g[q] = f[q] OBVIOUS
<1>2. g \in [S -> 1..MaxLives] BY KnownLife
<1>3. S \subseteq Peers BY KnownLife
<1>. HIDE DEF g
<1>4. g \in Lives BY <1>1, <1>2, <1>3, Partial DEF Lives
<1>. QED BY <1>1, <1>4, KnownLife DEF KnownSet, g

\* What a call awaits while it serves the blob it was made for, if any.
Purpose(p, why, b) ==
    /\ why \in Whys /\ b \in Blobs \cup {NoBlob}
    /\ why \in {"ahead", "unknown"} => Given(p, b)

LEMMA SealNextOK ==
    ASSUME NEW p, Ready(p), NEW s, SessionOK(p, s), NEW key, OwnKey(p, key), NEW rest,
           KnownSet(rest), NEW why, NEW b, Purpose(p, why, b)
    PROVE  Outcome(p, SealNext(s, key, rest, why, b))
<1>. DEFINE left == Unserved(s, rest)
<1>1. CASE left = {}
  <2>1. SessionOK(p, [s EXCEPT !.key = key]) BY KeyOK DEF Held
  <2>2. SessionOK(p, Status([s EXCEPT !.key = key], "ready")) BY <2>1, StatusOK DEF Statuses
  <2>3. Outcome(p, AfterFetch(Status([s EXCEPT !.key = key], "ready"), why, b))
    BY <2>2, AfterFetchOK DEF Purpose
  <2>. QED BY <1>1, <2>3, ServesNobody
<1>2. CASE left # {}
  <2>1. DOMAIN rest \subseteq Peers BY KnownLife
  <2>2. PICK q \in DOMAIN rest \ (s.sealedSent \cup {s.id}), S \in SUBSET DOMAIN rest :
            SealNext(s, key, rest, why, b) = Result(s, Publication(key, rest, why, b, q, S))
    BY <1>2, <2>1, ServesNext
  <2>. DEFINE f == [x \in S |-> rest[x]]  t == Publication(key, rest, why, b, q, S)
  <2>3. q \in Peers \ {p} /\ rest[q] \in 0..MaxLives /\ Known(q, rest[q])
    BY KnownLife DEF SessionOK
  <2>4. KnownSet(f) BY PartKnown
  <2>5. key \in Keys BY OwnKeyType
  <2>6. t = [at |-> "publish", why |-> why, blob |-> b, key |-> key, to |-> q,
             life |-> rest[q], rest |-> f]
    BY DEF Publication
  <2>. HIDE DEF f, t
  <2>7. f \in Lives BY <2>4 DEF KnownSet
  <2>8. t \in Tasks BY <2>3, <2>5, <2>6, <2>7 DEF Tasks, Purpose, Calls
  <2>9. TaskOK(p, t) /\ t.at = "publish" BY <2>3, <2>4, <2>6, <2>8 DEF TaskOK, Purpose
  <2>. QED BY <2>2, <2>9 DEF Outcome, Result, t
<1>. QED BY <1>1, <1>2

LEMMA FailedOK ==
    ASSUME NEW p, Ready(p), NEW s, SessionOK(p, s), NEW why, NEW b, Purpose(p, why, b)
    PROVE  Outcome(p, Failed(s, why, b))
<1>1. CASE why = "start"
  <2>1. SessionOK(p, Status(s, "failed")) BY StatusOK DEF Statuses
  <2>. QED BY <1>1, <2>1, OverOK DEF Failed
<1>2. CASE why # "start" BY <1>2, AfterFetchOK DEF Failed, Purpose
<1>. QED BY <1>1, <1>2

LEMMA RoomKeyOK ==
    ASSUME NEW p, Ready(p), NEW s, SessionOK(p, s)
    PROVE  OwnKey(p, RoomKey(s))
<1>1. s.id = p /\ s.life = lives[p] /\ s.epoch \in Epochs BY DEF SessionOK, Session
<1>. QED BY <1>1 DEF SessionOK, OwnKey, RoomKey, KeyBy

LEMMA DistributeOK ==
    ASSUME NEW p, Ready(p), NEW s, SessionOK(p, s), NEW why, NEW b, Purpose(p, why, b)
    PROVE  Outcome(p, Distribute(s, why, b))
<1>. DEFINE k == RoomKey(s)  t == [s EXCEPT !.leaderKey = k]
<1>1. OwnKey(p, k) /\ k \in Keys BY RoomKeyOK, OwnKeyType
<1>. HIDE DEF k
<1>2. /\ t \in Session /\ t.id = s.id /\ t.life = s.life /\ t.sealedSent = s.sealedSent
      /\ t.set = s.set /\ t.key = s.key /\ t.leaderKey = k
  BY <1>1 DEF SessionOK, Session
<1>3. SessionOK(p, t) BY <1>1, <1>2 DEF SessionOK
<1>4. KnownSet(s.set) BY DEF SessionOK
<1>5. Outcome(p, SealNext(t, k, s.set, why, b)) BY <1>1, <1>3, <1>4, SealNextOK
<1>. QED BY <1>5 DEF Distribute, k

LEMMA AdoptOK ==
    ASSUME NEW p, Ready(p), NEW s, SessionOK(p, s), NEW e \in Epochs
    PROVE  SessionOK(p, AdoptEpoch(s, e))
<1>. DEFINE t == [s EXCEPT !.epoch = e, !.key = NoKey]
<1>1. /\ t \in Session /\ t.id = s.id /\ t.life = s.life /\ t.sealedSent = s.sealedSent
      /\ t.set = s.set /\ t.key = NoKey /\ t.leaderKey = s.leaderKey
  BY DEF SessionOK, Session
<1>2. SessionOK(p, t) BY <1>1 DEF SessionOK, Held
<1>. QED BY <1>2 DEF AdoptEpoch

LEMMA OnKeySetOK ==
    ASSUME NEW p, Ready(p), NEW s, SessionOK(p, s), NEW e \in Epochs, NEW set, KnownSet(set),
           NEW why, NEW b, Purpose(p, why, b)
    PROVE  Outcome(p, OnKeySet(s, e, set, why, b))
<1>. DEFINE a == AdoptEpoch(s, e)
            t == [a EXCEPT !.set = set, !.sealedSent = IF e > s.epoch THEN {} ELSE @]
<1>1. SessionOK(p, a) BY AdoptOK
<1>. HIDE DEF a
<1>2. /\ t \in Session /\ t.id = a.id /\ t.life = a.life /\ t.sealedSent \subseteq a.sealedSent
      /\ t.set = set /\ t.key = a.key /\ t.leaderKey = a.leaderKey
  BY <1>1 DEF SessionOK, Session, KnownSet
<1>3. SessionOK(p, t) BY <1>1, <1>2 DEF SessionOK
<1>. HIDE DEF t
<1>4. \A x \in {"awaiting", "ready"} : Outcome(p, AfterFetch(Status(t, x), why, b))
  BY <1>3, StatusOK, AfterFetchOK DEF Statuses, Purpose
<1>5. Outcome(p, Distribute(t, why, b)) BY <1>3, DistributeOK
<1>. QED BY <1>4, <1>5 DEF OnKeySet, t, a

LEMMA ResumeOK ==
    ASSUME NEW p, Ready(p), NEW s, SessionOK(p, s), NEW r, RequestOK(p, r)
    PROVE  Outcome(p, Resume(s, r.task, r))
<1>. DEFINE t == r.task
<1>1. /\ TaskOK(p, t) /\ t.at \in Calls /\ r.ok \in BOOLEAN /\ r.epoch \in Epochs
      /\ KnownSet(r.set)
  BY DEF RequestOK, CallOK, Requests
<1>2. Purpose(p, t.why, t.blob) BY <1>1 DEF Purpose, TaskOK, Tasks
<1>3. CASE ~r.ok BY <1>2, <1>3, FailedOK DEF Resume
<1>4. CASE r.ok /\ t.at = "register"
  <2>1. SessionOK(p, AdoptEpoch(s, r.epoch)) BY <1>1, AdoptOK
  <2>2. TaskOK(p, Task("keyset", "start", NoBlob)) /\ Task("keyset", "start", NoBlob).at = "keyset"
    BY TaskFields DEF TaskOK, Calls, Whys
  <2>. QED BY <1>4, <2>1, <2>2 DEF Resume, Outcome, Result
<1>5. CASE r.ok /\ t.at = "keyset"
  <2>1. Outcome(p, OnKeySet(s, r.epoch, r.set, t.why, t.blob)) BY <1>1, <1>2, OnKeySetOK
  <2>. QED BY <1>5, <2>1 DEF Resume
<1>6. CASE r.ok /\ t.at = "publish"
  <2>. DEFINE u == [s EXCEPT !.sealedSent = @ \cup {t.to}]
  <2>1. OwnKey(p, t.key) /\ t.to \in Peers \ {p} /\ KnownSet(t.rest) BY <1>1, <1>6 DEF TaskOK
  <2>2. /\ u \in Session /\ u.id = s.id /\ u.life = s.life
        /\ u.sealedSent = s.sealedSent \cup {t.to}
        /\ u.set = s.set /\ u.key = s.key /\ u.leaderKey = s.leaderKey
    BY <2>1 DEF SessionOK, Session
  <2>3. SessionOK(p, u) BY <2>1, <2>2 DEF SessionOK
  <2>4. Outcome(p, SealNext(u, t.key, t.rest, t.why, t.blob))
    BY <1>2, <2>1, <2>3, SealNextOK
  <2>. QED BY <1>6, <2>4 DEF Resume
<1>. QED BY <1>1, <1>3, <1>4, <1>5, <1>6 DEF Calls
-----------------------------------------------------------------------------
(* The invariant.                                                           *)
Queue(p) == {chan[p][i] : i \in DOMAIN chan[p]}
Inbox(p) == {down[p][i] : i \in DOMAIN down[p]}

\* The session of p, and all that waits for it or is on the way to it.
ClientOK(p) ==
    /\ \A s \in {sess[p]} : SessionOK(p, s)
    /\ \A t \in DOMAIN work[p] : TaskOK(p, t) /\ t.at = "open"
    /\ \A t \in Queue(p) : CallOK(p, t)
    /\ \A b \in {busy[p]} \ {NoTask} : RequestOK(p, b)
    /\ \A m \in Inbox(p) : DownOK(p, m)

\* What the state of a connection says of its channel and its client.
Quiet(p) ==
    /\ \A i \in DOMAIN chan[p] : chan[p][i].at = "register" => i = 1
    /\ at[p] = "out" => chan[p] = <<>> /\ busy[p] = NoTask
    /\ at[p] # "out" => lives[p] \in 1..MaxLives
    /\ ~Inside(p) => down[p] = <<>> /\ work[p] = Nothing

\* The coordinator keeps the keys of peers that registered, and sealed keys
\* between them.
Coord ==
    /\ ~open => epoch = 0 /\ pubs = Nothing /\ sealed = Nothing
    /\ \A f \in {pubs} : KnownSet(f)
    /\ \A p \in DOMAIN pubs : Enrolled(p) => pubs[p] = lives[p]
    /\ \A q \in DOMAIN sealed : sealed[q] \in accepted /\ sealed[q].to = q
    /\ SealedIsCurrent

\* The key that sealed b is registered.
Live(b) == Registered(b.from) /\ pubs[b.from] = b.life

\* Blobs were made by sessions that registered for ones that registered.
Written ==
    \A b \in accepted :
       /\ Known(b.from, b.life) /\ Known(b.to, b.toLife)
       /\ b.key = KeyBy(b.from, b.life, b.epoch)

\* As long as the sender of a blob is registered, the epoch tells its age.
Aged ==
    \A b \in accepted :
       Live(b) => b.epoch <= epoch /\ (b.epoch = epoch => sealed # Nothing)

\* Blobs of before a registration are of others, and of earlier epochs.
Before ==
    \A p \in Peers :
       /\ past[p] \subseteq accepted
       /\ \A b \in past[p] : /\ ~(b.from = p /\ b.life = lives[p])
                             /\ Enrolled(p) /\ Live(b) => b.epoch < epoch

\* No key sealed to a session was sealed before it registered.
Unseen ==
    \A b \in accepted :
       b.toLife = lives[b.to] => \A c \in past[b.to] : c.key # b.key

\* A key known to a removed connection is the key of an earlier epoch, or of a
\* session whose public key is gone.
Spent == \A k \in barred : \E b \in accepted : b.key = k /\ (Live(b) => b.epoch < epoch)

Hist == Written /\ Aged /\ Before /\ Unseen /\ Spent

Inv ==
    /\ Types /\ Coord /\ Hist
    /\ \A p \in Peers : ClientOK(p) /\ Quiet(p)
-----------------------------------------------------------------------------
(* Steps that keep what is known.                                           *)
Grows ==
    /\ accepted \subseteq accepted'
    /\ \A q \in Peers : /\ lives[q] \in Nat /\ lives'[q] \in Nat
                        /\ \/ lives'[q] = lives[q] /\ (Enrolled(q) => Enrolled(q)')
                           \/ lives'[q] > lives[q]

LEMMA KnownStays ==
    ASSUME Grows, NEW q, NEW l, Known(q, l)
    PROVE  Known(q, l)'
BY DEF Grows, Known

LEMMA KnownSetStays ==
    ASSUME Grows, NEW f, KnownSet(f)
    PROVE  KnownSet(f)'
BY KnownStays DEF KnownSet

\* What was sound for a connection stays so while it lasts.
LEMMA SoundStays ==
    ASSUME Grows, NEW p, lives'[p] = lives[p]
    PROVE  /\ \A s : SessionOK(p, s) => SessionOK(p, s)'
           /\ \A t : TaskOK(p, t) => TaskOK(p, t)'
           /\ \A t : CallOK(p, t) => CallOK(p, t)'
           /\ \A b : RequestOK(p, b) => RequestOK(p, b)'
           /\ \A m : DownOK(p, m) => DownOK(p, m)'
<1>1. \A b : Given(p, b) => Given(p, b)' BY DEF Grows, Given
<1>2. \A k : OwnKey(p, k) => OwnKey(p, k)' BY DEF OwnKey
<1>3. \A f : KnownSet(f) => KnownSet(f)' BY KnownSetStays
<1>4. \A k : Held(p, k) => Held(p, k)' BY <1>2 DEF Held, Grows
<1>5. \A s : SessionOK(p, s) => SessionOK(p, s)' BY <1>2, <1>3, <1>4 DEF SessionOK
<1>6. \A q, l : Known(q, l) => Known(q, l)' BY KnownStays
<1>7. \A t : TaskOK(p, t) => TaskOK(p, t)' BY <1>1, <1>2, <1>3, <1>6 DEF TaskOK
<1>8. \A t : CallOK(p, t) => CallOK(p, t)' BY <1>7 DEF CallOK
<1>9. \A t : SealedBy(p, t)' = SealedBy(p, t) BY DEF SealedBy
<1>10. \A b : RequestOK(p, b) => RequestOK(p, b)'
  <2> TAKE b
  <2> HAVE RequestOK(p, b)
  <2>1. CallOK(p, b.task)' /\ KnownSet(b.set)' BY <1>3, <1>8 DEF RequestOK
  <2>2. SealedBy(p, b.task)' = SealedBy(p, b.task) BY <1>9
  <2>. QED BY <2>1, <2>2 DEF RequestOK, Grows
<1>11. \A m : DownOK(p, m) => DownOK(p, m)' BY <1>1, <1>3, <1>10 DEF DownOK
<1>. QED BY <1>5, <1>7, <1>8, <1>10, <1>11

-----------------------------------------------------------------------------
(* What the invariant says.                                                  *)
LEMMA KeyFields ==
    \A p, l, e, q, m, d : KeyBy(p, l, e) = KeyBy(q, m, d) => p = q /\ l = m /\ e = d
BY DEF KeyBy

LEMMA InvTypeOK == Inv => TypeOK
<1>. SUFFICES ASSUME Inv PROVE TypeOK OBVIOUS
<1>1. Types BY DEF Inv
<1>2. DOMAIN sealed \subseteq Peers /\ Range(sealed) \subseteq Blobs
  BY <1>1, Partial DEF Types, Range
<1>3. ASSUME NEW p \in Peers
      PROVE  /\ sess[p].status \in {"registering", "awaiting", "ready", "failed"}
             /\ sess[p].epoch \in Epochs /\ sess[p].life = lives[p]
             /\ {sess[p].key, sess[p].leaderKey} \subseteq Keys \cup {NoKey}
             /\ sess[p].set \in PartialFunctions(Peers, 1..MaxLives)
             /\ sess[p].sealedSent \subseteq Peers \ {p}
  BY <1>3 DEF Inv, ClientOK, SessionOK, Session, Statuses, Lives
<1>4. ASSUME NEW p \in Peers
      PROVE  /\ \A t \in DOMAIN work[p] : t.at = "open" /\ t.blob \in Blobs
             /\ \A i \in DOMAIN chan[p] : chan[p][i].at \in {"register", "keyset", "publish"}
  BY <1>1, <1>4 DEF Inv, ClientOK, Queue, TaskOK, CallOK, Given, Calls, Types
<1>5. ASSUME NEW p \in Peers
      PROVE  /\ busy[p] # NoTask => busy[p].stage \in {"read", "set", "blob", "reply"}
             /\ \A i \in DOMAIN down[p] : down[p][i].kind \in {"set", "blob", "reply"}
  <2>1. busy[p] # NoTask => RequestOK(p, busy[p]) BY DEF Inv, ClientOK
  <2>2. \A i \in DOMAIN down[p] : DownOK(p, down[p][i]) BY DEF Inv, ClientOK, Inbox
  <2>. QED BY <2>1, <2>2 DEF RequestOK, Requests, Stages, DownOK, Messages
<1>. QED BY <1>1, <1>2, <1>3, <1>4, <1>5 DEF Types, TypeOK, Lives

LEMMA InvNoPastKey == Inv => NoPastKey
<1>. SUFFICES ASSUME Inv, NEW p \in Peers, NEW b \in past[p], b.key = sess[p].key
              PROVE  FALSE
  BY DEF NoPastKey
<1>1. b \in accepted /\ ~(b.from = p /\ b.life = lives[p]) BY DEF Inv, Hist, Before
<1>2. b \in Blobs /\ b.key = KeyBy(b.from, b.life, b.epoch)
  BY <1>1 DEF Inv, Types, Hist, Written
<1>3. b.key # NoKey
  <2>1. b.from \in Peers /\ b.life \in Nat /\ b.epoch \in Nat
    BY <1>2, BoundAssumption DEF Blobs, Epochs
  <2>2. b.key \in [by : Peers, life : Nat, epoch : Nat, n : Nat] BY <1>2, <2>1 DEF KeyBy
  <2>. QED BY <2>2, NoKeyAssumption
<1>4. ~OwnKey(p, b.key) BY <1>1, <1>2, KeyFields DEF OwnKey
<1>5. Held(p, sess[p].key) BY DEF Inv, ClientOK, SessionOK
<1>6. PICK c \in accepted : c.to = p /\ c.toLife = lives[p] /\ c.key = b.key
  BY <1>3, <1>4, <1>5 DEF Held
<1>. QED BY <1>6 DEF Inv, Hist, Unseen

LEMMA InvOneKey == Inv => OneKeyPerSession
BY DEF Inv, Hist, Written, OneKeyPerSession, KeyBy

LEMMA InvLockedOut == Inv => LeaverLockedOut
<1>. SUFFICES ASSUME Inv, NEW q \in DOMAIN sealed, sealed[q].key \in barred PROVE FALSE
  BY DEF LeaverLockedOut
<1>. DEFINE b == sealed[q]
<1>1. b \in accepted /\ b.epoch = epoch /\ Live(b)
  BY DEF Inv, Coord, SealedIsCurrent, Live
<1>2. PICK c \in accepted : c.key = b.key /\ (Live(c) => c.epoch < epoch)
  BY DEF Inv, Hist, Spent
<1>3. KeyBy(c.from, c.life, c.epoch) = KeyBy(b.from, b.life, b.epoch)
  BY <1>1, <1>2 DEF Inv, Hist, Written
<1>4. c.from = b.from /\ c.life = b.life /\ c.epoch = b.epoch BY <1>3, KeyFields
<1>. QED BY <1>1, <1>2, <1>4 DEF Live, Registered, Inv, Types, Epochs

-----------------------------------------------------------------------------
(* The initial states.                                                      *)
LEMMA NewSessionOK ==
    ASSUME NEW p \in Peers, NEW l \in 0..MaxLives
    PROVE  LET s == NewSession(p, l)
           IN  /\ s \in Session /\ s.id = p /\ s.life = l /\ s.set = Nothing /\ s.key = NoKey
               /\ s.leaderKey = NoKey /\ s.sealedSent = {}
<1>1. Nothing \in Lives BY NothingPartial DEF Lives
<1>2. 0 \in Epochs BY BoundAssumption DEF Epochs
<1>. QED BY <1>1, <1>2 DEF NewSession, Session, Statuses, Nothing

LEMMA NothingKnown == KnownSet(Nothing)
BY NothingPartial DEF KnownSet, Lives

LEMMA InitInv == ASSUME Init PROVE Inv
<1>1. \A p \in Peers : lives[p] \in 0..MaxLives /\ Enrolled(p) /\ (p \in First => lives[p] = 1)
  BY BoundAssumption DEF Init, Enrolled
<1>2. pubs = [p \in First |-> 1] /\ First \subseteq Peers /\ 1 \in 1..MaxLives
  BY BoundAssumption DEF Init
<1>3. KnownSet(pubs)
  <2>1. pubs \in Lives BY <1>2, Partial DEF Lives
  <2>. QED BY <1>1, <1>2, <2>1 DEF KnownSet, Known
<1>4. \A p \in Peers : SessionOK(p, NewSession(p, lives[p]))
  BY <1>1, NewSessionOK, NothingKnown DEF SessionOK, Held
<1>5. \A p \in Peers : SessionOK(p, sess[p])
  <2>. SUFFICES ASSUME NEW p \in Peers PROVE SessionOK(p, sess[p]) OBVIOUS
  <2>1. CASE p \in First
    <3>1. Ready(p) BY <1>1, <1>2, <2>1 DEF Ready, Init
    <3>2. Purpose(p, "start", NoBlob) BY DEF Purpose, Whys
    <3>3. 0 \in Epochs BY BoundAssumption DEF Epochs
    <3>4. Outcome(p, OnKeySet(NewSession(p, 1), 0, pubs, "start", NoBlob))
      BY <1>1, <1>3, <1>4, <2>1, <3>1, <3>2, <3>3, OnKeySetOK
    <3>. QED BY <2>1, <3>4 DEF Outcome, Init
  <2>2. CASE p \notin First BY <1>1, <1>4, <2>2 DEF Init
  <2>. QED BY <2>1, <2>2
<1>6. Types
  <2>1. /\ open \in BOOLEAN /\ epoch \in Epochs /\ pubs \in Lives
        /\ at \in [Peers -> {"out", "in", "closing"}] /\ tearing \subseteq Peers \X (1..MaxLives)
        /\ lives \in [Peers -> 0..MaxLives]
    BY <1>1, <1>3, BoundAssumption DEF Init, KnownSet, Epochs
  <2>2. /\ sealed \in PartialFunctions(Peers, Blobs)
        /\ work \in [Peers -> PartialFunctions(Tasks, Int)]
    BY NothingPartial DEF Init
  <2>3. /\ chan \in [Peers -> Seq(Tasks)] /\ down \in [Peers -> Seq(Messages)]
        /\ busy \in [Peers -> Requests \cup {NoTask}]
    BY EmptySeq DEF Init
  <2>4. sess \in [Peers -> Session]
    <3>1. sess = [p \in Peers |-> sess[p]] BY DEF Init
    <3>2. \A p \in Peers : sess[p] \in Session BY <1>5 DEF SessionOK
    <3>. QED BY <3>1, <3>2
  <2>. QED BY <2>1, <2>2, <2>3, <2>4 DEF Types, Init
<1>7. Coord
  <2>1. ~open => epoch = 0 /\ pubs = Nothing /\ sealed = Nothing BY DEF Init, Nothing
  <2>2. DOMAIN sealed = {} BY DEF Init, Nothing
  <2>3. \A p \in DOMAIN pubs : pubs[p] = lives[p] BY <1>1, <1>2
  <2>. QED BY <1>3, <2>1, <2>2, <2>3 DEF Coord, SealedIsCurrent
<1>8. Hist
  <2>1. accepted = {} /\ barred = {} /\ \A p \in Peers : past[p] = {} BY DEF Init
  <2>. QED BY <2>1 DEF Hist, Written, Aged, Before, Unseen, Spent
<1>9. ASSUME NEW p \in Peers PROVE ClientOK(p) /\ Quiet(p)
  <2>1. /\ work[p] = Nothing /\ chan[p] = <<>> /\ busy[p] = NoTask /\ down[p] = <<>>
        /\ at[p] # "out" => p \in First
    BY DEF Init
  <2>2. Queue(p) = {} /\ Inbox(p) = {} /\ DOMAIN work[p] = {}
    BY <2>1 DEF Queue, Inbox, Nothing
  <2>3. ClientOK(p) BY <1>5, <2>1, <2>2 DEF ClientOK
  <2>4. Quiet(p) BY <1>1, <1>2, <2>1 DEF Quiet
  <2>. QED BY <2>3, <2>4
<1>. QED BY <1>6, <1>7, <1>8, <1>9 DEF Inv
-----------------------------------------------------------------------------
(* Steps of every kind.                                                     *)
LEMMA GrowsSame ==
    ASSUME Types, lives' = lives, accepted \subseteq accepted',
           \A q \in Peers : Enrolled(q) => Enrolled(q)'
    PROVE  Grows
<1>1. \A q \in Peers : lives[q] \in Nat BY BoundAssumption DEF Types
<1>. QED BY <1>1 DEF Grows

\* A client that keeps, of what it has, only what is sound.
LEMMA ClientStep ==
    ASSUME Grows, NEW p, lives'[p] = lives[p],
           \A s \in {sess'[p]} : SessionOK(p, s),
           \A t \in DOMAIN work'[p] : TaskOK(p, t) /\ t.at = "open",
           \A t \in Queue(p)' : CallOK(p, t),
           \A b \in {busy'[p]} \ {NoTask} : RequestOK(p, b) \/ RequestOK(p, b)',
           \A m \in Inbox(p)' : DownOK(p, m)
    PROVE  ClientOK(p)'
<1>1. \A s \in {sess'[p]} : SessionOK(p, s)' BY SoundStays
<1>2. \A t \in DOMAIN work'[p] : TaskOK(p, t)' /\ t.at = "open" BY SoundStays
<1>3. \A t \in Queue(p)' : CallOK(p, t)' BY SoundStays
<1>4. \A b \in {busy'[p]} \ {NoTask} : RequestOK(p, b)' BY SoundStays
<1>5. \A m \in Inbox(p)' : DownOK(p, m)' BY SoundStays
<1>. QED BY <1>1, <1>2, <1>3, <1>4, <1>5 DEF ClientOK

LEMMA ClientStays ==
    ASSUME Grows, NEW p, lives'[p] = lives[p], ClientOK(p),
           sess'[p] = sess[p], work'[p] = work[p], chan'[p] = chan[p], busy'[p] = busy[p],
           down'[p] = down[p]
    PROVE  ClientOK(p)'
<1>1. Queue(p)' = Queue(p) /\ Inbox(p)' = Inbox(p) BY DEF Queue, Inbox
<1>. QED BY <1>1, ClientStep DEF ClientOK

LEMMA QuietStays ==
    ASSUME NEW p, Quiet(p), lives'[p] = lives[p], at'[p] = at[p], work'[p] = work[p],
           chan'[p] = chan[p], busy'[p] = busy[p], down'[p] = down[p]
    PROVE  Quiet(p)'
BY DEF Quiet, Inside

\* The coordinator has no part in it.
LEMMA CoordStays ==
    ASSUME Types, Coord, Hist, UNCHANGED <<coordinator, history, lives>>,
           \A q \in Peers : Enrolled(q)' <=> Enrolled(q)
    PROVE  Coord' /\ Hist'
<1>. USE DEF coordinator, history
<1>1. Grows BY GrowsSame
<1>2. \A f \in {pubs'} : KnownSet(f)' BY <1>1, KnownSetStays DEF Coord
<1>3. DOMAIN pubs \subseteq Peers BY Partial DEF Types, Lives
<1>4. SealedIsCurrent' BY DEF Coord, SealedIsCurrent, Registered
<1>5. Coord' BY <1>2, <1>3, <1>4 DEF Coord
<1>6. Written' BY <1>1, KnownStays DEF Hist, Written
<1>7. \A b : Live(b)' <=> Live(b) BY DEF Live, Registered
<1>8. Aged' /\ Before' /\ Unseen' /\ Spent'
  BY <1>7 DEF Hist, Aged, Before, Unseen, Spent
<1>. QED BY <1>5, <1>6, <1>8 DEF Hist

\* The coordinator enters a new epoch, or closes the room.
LEMMA HistMoves ==
    ASSUME Types, Hist, UNCHANGED <<lives, chan, accepted, past>>, epoch' \in Nat,
           \A b : Live(b)' => Live(b) /\ epoch' > epoch,
           \A k \in barred' : k \in barred \/ \E b \in accepted : b.key = k
    PROVE  Hist'
<1>1. \A q : Enrolled(q)' <=> Enrolled(q) BY DEF Enrolled
<1>2. Grows BY <1>1, GrowsSame
<1>3. Written' BY <1>2, KnownStays DEF Hist, Written
<1>4. epoch \in Nat /\ \A b \in accepted : b.epoch \in Nat
  BY DEF Types, Blobs, Epochs
<1>5. \A b \in accepted : Live(b)' => b.epoch < epoch' BY <1>4 DEF Hist, Aged
<1>6. Aged' BY <1>4, <1>5 DEF Aged
<1>7. Before' BY <1>1, <1>5 DEF Hist, Before
<1>8. Unseen' BY DEF Hist, Unseen
<1>9. Spent' BY <1>5 DEF Hist, Spent
<1>. QED BY <1>3, <1>6, <1>7, <1>8, <1>9 DEF Hist
-----------------------------------------------------------------------------
(* The coordinator moves on.                                                *)
LEMMA RotateInv == ASSUME Inv, Rotate PROVE Inv'
<1>. USE DEF conns, clients, history
<1>1. UNCHANGED <<open, pubs, at, tearing, lives, sess, work, chan, busy, down, accepted, past,
                  barred>> /\ open /\ epoch' = epoch + 1 /\ epoch < MaxEpoch /\ sealed' = Nothing
  BY DEF Rotate, Rotated
<1>2. Types /\ Coord /\ Hist BY DEF Inv
<1>3. epoch' \in Epochs /\ epoch' \in Nat /\ epoch' > epoch
  BY <1>1, <1>2, BoundAssumption DEF Types, Epochs
<1>4. \A q : Enrolled(q)' <=> Enrolled(q) BY <1>1 DEF Enrolled
<1>5. Grows BY <1>1, <1>2, <1>4, GrowsSame
<1>6. Types' BY <1>1, <1>2, <1>3, NothingPartial DEF Types
<1>7. Coord'
  <2>1. \A f \in {pubs'} : KnownSet(f)' BY <1>1, <1>2, <1>5, KnownSetStays DEF Coord
  <2>2. DOMAIN sealed' = {} BY <1>1, NothingPartial
  <2>. QED BY <1>1, <1>2, <1>4, <2>1, <2>2 DEF Coord, SealedIsCurrent
<1>8. Hist'
  <2>1. \A b : Live(b)' => Live(b) BY <1>1 DEF Live, Registered
  <2>. QED BY <1>1, <1>2, <1>3, <2>1, HistMoves
<1>9. ASSUME NEW p \in Peers PROVE (ClientOK(p) /\ Quiet(p))'
  BY <1>1, <1>5, ClientStays, QuietStays DEF Inv
<1>. QED BY <1>6, <1>7, <1>8, <1>9 DEF Inv

LEMMA TeardownInv ==
    ASSUME Inv, NEW p \in Peers, NEW life \in 1..MaxLives, Teardown(p, life) PROVE Inv'
<1>. USE DEF conns, clients, history
<1>1. UNCHANGED <<at, lives, sess, work, chan, busy, down, accepted, past>>
      /\ tearing' \subseteq tearing /\ Remove(p) /\ (open => epoch < MaxEpoch)
      /\ \A k \in barred' : k \in barred \/ \E b \in accepted : b.key = k
  BY DEF Teardown
<1>2. Types /\ Coord /\ Hist BY DEF Inv
<1>3. \A q : Enrolled(q)' <=> Enrolled(q) BY <1>1 DEF Enrolled
<1>4. Grows BY <1>1, <1>2, <1>3, GrowsSame
<1>5. sealed' = Nothing /\ DOMAIN sealed' = {} /\ open' \in BOOLEAN
      /\ (~open' => epoch' = 0 /\ pubs' = Nothing)
  BY <1>1, NothingPartial DEF Remove, Rotated
<1>6. \/ epoch' = epoch + 1 /\ open /\ pubs' = [q \in DOMAIN pubs \ {p} |-> pubs[q]]
      \/ epoch' = 0 /\ pubs' = Nothing
  BY <1>1 DEF Remove, Rotated, Restrict
<1>7. /\ epoch' \in Epochs /\ epoch' \in Nat
      /\ \A b : Live(b)' => Live(b) /\ epoch' > epoch
      /\ \A q \in DOMAIN pubs' : q \in DOMAIN pubs /\ pubs'[q] = pubs[q]
  <2>1. epoch \in 0..MaxEpoch BY <1>2 DEF Types, Epochs
  <2>2. CASE epoch' = epoch + 1 /\ open /\ pubs' = [q \in DOMAIN pubs \ {p} |-> pubs[q]]
    <3>1. epoch' \in 0..MaxEpoch /\ epoch' > epoch BY <1>1, <2>1, <2>2, BoundAssumption
    <3>. QED BY <2>2, <3>1, BoundAssumption DEF Live, Registered, Epochs
  <2>3. CASE epoch' = 0 /\ pubs' = Nothing
    <3>1. 0 \in Epochs BY BoundAssumption DEF Epochs
    <3>. QED BY <2>3, <3>1, NothingPartial DEF Live, Registered
  <2>. QED BY <1>6, <2>2, <2>3
<1>8. KnownSet(pubs')
  <2>1. KnownSet(pubs) BY <1>2 DEF Coord
  <2>2. CASE pubs' = [q \in DOMAIN pubs \ {p} |-> pubs[q]] BY <2>1, <2>2, PartKnown
  <2>3. CASE pubs' = Nothing BY <2>3, NothingKnown
  <2>. QED BY <1>6, <2>2, <2>3
<1>9. Types'
  <2>1. pubs' \in Lives BY <1>8 DEF KnownSet
  <2>. QED BY <1>1, <1>2, <1>5, <1>7, <2>1, NothingPartial DEF Types
<1>10. Coord'
  <2>1. \A f \in {pubs'} : KnownSet(f)' BY <1>4, <1>8, KnownSetStays
  <2>. QED BY <1>1, <1>2, <1>3, <1>5, <1>7, <2>1 DEF Coord, SealedIsCurrent
<1>11. Hist' BY <1>1, <1>2, <1>7, HistMoves
<1>12. ASSUME NEW q \in Peers PROVE (ClientOK(q) /\ Quiet(q))'
  BY <1>1, <1>4, ClientStays, QuietStays DEF Inv
<1>. QED BY <1>9, <1>10, <1>11, <1>12 DEF Inv
-----------------------------------------------------------------------------
(* Connections go.                                                          *)
LEMMA CloseInv == ASSUME Inv, NEW p \in Peers, Close(p) PROVE Inv'
<1>. USE DEF coordinator, history
<1>1. /\ UNCHANGED <<open, epoch, pubs, sealed, tearing, lives, sess, chan, busy, accepted,
                     past, barred>>
      /\ at[p] = "in" /\ at' = [at EXCEPT ![p] = "closing"]
      /\ down' = [down EXCEPT ![p] = <<>>] /\ work' = [work EXCEPT ![p] = Nothing]
  BY DEF Close, Inside
<1>2. Types /\ Coord /\ Hist BY DEF Inv
<1>3. \A q : Enrolled(q)' <=> Enrolled(q) BY <1>1 DEF Enrolled
<1>4. Grows BY <1>1, <1>2, <1>3, GrowsSame
<1>5. Types' BY <1>1, <1>2, NothingPartial, EmptySeq DEF Types
<1>6. Coord' /\ Hist' BY <1>1, <1>2, <1>3, CoordStays
<1>7. ASSUME NEW q \in Peers, q # p PROVE (ClientOK(q) /\ Quiet(q))'
  <2>1. at'[q] = at[q] /\ down'[q] = down[q] /\ work'[q] = work[q] BY <1>1, <1>2, <1>7 DEF Types
  <2>. QED BY <1>1, <1>4, <2>1, ClientStays, QuietStays DEF Inv
<1>8. at'[p] = "closing" /\ down'[p] = <<>> /\ work'[p] = Nothing BY <1>1, <1>2 DEF Types
<1>9. ClientOK(p)'
  <2>1. Inbox(p)' = {} /\ DOMAIN work'[p] = {} /\ Queue(p)' = Queue(p)
    BY <1>1, <1>8, NothingPartial DEF Inbox, Queue
  <2>2. ClientOK(p) BY DEF Inv
  <2>. QED BY <1>1, <1>4, <2>1, <2>2, ClientStep DEF ClientOK
<1>10. Quiet(p)' BY <1>1, <1>8 DEF Inv, Quiet, Inside
<1>. QED BY <1>5, <1>6, <1>7, <1>9, <1>10 DEF Inv

LEMMA LeaveInv == ASSUME Inv, NEW p \in Peers, LeaveRoom(p) PROVE Inv'
<1>. USE DEF coordinator, clients, history
<1>1. /\ UNCHANGED <<open, epoch, pubs, sealed, lives, sess, work, chan, busy, down, accepted,
                     past, barred>>
      /\ at[p] = "closing" /\ chan[p] = <<>> /\ busy[p] = NoTask
      /\ at' = [at EXCEPT ![p] = "out"] /\ tearing' = tearing \cup {<<p, lives[p]>>}
  BY DEF LeaveRoom
<1>2. Types /\ Coord /\ Hist BY DEF Inv
<1>3. \A q : Enrolled(q)' <=> Enrolled(q) BY <1>1 DEF Enrolled
<1>4. Grows BY <1>1, <1>2, <1>3, GrowsSame
<1>5. Quiet(p) BY DEF Inv
<1>6. Types'
  <2>1. lives[p] \in 1..MaxLives BY <1>1, <1>5 DEF Quiet
  <2>. QED BY <1>1, <1>2, <2>1 DEF Types
<1>7. Coord' /\ Hist' BY <1>1, <1>2, <1>3, CoordStays
<1>8. ASSUME NEW q \in Peers PROVE ClientOK(q)' BY <1>1, <1>4, ClientStays DEF Inv
<1>9. ASSUME NEW q \in Peers, q # p PROVE Quiet(q)'
  <2>1. at'[q] = at[q] BY <1>1, <1>2, <1>9 DEF Types
  <2>. QED BY <1>1, <2>1, QuietStays DEF Inv
<1>10. Quiet(p)'
  <2>1. at'[p] = "out" BY <1>1, <1>2 DEF Types
  <2>. QED BY <1>1, <1>5, <2>1 DEF Quiet, Inside
<1>. QED BY <1>6, <1>7, <1>8, <1>9, <1>10 DEF Inv
-----------------------------------------------------------------------------
(* The channel reads a key set for a broadcast, and sends.                  *)
LEMMA ReadInv == ASSUME Inv, NEW p \in Peers, ReadKeySet(p) PROVE Inv'
<1>. USE DEF coordinator, conns, clients, history
<1>. DEFINE b == busy[p]  c == [b EXCEPT !.stage = "set", !.set = pubs]
<1>1. /\ UNCHANGED <<open, epoch, pubs, sealed, at, tearing, lives, sess, work, chan, down,
                     accepted, past, barred>>
      /\ b # NoTask /\ busy' = [busy EXCEPT ![p] = c]
  BY DEF ReadKeySet
<1>2. Types /\ Coord /\ Hist /\ ClientOK(p) /\ Quiet(p) BY DEF Inv
<1>3. \A q : Enrolled(q)' <=> Enrolled(q) BY <1>1 DEF Enrolled
<1>4. Grows BY <1>1, <1>2, <1>3, GrowsSame
<1>5. RequestOK(p, b) /\ b \in Requests BY <1>1, <1>2 DEF ClientOK, RequestOK
<1>6. KnownSet(pubs) BY <1>2 DEF Coord
<1>. HIDE DEF b
<1>7. c \in Requests /\ c.stage = "set" /\ c.set = pubs /\ c.task = b.task
  BY <1>5, <1>6 DEF Requests, Stages, KnownSet
<1>. HIDE DEF c
<1>8. RequestOK(p, c) BY <1>5, <1>6, <1>7 DEF RequestOK
<1>9. busy' \in [Peers -> Requests \cup {NoTask}] /\ busy'[p] = c
      /\ \A q \in Peers : q # p => busy'[q] = busy[q]
  BY <1>1, <1>2, <1>7 DEF Types
<1>10. Types' BY <1>1, <1>2, <1>9 DEF Types
<1>11. Coord' /\ Hist' BY <1>1, <1>2, <1>3, CoordStays
<1>12. ASSUME NEW q \in Peers, q # p PROVE (ClientOK(q) /\ Quiet(q))'
  BY <1>1, <1>4, <1>9, <1>12, ClientStays, QuietStays DEF Inv
<1>13. ClientOK(p)'
  <2>1. Queue(p)' = Queue(p) /\ Inbox(p)' = Inbox(p) BY <1>1 DEF Queue, Inbox
  <2>. QED BY <1>1, <1>2, <1>4, <1>8, <1>9, <2>1, ClientStep DEF ClientOK
<1>14. Quiet(p)' BY <1>1, <1>2 DEF Quiet, Inside, b
<1>. QED BY <1>10, <1>11, <1>12, <1>13, <1>14 DEF Inv
LEMMA Joined ==
    ASSUME NEW S, NEW s \in Seq(S), NEW t \in Seq(S)
    PROVE  /\ s \o t \in Seq(S)
           /\ \A i \in DOMAIN (s \o t) : \/ \E j \in DOMAIN s : (s \o t)[i] = s[j]
                                         \/ \E j \in DOMAIN t : (s \o t)[i] = t[j]
<1>1. /\ s \o t \in Seq(S) /\ Len(s) \in Nat /\ Len(t) \in Nat
      /\ DOMAIN s = 1..Len(s) /\ DOMAIN t = 1..Len(t) /\ DOMAIN (s \o t) = 1..(Len(s) + Len(t))
  OBVIOUS
<1>2. \A i \in 1..Len(s) : (s \o t)[i] = s[i] OBVIOUS
<1>3. \A i \in (Len(s) + 1)..(Len(s) + Len(t)) : (s \o t)[i] = t[i - Len(s)] OBVIOUS
<1>4. \A i \in (Len(s) + 1)..(Len(s) + Len(t)) : i - Len(s) \in 1..Len(t) BY <1>1
<1>5. \A i \in 1..(Len(s) + Len(t)) :
          i \in 1..Len(s) \/ i \in (Len(s) + 1)..(Len(s) + Len(t))
  BY <1>1
<1>. QED BY <1>1, <1>2, <1>3, <1>4, <1>5

LEMMA Single ==
    ASSUME NEW S, NEW x \in S
    PROVE  <<x>> \in Seq(S) /\ DOMAIN <<x>> = {1} /\ <<x>>[1] = x
OBVIOUS

\* Every client may be sent what a channel broadcasts, and the reply.
LEMMA ReplyOK ==
    ASSUME NEW p, NEW b, RequestOK(p, b)
    PROVE  DownOK(p, Message("reply", b)) /\ Message("reply", b) \in Messages
<1>1. b \in Requests BY DEF RequestOK
<1>2. Message("reply", b) \in Messages BY <1>1 DEF Message, Messages
<1>. QED BY <1>2 DEF DownOK, Message

LEMMA SetMessageOK ==
    ASSUME NEW q, NEW e \in Epochs, NEW f, KnownSet(f)
    PROVE  LET m == Message("set", [epoch |-> e, set |-> f]) IN DownOK(q, m) /\ m \in Messages
<1>1. [epoch |-> e, set |-> f] \in [epoch : Epochs, set : Lives] BY DEF KnownSet
<1>2. Message("set", [epoch |-> e, set |-> f]) \in Messages BY <1>1 DEF Message, Messages
<1>. QED BY <1>2 DEF DownOK, Message

LEMMA BlobMessageOK ==
    ASSUME NEW q, NEW b, Given(q, b), accepted \subseteq Blobs
    PROVE  DownOK(q, Message("blob", b)) /\ Message("blob", b) \in Messages
<1>1. Message("blob", b) \in Messages BY DEF Message, Messages, Given
<1>. QED BY <1>1 DEF DownOK, Message

LEMMA SealedByIs ==
    ASSUME NEW p, NEW s, SessionOK(p, s), NEW t
    PROVE  SealedBlob(s, t) = SealedBy(p, t)
BY DEF SessionOK, SealedBlob, SealedBy

LEMMA BroadcastOK ==
    ASSUME Inv, NEW p \in Peers, busy[p] # NoTask, NEW q \in Peers
    PROVE  /\ Broadcast(p, q) \in Seq(Messages)
           /\ \A i \in DOMAIN Broadcast(p, q) : DownOK(q, Broadcast(p, q)[i])
<1>. DEFINE b == busy[p]
<1>1. Types /\ ClientOK(p) /\ RequestOK(p, b) /\ SessionOK(p, sess[p]) BY DEF Inv, ClientOK
<1>2. b.epoch \in Epochs /\ KnownSet(b.set) BY <1>1 DEF RequestOK, Requests
<1>3. CASE b.stage = "set"
  <2>. DEFINE m == Message("set", [epoch |-> b.epoch, set |-> b.set])
  <2>1. DownOK(q, m) /\ m \in Messages BY <1>2, SetMessageOK
  <2>2. Broadcast(p, q) = <<m>> BY <1>3 DEF Broadcast
  <2>. HIDE DEF m
  <2>. QED BY <2>1, <2>2, Single
<1>4. CASE b.stage = "blob" /\ q = b.task.to
  <2>. DEFINE c == SealedBlob(sess[p], b.task)
  <2>1. c = SealedBy(p, b.task) BY <1>1, SealedByIs
  <2>2. c \in accepted /\ c.to = q BY <1>1, <1>4, <2>1 DEF RequestOK, SealedBy
  <2>3. Given(q, c) /\ accepted \subseteq Blobs BY <1>1, <2>2 DEF Given, Types
  <2>4. DownOK(q, Message("blob", c)) /\ Message("blob", c) \in Messages
    BY <2>3, BlobMessageOK
  <2>5. Broadcast(p, q) = <<Message("blob", c)>> BY <1>4 DEF Broadcast
  <2>. HIDE DEF c
  <2>. QED BY <2>4, <2>5, Single
<1>5. CASE ~(b.stage = "set" \/ (b.stage = "blob" /\ q = b.task.to))
  <2>1. Broadcast(p, q) = <<>> BY <1>5 DEF Broadcast
  <2>. QED BY <2>1, EmptySeq
<1>. QED BY <1>3, <1>4, <1>5

LEMMA SendInv == ASSUME Inv, NEW p \in Peers, Send(p) PROVE Inv'
<1>. USE DEF coordinator, conns, clients, history
<1>. DEFINE last(q) == IF q = p THEN <<Message("reply", busy[p])>> ELSE <<>>
<1>1. /\ UNCHANGED <<open, epoch, pubs, sealed, at, tearing, lives, sess, work, chan,
                     accepted, past, barred>>
      /\ busy[p] # NoTask /\ busy' = [busy EXCEPT ![p] = NoTask]
      /\ down' = [q \in Peers |-> IF ~Inside(q) THEN down[q]
                                  ELSE down[q] \o Broadcast(p, q) \o last(q)]
  BY DEF Send
<1>2. Types /\ Coord /\ Hist BY DEF Inv
<1>3. \A q : Enrolled(q)' <=> Enrolled(q) BY <1>1 DEF Enrolled
<1>4. Grows BY <1>1, <1>2, <1>3, GrowsSame
<1>5. ASSUME NEW q \in Peers
      PROVE  down'[q] \in Seq(Messages) /\ \A i \in DOMAIN down'[q] : DownOK(q, down'[q][i])
  <2>1. down[q] \in Seq(Messages) /\ \A i \in DOMAIN down[q] : DownOK(q, down[q][i])
    BY <1>2 DEF Types, Inv, ClientOK, Inbox
  <2>2. /\ Broadcast(p, q) \in Seq(Messages)
        /\ \A i \in DOMAIN Broadcast(p, q) : DownOK(q, Broadcast(p, q)[i])
    BY <1>1, BroadcastOK
  <2>3. last(q) \in Seq(Messages) /\ \A i \in DOMAIN last(q) : DownOK(q, last(q)[i])
    <3>1. DownOK(p, Message("reply", busy[p])) /\ Message("reply", busy[p]) \in Messages
      BY <1>1, ReplyOK DEF Inv, ClientOK
    <3>2. CASE q = p BY <3>1, <3>2, Single
    <3>3. CASE q # p BY <3>3, EmptySeq
    <3>. QED BY <3>2, <3>3
  <2>4. CASE Inside(q)
    <3>. DEFINE x == Broadcast(p, q)  y == last(q)  d == down[q]
    <3>1. down'[q] = (d \o x) \o y BY <1>1, <2>4
    <3>. HIDE DEF x, y, d
    <3>2. d \o x \in Seq(Messages) /\ \A i \in DOMAIN (d \o x) : DownOK(q, (d \o x)[i])
      BY <2>1, <2>2, Joined DEF x, d
    <3>. DEFINE z == d \o x
    <3>. HIDE DEF z
    <3>3. z \in Seq(Messages) /\ \A i \in DOMAIN z : DownOK(q, z[i]) BY <3>2 DEF z
    <3>4. y \in Seq(Messages) /\ \A i \in DOMAIN y : DownOK(q, y[i]) BY <2>3 DEF y
    <3>5. z \o y \in Seq(Messages) /\ \A i \in DOMAIN (z \o y) : DownOK(q, (z \o y)[i])
      BY <3>3, <3>4, Joined
    <3>. QED BY <3>1, <3>5 DEF z
  <2>5. CASE ~Inside(q) BY <1>1, <2>1, <2>5
  <2>. QED BY <2>4, <2>5
<1>6. Types'
  <2>1. down' \in [Peers -> Seq(Messages)] BY <1>1, <1>5
  <2>. QED BY <1>1, <1>2, <2>1 DEF Types
<1>7. Coord' /\ Hist' BY <1>1, <1>2, <1>3, CoordStays
<1>8. ASSUME NEW q \in Peers PROVE ClientOK(q)'
  <2>1. ClientOK(q) /\ Queue(q)' = Queue(q) BY <1>1 DEF Inv, Queue
  <2>2. \A m \in Inbox(q)' : DownOK(q, m) BY <1>5 DEF Inbox
  <2>3. busy'[q] \in {busy[q], NoTask} BY <1>1, <1>2 DEF Types
  <2>. QED BY <1>1, <1>4, <2>1, <2>2, <2>3, ClientStep DEF ClientOK
<1>9. ASSUME NEW q \in Peers PROVE Quiet(q)'
  <2>1. busy'[q] \in {busy[q], NoTask} /\ (~Inside(q) => down'[q] = down[q])
    BY <1>1, <1>2 DEF Types
  <2>. QED BY <1>1, <2>1 DEF Inv, Quiet, Inside
<1>. QED BY <1>6, <1>7, <1>8, <1>9 DEF Inv
-----------------------------------------------------------------------------
(* A session goes on.                                                       *)
LEMMA ProceedMoves ==
    ASSUME Inv, NEW p \in Peers, NEW r, NEW w, Proceed(p, r, w), Outcome(p, r),
           w \in PartialFunctions(Tasks, Int), \A t \in DOMAIN w : TaskOK(p, t) /\ t.at = "open"
    PROVE  /\ sess' \in [Peers -> Session] /\ work' \in [Peers -> PartialFunctions(Tasks, Int)]
           /\ chan' \in [Peers -> Seq(Tasks)]
           /\ \A q \in Peers : q # p => /\ sess'[q] = sess[q] /\ work'[q] = work[q]
                                        /\ chan'[q] = chan[q]
           /\ SessionOK(p, sess'[p])
           /\ \A t \in DOMAIN work'[p] : TaskOK(p, t) /\ t.at = "open"
           /\ \A t \in Queue(p)' : CallOK(p, t)
           /\ \A i \in DOMAIN chan'[p] : chan'[p][i].at = "register" => i = 1
           /\ \A q \in Peers : Enrolled(q)' <=> Enrolled(q)
<1>. DEFINE t == r.task
<1>1. Types /\ ClientOK(p) /\ Quiet(p) BY DEF Inv
<1>2. SessionOK(p, r.s) /\ r.s \in Session /\ TaskOK(p, t) /\ t \in Tasks /\ t.at # "register"
  BY DEF Outcome, SessionOK, TaskOK
<1>. DEFINE v == IF t.at = "open" THEN BagAdd(w, t) ELSE w
            c == IF t.at \in Calls THEN Append(chan[p], t) ELSE chan[p]
<1>3. sess' = [sess EXCEPT ![p] = r.s] /\ work' = [work EXCEPT ![p] = v]
  BY DEF Proceed
<1>4. chan' = [chan EXCEPT ![p] = c] BY <1>1 DEF Proceed, Calls, Types
<1>5. v \in PartialFunctions(Tasks, Int) /\ \A u \in DOMAIN v : TaskOK(p, u) /\ u.at = "open"
  <2>1. CASE t.at = "open"
    <3>1. v = BagAdd(w, t) BY <2>1
    <3>2. /\ BagAdd(w, t) \in PartialFunctions(Tasks, Int)
          /\ DOMAIN BagAdd(w, t) = DOMAIN w \cup {t}
      BY <1>2, BagMembers
    <3>. QED BY <1>2, <2>1, <3>1, <3>2
  <2>2. CASE t.at # "open" BY <2>2
  <2>. QED BY <2>1, <2>2
<1>6. /\ c \in Seq(Tasks)
      /\ \A i \in DOMAIN c : /\ CallOK(p, c[i]) /\ (c[i].at = "register" => i \in DOMAIN chan[p])
                             /\ i \in DOMAIN chan[p] => c[i] = chan[p][i]
      /\ DOMAIN chan[p] \subseteq DOMAIN c
  <2>1. chan[p] \in Seq(Tasks) /\ \A i \in DOMAIN chan[p] : CallOK(p, chan[p][i])
    BY <1>1 DEF Types, ClientOK, Queue
  <2>2. CASE t.at \in Calls
    <3>1. /\ c \in Seq(Tasks) /\ DOMAIN c = 1..(Len(chan[p]) + 1) /\ c[Len(chan[p]) + 1] = t
          /\ Len(chan[p]) \in Nat /\ DOMAIN chan[p] = 1..Len(chan[p])
          /\ \A i \in 1..Len(chan[p]) : c[i] = chan[p][i]
      BY <1>2, <2>1, <2>2, AppendLast
    <3>. HIDE DEF c
    <3>2. \A i \in DOMAIN c : i \in DOMAIN chan[p] \/ i = Len(chan[p]) + 1 BY <3>1
    <3>3. CallOK(p, t) BY <1>2, <2>2 DEF CallOK
    <3>4. DOMAIN chan[p] \subseteq DOMAIN c BY <3>1
    <3>. QED BY <1>2, <2>1, <3>1, <3>2, <3>3, <3>4
  <2>3. CASE t.at \notin Calls BY <2>1, <2>3
  <2>. QED BY <2>2, <2>3
<1>. HIDE DEF v, c
<1>7. sess'[p] = r.s /\ work'[p] = v /\ chan'[p] = c BY <1>1, <1>3, <1>4 DEF Types
<1>8. /\ sess' \in [Peers -> Session] /\ work' \in [Peers -> PartialFunctions(Tasks, Int)]
      /\ chan' \in [Peers -> Seq(Tasks)]
  BY <1>1, <1>2, <1>3, <1>4, <1>5, <1>6 DEF Types
<1>9. \A q \in Peers : q # p => /\ sess'[q] = sess[q] /\ work'[q] = work[q]
                                /\ chan'[q] = chan[q]
  BY <1>1, <1>3, <1>4 DEF Types
<1>10. \A u \in Queue(p)' : CallOK(p, u) BY <1>6, <1>7 DEF Queue
<1>11. \A i \in DOMAIN c : c[i].at = "register" => i = 1 BY <1>1, <1>6 DEF Quiet
<1>12. Enrolled(p)' <=> Enrolled(p) BY <1>6, <1>7 DEF Enrolled
<1>13. \A q \in Peers : Enrolled(q)' <=> Enrolled(q) BY <1>9, <1>12 DEF Enrolled
<1>. QED BY <1>2, <1>5, <1>7, <1>8, <1>9, <1>10, <1>11, <1>13

LEMMA ReceiveInv == ASSUME Inv, NEW p \in Peers, Receive(p) PROVE Inv'
<1>. USE DEF coordinator, conns, history
<1>. DEFINE m == Head(down[p])
<1>1. /\ UNCHANGED <<open, epoch, pubs, sealed, at, tearing, lives, busy, accepted, past, barred>>
      /\ Inside(p) /\ down[p] # <<>> /\ down' = [down EXCEPT ![p] = Tail(@)]
      /\ Proceed(p, Handled(p, m), work[p])
  BY DEF Receive
<1>2. Types /\ Coord /\ Hist /\ ClientOK(p) /\ Quiet(p) BY DEF Inv
<1>3. /\ Tail(down[p]) \in Seq(Messages) /\ m \in Inbox(p)
      /\ \A i \in DOMAIN Tail(down[p]) :
            i + 1 \in DOMAIN down[p] /\ Tail(down[p])[i] = down[p][i + 1]
  BY <1>1, <1>2, TailRest DEF Types, Inbox
<1>4. DownOK(p, m) /\ m \in Messages BY <1>2, <1>3 DEF ClientOK, DownOK
<1>5. Ready(p) BY <1>1, <1>2 DEF Ready, Quiet, Inside, Types
<1>6. SessionOK(p, sess[p]) BY <1>2 DEF ClientOK
<1>. DEFINE r == Handled(p, m)
<1>. HIDE DEF m
<1>7. Outcome(p, r)
  <2>1. CASE m.kind = "set"
    <3>1. m.body.epoch \in Epochs /\ KnownSet(m.body.set) BY <1>4, <2>1 DEF DownOK, Messages
    <3>2. Purpose(p, "set", NoBlob) BY DEF Purpose, Whys
    <3>3. Outcome(p, OnKeySet(sess[p], m.body.epoch, m.body.set, "set", NoBlob))
      BY <1>5, <1>6, <3>1, <3>2, OnKeySetOK
    <3>. QED BY <2>1, <3>3 DEF Handled
  <2>2. CASE m.kind = "blob"
    <3>1. Outcome(p, OnSealedKey(sess[p], m.body))
      BY <1>4, <1>5, <1>6, <2>2, OnSealedKeyOK DEF DownOK
    <3>. QED BY <2>2, <3>1 DEF Handled
  <2>3. CASE m.kind = "reply"
    <3>1. Outcome(p, Resume(sess[p], m.body.task, m.body))
      BY <1>4, <1>5, <1>6, <2>3, ResumeOK DEF DownOK
    <3>. QED BY <2>3, <3>1 DEF Handled
  <2>. QED BY <1>4, <2>1, <2>2, <2>3 DEF Messages
<1>. HIDE DEF r
<1>8. /\ work[p] \in PartialFunctions(Tasks, Int)
      /\ \A t \in DOMAIN work[p] : TaskOK(p, t) /\ t.at = "open"
  BY <1>2 DEF Types, ClientOK
<1>9. Proceed(p, r, work[p]) BY <1>1 DEF r
<1>10. /\ sess' \in [Peers -> Session] /\ work' \in [Peers -> PartialFunctions(Tasks, Int)]
       /\ chan' \in [Peers -> Seq(Tasks)]
       /\ \A q \in Peers : q # p => /\ sess'[q] = sess[q] /\ work'[q] = work[q]
                                    /\ chan'[q] = chan[q]
       /\ SessionOK(p, sess'[p])
       /\ \A t \in DOMAIN work'[p] : TaskOK(p, t) /\ t.at = "open"
       /\ \A t \in Queue(p)' : CallOK(p, t)
       /\ \A i \in DOMAIN chan'[p] : chan'[p][i].at = "register" => i = 1
       /\ \A q \in Peers : Enrolled(q)' <=> Enrolled(q)
  BY <1>7, <1>8, <1>9, ProceedMoves
<1>11. Grows BY <1>1, <1>2, <1>10, GrowsSame
<1>12. /\ down' \in [Peers -> Seq(Messages)] /\ down'[p] = Tail(down[p])
       /\ \A q \in Peers : q # p => down'[q] = down[q]
  BY <1>1, <1>2, <1>3 DEF Types
<1>13. Types' BY <1>1, <1>2, <1>10, <1>12 DEF Types
<1>14. Coord' /\ Hist' BY <1>1, <1>2, <1>10, CoordStays
<1>15. ASSUME NEW q \in Peers, q # p PROVE (ClientOK(q) /\ Quiet(q))'
  BY <1>1, <1>10, <1>11, <1>12, <1>15, ClientStays, QuietStays DEF Inv
<1>16. ClientOK(p)'
  <2>1. \A x \in Inbox(p)' : DownOK(p, x) BY <1>2, <1>3, <1>12 DEF Inbox, ClientOK
  <2>. QED BY <1>1, <1>2, <1>10, <1>11, <2>1, ClientStep DEF ClientOK
<1>17. Quiet(p)' BY <1>1, <1>2, <1>10 DEF Quiet, Inside
<1>. QED BY <1>13, <1>14, <1>15, <1>16, <1>17 DEF Inv

LEMMA UnsealInv == ASSUME Inv, NEW p \in Peers, Unseal(p) PROVE Inv'
<1>. USE DEF coordinator, conns, history
<1>1. /\ UNCHANGED <<open, epoch, pubs, sealed, at, tearing, lives, busy, down, accepted, past,
                     barred>> /\ Inside(p)
  BY DEF Unseal
<1>2. PICK t \in DOMAIN work[p] : Proceed(p, Opened(sess[p], t), BagRemove(work[p], t))
  BY DEF Unseal
<1>3. Types /\ Coord /\ Hist /\ ClientOK(p) /\ Quiet(p) BY DEF Inv
<1>4. Ready(p) BY <1>1, <1>3 DEF Ready, Quiet, Inside, Types
<1>5. TaskOK(p, t) /\ t.at = "open" /\ t \in Tasks /\ Given(p, t.blob)
  BY <1>2, <1>3 DEF ClientOK, TaskOK
<1>6. Outcome(p, Opened(sess[p], t)) BY <1>3, <1>4, <1>5, OpenedOK DEF ClientOK
<1>7. /\ BagRemove(work[p], t) \in PartialFunctions(Tasks, Int)
      /\ \A u \in DOMAIN BagRemove(work[p], t) : TaskOK(p, u) /\ u.at = "open"
  BY <1>3, <1>5, BagMembers DEF Types, ClientOK
<1>8. /\ sess' \in [Peers -> Session] /\ work' \in [Peers -> PartialFunctions(Tasks, Int)]
      /\ chan' \in [Peers -> Seq(Tasks)]
      /\ \A q \in Peers : q # p => /\ sess'[q] = sess[q] /\ work'[q] = work[q]
                                   /\ chan'[q] = chan[q]
      /\ SessionOK(p, sess'[p])
      /\ \A u \in DOMAIN work'[p] : TaskOK(p, u) /\ u.at = "open"
      /\ \A u \in Queue(p)' : CallOK(p, u)
      /\ \A i \in DOMAIN chan'[p] : chan'[p][i].at = "register" => i = 1
      /\ \A q \in Peers : Enrolled(q)' <=> Enrolled(q)
  BY <1>2, <1>6, <1>7, ProceedMoves
<1>9. Grows BY <1>1, <1>3, <1>8, GrowsSame
<1>10. Types' BY <1>1, <1>3, <1>8 DEF Types
<1>11. Coord' /\ Hist' BY <1>1, <1>3, <1>8, CoordStays
<1>12. ASSUME NEW q \in Peers, q # p PROVE (ClientOK(q) /\ Quiet(q))'
  BY <1>1, <1>8, <1>9, <1>12, ClientStays, QuietStays DEF Inv
<1>13. ClientOK(p)'
  <2>1. Inbox(p)' = Inbox(p) BY <1>1 DEF Inbox
  <2>. QED BY <1>1, <1>3, <1>8, <1>9, <2>1, ClientStep DEF ClientOK
<1>14. Quiet(p)' BY <1>1, <1>3, <1>8 DEF Quiet, Inside
<1>. QED BY <1>10, <1>11, <1>12, <1>13, <1>14 DEF Inv
-----------------------------------------------------------------------------
(* A new connection.                                                        *)
LEMMA NewClientOK ==
    ASSUME NEW p, NEW s, NEW t, NEW l, lives'[p] = l, sess'[p] = s, chan'[p] = <<t>>,
           work'[p] = Nothing, busy'[p] = NoTask, down'[p] = <<>>, KnownSet(Nothing)',
           s \in Session, s.id = p, s.life = l, s.set = Nothing, s.key = NoKey,
           s.leaderKey = NoKey, s.sealedSent = {},
           t \in Tasks, t.at = "register", t.why = "start"
    PROVE  ClientOK(p)'
<1>1. SessionOK(p, s)' BY DEF SessionOK, Held
<1>2. CallOK(p, t)' BY DEF CallOK, TaskOK, Calls
<1>3. Queue(p)' = {t} BY Single DEF Queue
<1>4. Inbox(p)' = {} /\ DOMAIN work'[p] = {} BY NothingPartial DEF Inbox
<1>. QED BY <1>1, <1>2, <1>3, <1>4 DEF ClientOK

LEMMA JoinInv == ASSUME Inv, NEW p \in Peers, Join(p) PROVE Inv'
<1>. USE DEF history
<1>. DEFINE l == lives[p] + 1  s == NewSession(p, l)  t == Task("register", "start", NoBlob)
<1>1. /\ UNCHANGED <<epoch, pubs, sealed, tearing, busy, down, accepted, past, barred>>
      /\ open' = TRUE /\ at[p] = "out" /\ lives[p] < MaxLives
      /\ at' = [at EXCEPT ![p] = "in"] /\ lives' = [lives EXCEPT ![p] = l]
      /\ Proceed(p, Result(s, t), Nothing)
  BY DEF Join
<1>2. Types /\ Coord /\ Hist /\ Quiet(p) BY DEF Inv
<1>3. chan[p] = <<>> /\ busy[p] = NoTask /\ down[p] = <<>> /\ work[p] = Nothing
  BY <1>1, <1>2 DEF Quiet, Inside
<1>4. lives[p] \in 0..MaxLives /\ l \in 1..MaxLives /\ l \in 0..MaxLives /\ l > lives[p]
      /\ l \in Nat
  BY <1>1, <1>2, BoundAssumption DEF Types
<1>5. t \in Tasks /\ t.at = "register" /\ t.why = "start" BY TaskFields DEF Calls, Whys
<1>6. s \in Session /\ s.id = p /\ s.life = l /\ s.set = Nothing /\ s.key = NoKey
      /\ s.leaderKey = NoKey /\ s.sealedSent = {}
  BY <1>4, NewSessionOK
<1>. HIDE DEF s, t
<1>7. sess' = [sess EXCEPT ![p] = s] /\ chan' = [chan EXCEPT ![p] = <<t>>]
      /\ work' = [work EXCEPT ![p] = Nothing]
  <2>1. Append(chan[p], t) = <<t>> BY <1>3
  <2>. QED BY <1>1, <1>2, <1>5, <2>1 DEF Proceed, Result, Types
<1>8. /\ sess'[p] = s /\ chan'[p] = <<t>> /\ work'[p] = Nothing /\ lives'[p] = l /\ at'[p] = "in"
      /\ \A q \in Peers : q # p => /\ sess'[q] = sess[q] /\ chan'[q] = chan[q]
                                   /\ work'[q] = work[q] /\ lives'[q] = lives[q]
                                   /\ at'[q] = at[q]
  BY <1>1, <1>2, <1>7 DEF Types
<1>9. ~Enrolled(p)' /\ \A q \in Peers : q # p => (Enrolled(q)' <=> Enrolled(q))
  <2>1. DOMAIN chan'[p] = {1} /\ chan'[p][1] = t BY <1>5, <1>8, Single
  <2>. QED BY <1>5, <1>8, <2>1 DEF Enrolled
<1>10. Grows
  <2>1. \A q \in Peers : lives[q] \in Nat BY <1>2, BoundAssumption DEF Types
  <2>2. \A q \in Peers : lives'[q] \in Nat BY <1>4, <1>8, <2>1
  <2>. QED BY <1>1, <1>4, <1>8, <1>9, <2>1, <2>2 DEF Grows
<1>11. Types'
  <2>1. lives' \in [Peers -> 0..MaxLives] /\ at' \in [Peers -> {"out", "in", "closing"}]
    BY <1>1, <1>2, <1>4 DEF Types
  <2>2. <<t>> \in Seq(Tasks) BY <1>5, Single
  <2>3. chan' \in [Peers -> Seq(Tasks)] /\ sess' \in [Peers -> Session]
    BY <1>2, <1>6, <1>7, <2>2 DEF Types
  <2>4. work' \in [Peers -> PartialFunctions(Tasks, Int)]
    BY <1>2, <1>7, NothingPartial DEF Types
  <2>. QED BY <1>1, <1>2, <2>1, <2>3, <2>4 DEF Types
<1>12. Coord'
  <2>1. \A f \in {pubs'} : KnownSet(f)' BY <1>1, <1>2, <1>10, KnownSetStays DEF Coord
  <2>2. DOMAIN pubs \subseteq Peers BY <1>2, Partial DEF Types, Lives
  <2>3. \A q \in DOMAIN pubs' : Enrolled(q)' => pubs'[q] = lives'[q]
    BY <1>1, <1>2, <1>8, <1>9, <2>2 DEF Coord
  <2>. QED BY <1>1, <1>2, <2>1, <2>3 DEF Coord, SealedIsCurrent, Registered
<1>13. Hist'
  <2>1. Written' BY <1>1, <1>2, <1>10, KnownStays DEF Hist, Written
  <2>2. \A b : Live(b)' <=> Live(b) BY <1>1 DEF Live, Registered
  <2>3. Aged' /\ Spent' BY <1>1, <1>2, <2>2 DEF Hist, Aged, Spent
  <2>4. \A b \in accepted : (b.from = p => b.life # l) /\ (b.to = p => b.toLife # l)
        /\ b.to \in Peers
    <3>. SUFFICES ASSUME NEW b \in accepted
                  PROVE  (b.from = p => b.life # l) /\ (b.to = p => b.toLife # l) /\ b.to \in Peers
      OBVIOUS
    <3>1. Known(b.from, b.life) /\ Known(b.to, b.toLife) BY <1>2 DEF Hist, Written
    <3>. QED BY <1>4, <3>1 DEF Known
  <2>5. Before' BY <1>1, <1>2, <1>8, <1>9, <2>2, <2>4 DEF Hist, Before
  <2>6. Unseen' BY <1>1, <1>2, <1>8, <2>4 DEF Hist, Unseen
  <2>. QED BY <2>1, <2>3, <2>5, <2>6 DEF Hist
<1>14. ASSUME NEW q \in Peers, q # p PROVE (ClientOK(q) /\ Quiet(q))'
  BY <1>1, <1>8, <1>10, <1>14, ClientStays, QuietStays DEF Inv
<1>15. ClientOK(p)'
  <2>1. KnownSet(Nothing)' BY <1>10, NothingKnown, KnownSetStays
  <2>. QED BY <1>1, <1>3, <1>5, <1>6, <1>8, <2>1, NewClientOK
<1>16. Quiet(p)' BY <1>4, <1>5, <1>8, Single DEF Quiet, Inside
<1>. QED BY <1>11, <1>12, <1>13, <1>14, <1>15, <1>16 DEF Inv
-----------------------------------------------------------------------------
(* The channel serves a request.                                            *)
LEMMA Served ==
    ASSUME Inv, NEW p \in Peers, NEW kind, Begun(p, kind)
    PROVE  /\ UNCHANGED <<at, tearing, lives, sess, work, down>>
           /\ at[p] # "out" /\ Head(chan[p]).at = kind /\ CallOK(p, Head(chan[p]))
           /\ chan' \in [Peers -> Seq(Tasks)] /\ Queue(p)' \subseteq Queue(p)
           /\ \A q \in Peers : q # p => chan'[q] = chan[q] /\ (Enrolled(q)' <=> Enrolled(q))
           /\ Enrolled(p)' /\ (Enrolled(p) <=> kind # "register")
<1>. USE DEF conns, clients
<1>1. /\ UNCHANGED <<at, tearing, lives, sess, work, down>>
      /\ at[p] # "out" /\ chan[p] # <<>> /\ Head(chan[p]).at = kind
      /\ chan' = [chan EXCEPT ![p] = Tail(chan[p])]
  BY DEF Begun
<1>2. Types /\ ClientOK(p) /\ Quiet(p) BY DEF Inv
<1>3. /\ Tail(chan[p]) \in Seq(Tasks) /\ 1 \in DOMAIN chan[p] /\ Head(chan[p]) = chan[p][1]
      /\ \A i \in DOMAIN Tail(chan[p]) :
            i + 1 \in DOMAIN chan[p] /\ i + 1 # 1 /\ Tail(chan[p])[i] = chan[p][i + 1]
  BY <1>1, <1>2, TailRest DEF Types
<1>4. chan'[p] = Tail(chan[p]) /\ \A q \in Peers : q # p => chan'[q] = chan[q]
  BY <1>1, <1>2 DEF Types
<1>5. chan' \in [Peers -> Seq(Tasks)] BY <1>1, <1>2, <1>3 DEF Types
<1>6. Queue(p)' \subseteq Queue(p) BY <1>3, <1>4 DEF Queue
<1>7. CallOK(p, Head(chan[p])) BY <1>2, <1>3 DEF ClientOK, Queue
<1>8. Enrolled(p)' BY <1>2, <1>3, <1>4 DEF Enrolled, Quiet
<1>9. Enrolled(p) <=> kind # "register" BY <1>1, <1>2, <1>3 DEF Enrolled, Quiet
<1>10. \A q \in Peers : q # p => (Enrolled(q)' <=> Enrolled(q)) BY <1>4 DEF Enrolled
<1>. QED BY <1>1, <1>4, <1>5, <1>6, <1>7, <1>8, <1>9, <1>10

LEMMA RequestFields ==
    ASSUME NEW t \in Tasks, NEW stage \in Stages, NEW ok \in BOOLEAN, NEW e \in Epochs,
           NEW f \in Lives
    PROVE  LET b == [task |-> t, stage |-> stage, ok |-> ok, epoch |-> e, set |-> f]
           IN  b \in Requests /\ b.task = t /\ b.stage = stage /\ b.set = f
BY DEF Requests

\* Every client after a channel has begun to serve a request.
LEMMA ServedClients ==
    ASSUME Inv, NEW p \in Peers, NEW kind, Begun(p, kind), Grows,
           NEW b, RequestOK(p, b) \/ RequestOK(p, b)', busy' = [busy EXCEPT ![p] = b]
    PROVE  /\ \A q \in Peers : ClientOK(q)' /\ Quiet(q)'
           /\ busy' \in [Peers -> Requests \cup {NoTask}]
<1>1. /\ UNCHANGED <<at, tearing, lives, sess, work, down>> /\ at[p] # "out"
      /\ Queue(p)' \subseteq Queue(p) /\ Enrolled(p)'
      /\ \A q \in Peers : q # p => chan'[q] = chan[q]
  BY Served
<1>2. Types /\ ClientOK(p) /\ Quiet(p) BY DEF Inv
<1>3. b \in Requests BY DEF RequestOK
<1>4. /\ busy' \in [Peers -> Requests \cup {NoTask}] /\ busy'[p] = b
      /\ \A q \in Peers : q # p => busy'[q] = busy[q]
  BY <1>2, <1>3 DEF Types
<1>5. ASSUME NEW q \in Peers, q # p PROVE ClientOK(q)' /\ Quiet(q)'
  BY <1>1, <1>4, <1>5, ClientStays, QuietStays DEF Inv
<1>6. ClientOK(p)'
  <2>1. Inbox(p)' = Inbox(p) BY <1>1 DEF Inbox
  <2>. QED BY <1>1, <1>2, <1>4, <2>1, ClientStep DEF ClientOK
<1>7. Quiet(p)' BY <1>1, <1>2 DEF Quiet, Inside, Enrolled
<1>. QED BY <1>4, <1>5, <1>6, <1>7

LEMMA FetchInv == ASSUME Inv, NEW p \in Peers, FetchKeySet(p) PROVE Inv'
<1>. USE DEF coordinator, history
<1>. DEFINE t == Head(chan[p])
            b == [task |-> t, stage |-> "reply", ok |-> open, epoch |-> epoch, set |-> pubs]
<1>1. /\ Begun(p, "keyset") /\ busy' = [busy EXCEPT ![p] = b]
      /\ UNCHANGED <<open, epoch, pubs, sealed, accepted, past, barred>>
  BY DEF FetchKeySet, Busy
<1>2. /\ UNCHANGED <<at, tearing, lives, sess, work, down>> /\ CallOK(p, t)
      /\ chan' \in [Peers -> Seq(Tasks)]
      /\ \A q \in Peers : Enrolled(q)' <=> Enrolled(q)
  BY <1>1, Served
<1>3. Types /\ Coord /\ Hist BY DEF Inv
<1>4. Grows BY <1>1, <1>2, <1>3, GrowsSame
<1>5. RequestOK(p, b)
  <2>1. t \in Tasks BY <1>2 DEF CallOK, TaskOK
  <2>2. KnownSet(pubs) BY <1>3 DEF Coord
  <2>. HIDE DEF t
  <2>3. b \in Requests /\ b.task = t /\ b.stage = "reply" /\ b.set = pubs
    BY <1>3, <2>1, RequestFields DEF Types, Stages
  <2>. QED BY <1>2, <2>2, <2>3 DEF RequestOK
<1>. HIDE DEF b
<1>6. /\ \A q \in Peers : ClientOK(q)' /\ Quiet(q)'
      /\ busy' \in [Peers -> Requests \cup {NoTask}]
  BY <1>1, <1>4, <1>5, ServedClients
<1>7. Types' BY <1>1, <1>2, <1>3, <1>6 DEF Types
<1>8. Coord' /\ Hist' BY <1>1, <1>2, <1>3, CoordStays
<1>. QED BY <1>6, <1>7, <1>8 DEF Inv
-----------------------------------------------------------------------------
(* Registration.                                                            *)
LEMMA RefusedInv ==
    ASSUME Inv, NEW p \in Peers, Begun(p, "register"), ~open,
           Busy(p, "reply", FALSE, 0, Nothing), UNCHANGED <<coordinator, history>>
    PROVE  Inv'
<1>. USE DEF coordinator, history
<1>. DEFINE t == Head(chan[p])
            b == [task |-> t, stage |-> "reply", ok |-> FALSE, epoch |-> 0, set |-> Nothing]
<1>1. /\ UNCHANGED <<at, tearing, lives, sess, work, down>> /\ CallOK(p, t)
      /\ chan' \in [Peers -> Seq(Tasks)] /\ t.at = "register" /\ Enrolled(p)'
      /\ \A q \in Peers : q # p => (Enrolled(q)' <=> Enrolled(q))
  BY Served
<1>2. Types /\ Coord /\ Hist BY DEF Inv
<1>3. Grows BY <1>1, <1>2, GrowsSame
<1>4. RequestOK(p, b)
  <2>1. t \in Tasks /\ 0 \in Epochs /\ Nothing \in Lives
    BY <1>1, BoundAssumption, NothingPartial DEF CallOK, TaskOK, Epochs, Lives
  <2>. HIDE DEF t
  <2>2. b \in Requests /\ b.task = t /\ b.stage = "reply" /\ b.set = Nothing
    BY <2>1, RequestFields DEF Stages
  <2>. QED BY <1>1, <2>2, NothingKnown DEF RequestOK
<1>5. busy' = [busy EXCEPT ![p] = b] BY DEF Busy
<1>. HIDE DEF b
<1>6. /\ \A q \in Peers : ClientOK(q)' /\ Quiet(q)'
      /\ busy' \in [Peers -> Requests \cup {NoTask}]
  BY <1>3, <1>4, <1>5, ServedClients
<1>7. Types' BY <1>1, <1>2, <1>6 DEF Types
<1>8. pubs = Nothing /\ sealed = Nothing /\ epoch = 0 /\ DOMAIN Nothing = {}
  BY <1>2, NothingPartial DEF Coord
<1>9. Coord'
  <2>1. \A f \in {pubs'} : KnownSet(f)' BY <1>2, <1>3, KnownSetStays DEF Coord
  <2>. QED BY <1>8, <2>1 DEF Coord, SealedIsCurrent
<1>10. Hist'
  <2>1. \A c : ~Live(c)' BY <1>8 DEF Live, Registered
  <2>2. Written' BY <1>2, <1>3, KnownStays DEF Hist, Written
  <2>3. Aged' BY <2>1 DEF Aged
  <2>4. Before' BY <1>1, <1>2, <2>1 DEF Hist, Before
  <2>5. Unseen' BY <1>1, <1>2 DEF Hist, Unseen
  <2>6. Spent' BY <1>2, <2>1 DEF Hist, Spent
  <2>. QED BY <2>2, <2>3, <2>4, <2>5, <2>6 DEF Hist
<1>. QED BY <1>6, <1>7, <1>9, <1>10 DEF Inv

LEMMA EnlistedInv ==
    ASSUME Inv, NEW p \in Peers, Begun(p, "register"), open,
           sealed = Nothing \/ epoch < MaxEpoch,
           pubs' = [q \in DOMAIN pubs \cup {p} |-> IF q = p THEN sess[p].life ELSE pubs[q]],
           MembershipChanged, Busy(p, "read", TRUE, epoch', Nothing),
           past' = [past EXCEPT ![p] = accepted], UNCHANGED <<open, accepted, barred>>
    PROVE  Inv'
<1>. DEFINE t == Head(chan[p])  l == lives[p]
            b == [task |-> t, stage |-> "read", ok |-> TRUE, epoch |-> epoch', set |-> Nothing]
<1>1. /\ UNCHANGED <<at, tearing, lives, sess, work, down>> /\ at[p] # "out" /\ CallOK(p, t)
      /\ chan' \in [Peers -> Seq(Tasks)] /\ t.at = "register" /\ Enrolled(p)' /\ ~Enrolled(p)
      /\ \A q \in Peers : q # p => (Enrolled(q)' <=> Enrolled(q))
  BY Served
<1>2. Types /\ Coord /\ Hist /\ ClientOK(p) /\ Quiet(p) BY DEF Inv
<1>3. Grows BY <1>1, <1>2, GrowsSame
<1>4. l \in 1..MaxLives /\ sess[p].life = l BY <1>1, <1>2 DEF Quiet, ClientOK, SessionOK
<1>5. epoch \in 0..MaxEpoch /\ epoch \in Nat /\ MaxEpoch \in Nat /\ accepted \subseteq Blobs
  BY <1>2, BoundAssumption DEF Types, Epochs
<1>6. /\ epoch' \in Epochs /\ epoch' \in Nat /\ epoch' >= epoch /\ sealed' = Nothing
      /\ (sealed # Nothing => epoch' > epoch)
  BY <1>5 DEF MembershipChanged, Rotated, Epochs
<1>7. RequestOK(p, b)
  <2>1. t \in Tasks /\ Nothing \in Lives
    BY <1>1, NothingPartial DEF CallOK, TaskOK, Lives
  <2>. DEFINE e == epoch'
  <2>. HIDE DEF t, e
  <2>2. b \in Requests /\ b.task = t /\ b.stage = "read" /\ b.set = Nothing
    BY <1>6, <2>1, RequestFields DEF Stages, e
  <2>. QED BY <1>1, <2>2, NothingKnown DEF RequestOK
<1>8. busy' = [busy EXCEPT ![p] = b] BY DEF Busy
<1>. HIDE DEF b
<1>9. /\ \A q \in Peers : ClientOK(q)' /\ Quiet(q)'
      /\ busy' \in [Peers -> Requests \cup {NoTask}]
  BY <1>3, <1>7, <1>8, ServedClients
<1>10. DOMAIN pubs' = DOMAIN pubs \cup {p} /\ pubs'[p] = l
       /\ \A q \in DOMAIN pubs : q # p => pubs'[q] = pubs[q]
  BY <1>4
<1>11. /\ DOMAIN pubs \subseteq Peers
       /\ \A q \in DOMAIN pubs : pubs[q] \in 1..MaxLives /\ Known(q, pubs[q])
  <2>1. KnownSet(pubs) BY <1>2 DEF Coord
  <2>. QED BY <2>1, KnownLife
<1>12. pubs' \in Lives
  <2>1. \A q \in DOMAIN pubs' : pubs'[q] \in 1..MaxLives BY <1>4, <1>10, <1>11
  <2>2. pubs' = [q \in DOMAIN pubs' |-> pubs'[q]] OBVIOUS
  <2>3. DOMAIN pubs' \subseteq Peers BY <1>10, <1>11
  <2>. QED BY <2>1, <2>2, <2>3, PartialIntro DEF Lives
<1>13. Types'
  <2>1. sealed' \in PartialFunctions(Peers, Blobs) BY <1>6, NothingPartial
  <2>2. past' \in [Peers -> SUBSET Blobs] BY <1>2, <1>5 DEF Types
  <2>. QED BY <1>1, <1>2, <1>6, <1>9, <1>12, <2>1, <2>2 DEF Types
<1>14. Coord'
  <2>1. ASSUME NEW q \in DOMAIN pubs', NEW m, m = pubs'[q] PROVE Known(q, m)'
    <3>1. CASE q = p
      <4>1. m = l /\ lives'[p] = l BY <1>1, <1>10, <2>1, <3>1
      <4>. QED BY <1>1, <1>4, <3>1, <4>1 DEF Known
    <3>2. CASE q # p
      <4>1. Known(q, m) BY <1>10, <1>11, <2>1, <3>2
      <4>. QED BY <1>3, <4>1, KnownStays
    <3>. QED BY <3>1, <3>2
  <2>2. \A f \in {pubs'} : KnownSet(f)' BY <1>12, <2>1 DEF KnownSet
  <2>3. \A q \in DOMAIN pubs' : Enrolled(q)' => pubs'[q] = lives'[q]
    BY <1>1, <1>2, <1>10, <1>11 DEF Coord
  <2>4. DOMAIN sealed' = {} BY <1>6, NothingPartial
  <2>. QED BY <1>6, <2>2, <2>3, <2>4 DEF Coord, SealedIsCurrent
<1>15. Hist'
  <2>1. Written' BY <1>2, <1>3, KnownStays DEF Hist, Written
  <2>2. \A c \in accepted : ~(c.from = p /\ c.life = l) /\ ~(c.to = p /\ c.toLife = l)
    BY <1>1, <1>2 DEF Hist, Written, Known
  <2>3. ASSUME NEW c \in accepted, Live(c)' PROVE c.epoch < epoch'
    <3>1. c.from # p BY <1>10, <2>2, <2>3 DEF Live
    <3>2. Live(c) BY <1>10, <2>3, <3>1 DEF Live, Registered
    <3>3. c.epoch \in Nat BY <1>5 DEF Blobs, Epochs
    <3>4. c.epoch <= epoch /\ (c.epoch = epoch => sealed # Nothing)
      BY <1>2, <3>2 DEF Hist, Aged
    <3>. QED BY <1>5, <1>6, <3>3, <3>4
  <2>4. \A c \in accepted : c.epoch \in Nat BY <1>5 DEF Blobs, Epochs
  <2>5. Aged' BY <1>6, <2>3, <2>4 DEF Aged
  <2>6. past'[p] = accepted /\ \A q \in Peers : q # p => past'[q] = past[q]
    BY <1>2 DEF Types
  <2>7. Before' BY <1>1, <1>2, <2>2, <2>3, <2>6 DEF Hist, Before
  <2>8. Unseen'
    <3>. SUFFICES ASSUME NEW c \in accepted, c.toLife = lives[c.to], NEW d \in past'[c.to]
                  PROVE  d.key # c.key
      BY <1>1 DEF Unseen
    <3>1. c.to # p BY <2>2
    <3>2. c.to \in Peers BY <1>5 DEF Blobs
    <3>. QED BY <1>2, <2>6, <3>1, <3>2 DEF Hist, Unseen
  <2>9. Spent' BY <1>2, <2>3 DEF Hist, Spent
  <2>. QED BY <2>1, <2>5, <2>7, <2>8, <2>9 DEF Hist
<1>. QED BY <1>9, <1>13, <1>14, <1>15 DEF Inv

LEMMA RegisterInv == ASSUME Inv, NEW p \in Peers, Register(p) PROVE Inv'
<1>1. CASE /\ open /\ (sealed = Nothing \/ epoch < MaxEpoch)
           /\ pubs' = [q \in DOMAIN pubs \cup {p} |-> IF q = p THEN sess[p].life ELSE pubs[q]]
           /\ MembershipChanged /\ Busy(p, "read", TRUE, epoch', Nothing)
           /\ past' = [past EXCEPT ![p] = accepted]
  BY <1>1, EnlistedInv DEF Register
<1>2. CASE ~open /\ Busy(p, "reply", FALSE, 0, Nothing) /\ UNCHANGED <<epoch, pubs, sealed, past>>
  BY <1>2, RefusedInv DEF Register, coordinator, history
<1>. QED BY <1>1, <1>2 DEF Register
-----------------------------------------------------------------------------
(* Publication.                                                             *)
LEMMA UnsentInv ==
    ASSUME Inv, NEW p \in Peers, Begun(p, "publish"), Busy(p, "reply", FALSE, 0, Nothing),
           UNCHANGED <<coordinator, history>>
    PROVE  Inv'
<1>. USE DEF coordinator, history
<1>. DEFINE t == Head(chan[p])
            b == [task |-> t, stage |-> "reply", ok |-> FALSE, epoch |-> 0, set |-> Nothing]
<1>1. /\ UNCHANGED <<at, tearing, lives, sess, work, down>> /\ CallOK(p, t)
      /\ chan' \in [Peers -> Seq(Tasks)] /\ \A q \in Peers : Enrolled(q)' <=> Enrolled(q)
  BY Served
<1>2. Types /\ Coord /\ Hist BY DEF Inv
<1>3. Grows BY <1>1, <1>2, GrowsSame
<1>4. RequestOK(p, b)
  <2>1. t \in Tasks /\ 0 \in Epochs /\ Nothing \in Lives
    BY <1>1, BoundAssumption, NothingPartial DEF CallOK, TaskOK, Epochs, Lives
  <2>. HIDE DEF t
  <2>2. b \in Requests /\ b.task = t /\ b.stage = "reply" /\ b.set = Nothing
    BY <2>1, RequestFields DEF Stages
  <2>. QED BY <1>1, <2>2, NothingKnown DEF RequestOK
<1>5. busy' = [busy EXCEPT ![p] = b] BY DEF Busy
<1>. HIDE DEF b
<1>6. /\ \A q \in Peers : ClientOK(q)' /\ Quiet(q)'
      /\ busy' \in [Peers -> Requests \cup {NoTask}]
  BY <1>3, <1>4, <1>5, ServedClients
<1>7. Types' BY <1>1, <1>2, <1>6 DEF Types
<1>8. Coord' /\ Hist' BY <1>1, <1>2, CoordStays
<1>. QED BY <1>6, <1>7, <1>8 DEF Inv

\* The blob of a publication that the coordinator accepts.
LEMMA StoredBlob ==
    ASSUME Inv, NEW p \in Peers, lives[p] \in 1..MaxLives, NEW t, TaskOK(p, t),
           t.at = "publish"
    PROVE  LET c == SealedBy(p, t)
           IN  /\ c \in Blobs /\ c.from = p /\ c.life = lives[p] /\ c.to = t.to
               /\ c.toLife = t.life /\ c.epoch = t.key.epoch /\ c.key = t.key
               /\ t.key = KeyBy(p, lives[p], t.key.epoch) /\ Known(t.to, t.life)
<1>1. Known(t.to, t.life) /\ t.to \in Peers BY DEF TaskOK
<1>2. PICK e \in Epochs : t.key = KeyBy(p, lives[p], e) BY DEF TaskOK, OwnKey
<1>3. t.key.epoch = e BY <1>2 DEF KeyBy
<1>4. t.key \in Keys BY <1>2 DEF KeyBy, Keys
<1>5. t.life \in 1..MaxLives
  <2>1. lives[t.to] \in 0..MaxLives BY <1>1 DEF Inv, Types
  <2>. QED BY <1>1, <2>1, BoundAssumption DEF Known
<1>6. SealedBy(p, t) \in Blobs BY <1>1, <1>2, <1>3, <1>4, <1>5 DEF SealedBy, Blobs
<1>. QED BY <1>1, <1>2, <1>3, <1>6 DEF SealedBy

LEMMA StoredInv ==
    ASSUME Inv, NEW p \in Peers, NEW t, t = Head(chan[p]), Begun(p, "publish"),
           MayPublish(p, t.to, t.key.epoch), NEW c, c = SealedBlob(sess[p], t),
           sealed' = [q \in DOMAIN sealed' |-> sealed'[q]], sealed'[t.to] = c,
           DOMAIN sealed' = DOMAIN sealed \cup {t.to},
           \A q \in DOMAIN sealed : q # t.to => sealed'[q] = sealed[q],
           accepted' = accepted \cup {c}, Busy(p, "blob", TRUE, 0, Nothing),
           UNCHANGED <<open, epoch, pubs, past, barred>>
    PROVE  Inv'
<1>. DEFINE b == [task |-> t, stage |-> "blob", ok |-> TRUE, epoch |-> 0, set |-> Nothing]
<1>1. /\ UNCHANGED <<at, tearing, lives, sess, work, down>> /\ CallOK(p, t)
      /\ at[p] # "out" /\ t.at = "publish" /\ chan' \in [Peers -> Seq(Tasks)] /\ Enrolled(p)
      /\ \A q \in Peers : Enrolled(q)' <=> Enrolled(q)
  BY Served
<1>2. Types /\ Coord /\ Hist /\ Quiet(p) BY DEF Inv
<1>3. Grows BY <1>1, <1>2, GrowsSame
<1>4. lives[p] \in 1..MaxLives /\ TaskOK(p, t) /\ t \in Tasks
  BY <1>1, <1>2 DEF Quiet, CallOK, TaskOK
<1>5. c = SealedBy(p, t) BY SealedByIs DEF Inv, ClientOK
<1>6. /\ c \in Blobs /\ c.from = p /\ c.life = lives[p] /\ c.to = t.to
      /\ c.toLife = t.life /\ c.epoch = t.key.epoch /\ c.key = t.key
      /\ t.key = KeyBy(p, lives[p], t.key.epoch) /\ Known(t.to, t.life)
  BY <1>1, <1>4, <1>5, StoredBlob
<1>7. /\ open /\ Registered(p) /\ Registered(t.to) /\ c.epoch = epoch
      /\ t.to \notin DOMAIN sealed
  BY <1>6 DEF MayPublish
<1>8. pubs[p] = lives[p] BY <1>1, <1>2, <1>7 DEF Coord, Registered
<1>9. RequestOK(p, b)'
  <2>1. CallOK(p, t)' BY <1>1, <1>3, SoundStays
  <2>2. KnownSet(Nothing)' BY <1>3, NothingKnown, KnownSetStays
  <2>3. b \in Requests /\ b.task = t /\ b.stage = "blob" /\ b.set = Nothing
    <3>1. 0 \in Epochs /\ Nothing \in Lives BY BoundAssumption, NothingPartial DEF Epochs, Lives
    <3>. QED BY <1>4, <3>1, RequestFields DEF Stages
  <2>4. SealedBy(p, t)' = SealedBy(p, t) BY <1>1 DEF SealedBy
  <2>. HIDE DEF b
  <2>. QED BY <1>1, <1>5, <2>1, <2>2, <2>3, <2>4 DEF RequestOK
<1>10. busy' = [busy EXCEPT ![p] = b] BY DEF Busy
<1>. HIDE DEF b
<1>11. /\ \A q \in Peers : ClientOK(q)' /\ Quiet(q)'
       /\ busy' \in [Peers -> Requests \cup {NoTask}]
  BY <1>3, <1>9, <1>10, ServedClients
<1>12. /\ DOMAIN sealed' = DOMAIN sealed \cup {t.to} /\ sealed'[t.to] = c
       /\ \A q \in DOMAIN sealed : sealed'[q] = sealed[q]
  BY <1>7
<1>13. Types'
  <2>1. sealed \in [DOMAIN sealed -> Blobs] /\ DOMAIN sealed \subseteq Peers
    BY <1>2, Partial DEF Types
  <2>2. \A q \in DOMAIN sealed' : sealed'[q] \in Blobs BY <1>6, <1>12, <2>1
  <2>3. t.to \in Peers BY <1>6 DEF Known
  <2>4. DOMAIN sealed' \subseteq Peers BY <1>12, <2>1, <2>3
  <2>5. sealed' = [q \in DOMAIN sealed' |-> sealed'[q]] OBVIOUS
  <2>6. sealed' \in PartialFunctions(Peers, Blobs) BY <2>2, <2>4, <2>5, PartialIntro
  <2>7. accepted' \subseteq Blobs BY <1>2, <1>6 DEF Types
  <2>. QED BY <1>1, <1>2, <1>11, <2>6, <2>7 DEF Types
<1>14. Coord'
  <2>1. \A f \in {pubs'} : KnownSet(f)' BY <1>2, <1>3, KnownSetStays DEF Coord
  <2>2. DOMAIN pubs \subseteq Peers BY <1>2, Partial DEF Types, Lives
  <2>3. \A q \in DOMAIN pubs' : Enrolled(q)' => pubs'[q] = lives'[q]
    BY <1>1, <1>2, <2>2 DEF Coord
  <2>4. \A q \in DOMAIN sealed' : sealed'[q] \in accepted' /\ sealed'[q].to = q
    BY <1>2, <1>6, <1>12 DEF Coord
  <2>5. SealedIsCurrent'
    BY <1>2, <1>6, <1>7, <1>8, <1>12 DEF Coord, SealedIsCurrent, Registered
  <2>. QED BY <1>7, <2>1, <2>3, <2>4, <2>5 DEF Coord
<1>15. Hist'
  <2>1. \A d : Live(d)' <=> Live(d) BY DEF Live, Registered
  <2>2. \A d \in accepted : d.key = c.key => d.from = p /\ d.life = lives[p] /\ d.epoch = epoch
    <3>1. \A d \in accepted : d.key = KeyBy(d.from, d.life, d.epoch) BY <1>2 DEF Hist, Written
    <3>. QED BY <1>6, <1>7, <3>1, KeyFields
  <2>3. Written'
    <3>1. \A d \in accepted' : Known(d.from, d.life) /\ Known(d.to, d.toLife)
      <4>1. Known(c.from, c.life) BY <1>1, <1>4, <1>6 DEF Known
      <4>. QED BY <1>2, <1>6, <4>1 DEF Hist, Written
    <3>2. \A d \in accepted' : d.key = KeyBy(d.from, d.life, d.epoch)
      BY <1>2, <1>6 DEF Hist, Written
    <3>. QED BY <1>3, <3>1, <3>2, KnownStays DEF Written
  <2>4. Aged'
    <3>1. sealed' # Nothing BY <1>12, NothingPartial
    <3>2. epoch \in Nat BY <1>2, BoundAssumption DEF Types, Epochs
    <3>. QED BY <1>2, <1>7, <2>1, <3>1, <3>2 DEF Hist, Aged
  <2>5. Before' BY <1>1, <1>2, <2>1 DEF Hist, Before
  <2>6. Unseen'
    <3>. SUFFICES ASSUME NEW d \in accepted', d.toLife = lives[d.to], NEW g \in past[d.to],
                         g.key = d.key
                  PROVE  FALSE
      BY <1>1 DEF Unseen
    <3>1. CASE d \in accepted BY <1>2, <3>1 DEF Hist, Unseen
    <3>2. CASE d = c
      <4>1. d.to \in Peers /\ Enrolled(d.to) BY <1>6, <3>2 DEF Known
      <4>2. g \in accepted /\ (Live(g) => g.epoch < epoch) BY <1>2, <4>1 DEF Hist, Before
      <4>3. g.from = p /\ g.life = lives[p] /\ g.epoch = epoch BY <2>2, <3>2, <4>2
      <4>4. Live(g) BY <1>7, <1>8, <4>3 DEF Live
      <4>. QED BY <1>2, <4>2, <4>3, <4>4, BoundAssumption DEF Types, Epochs
    <3>. QED BY <3>1, <3>2
  <2>7. Spent' BY <1>2, <2>1 DEF Hist, Spent
  <2>. QED BY <2>3, <2>4, <2>5, <2>6, <2>7 DEF Hist
<1>. QED BY <1>11, <1>13, <1>14, <1>15 DEF Inv

LEMMA PublishInv == ASSUME Inv, NEW p \in Peers, Publish(p) PROVE Inv'
<1>. DEFINE t == Head(chan[p])  c == SealedBlob(sess[p], t)
<1>1. /\ Begun(p, "publish") /\ UNCHANGED <<open, epoch, pubs, past, barred>>
      /\ \/ /\ MayPublish(p, t.to, t.key.epoch)
            /\ sealed' = [q \in DOMAIN sealed \cup {t.to} |-> IF q = t.to THEN c ELSE sealed[q]]
            /\ accepted' = accepted \cup {c} /\ Busy(p, "blob", TRUE, 0, Nothing)
         \/ Busy(p, "reply", FALSE, 0, Nothing) /\ UNCHANGED <<sealed, accepted>>
  BY DEF Publish
<1>2. CASE Busy(p, "reply", FALSE, 0, Nothing) /\ UNCHANGED <<sealed, accepted>>
  <2>1. UNCHANGED <<coordinator, history>> BY <1>1, <1>2 DEF coordinator, history
  <2>. QED BY <1>1, <1>2, <2>1, UnsentInv
<1>3. CASE /\ MayPublish(p, t.to, t.key.epoch)
           /\ sealed' = [q \in DOMAIN sealed \cup {t.to} |-> IF q = t.to THEN c ELSE sealed[q]]
           /\ accepted' = accepted \cup {c} /\ Busy(p, "blob", TRUE, 0, Nothing)
  <2>1. PICK u : u = Head(chan[p]) OBVIOUS
  <2>2. PICK d : d = SealedBlob(sess[p], u) OBVIOUS
  <2>3. u = t /\ d = c BY <2>1, <2>2
  <2>4. /\ sealed' = [q \in DOMAIN sealed' |-> sealed'[q]] /\ sealed'[u.to] = d
        /\ DOMAIN sealed' = DOMAIN sealed \cup {u.to}
        /\ \A q \in DOMAIN sealed : q # u.to => sealed'[q] = sealed[q]
    BY <1>3, <2>3
  <2>5. /\ MayPublish(p, u.to, u.key.epoch) /\ accepted' = accepted \cup {d}
        /\ Busy(p, "blob", TRUE, 0, Nothing)
    BY <1>3, <2>3
  <2>. HIDE DEF t, c
  <2>. QED BY <1>1, <2>1, <2>2, <2>4, <2>5, StoredInv
<1>. QED BY <1>1, <1>2, <1>3
-----------------------------------------------------------------------------
(* Every step.                                                              *)
LEMMA StutterInv == ASSUME Inv, UNCHANGED vars PROVE Inv'
<1>. USE DEF vars, coordinator, conns, clients, history
<1>1. Types /\ Coord /\ Hist BY DEF Inv
<1>2. \A q : Enrolled(q)' <=> Enrolled(q) BY DEF Enrolled
<1>3. Grows BY <1>1, <1>2, GrowsSame
<1>4. Types' BY <1>1 DEF Types
<1>5. Coord' /\ Hist' BY <1>1, <1>2, CoordStays
<1>6. ASSUME NEW p \in Peers PROVE (ClientOK(p) /\ Quiet(p))'
  BY <1>3, ClientStays, QuietStays DEF Inv
<1>. QED BY <1>4, <1>5, <1>6 DEF Inv

LEMMA NextInv == ASSUME Inv, [Next]_vars PROVE Inv'
<1>1. ASSUME NEW p \in Peers, Channel(p) PROVE Inv'
  BY <1>1, RegisterInv, FetchInv, PublishInv, ReadInv, SendInv DEF Channel
<1>2. ASSUME NEW p \in Peers, NEW life \in 1..MaxLives, Teardown(p, life) PROVE Inv'
  BY <1>2, TeardownInv
<1>3. ASSUME NEW p \in Peers, Join(p) \/ Close(p) \/ LeaveRoom(p) \/ Receive(p) \/ Unseal(p)
      PROVE  Inv'
  BY <1>3, JoinInv, CloseInv, LeaveInv, ReceiveInv, UnsealInv
<1>. QED BY <1>1, <1>2, <1>3, RotateInv, StutterInv DEF Next

THEOREM InvHolds == Spec => []Inv
<1>1. Init => Inv BY InitInv
<1>2. Inv /\ [Next]_vars => Inv' BY NextInv
<1>. QED BY <1>1, <1>2, PTL DEF Spec
-----------------------------------------------------------------------------
(* The results.                                                             *)

\* The coordinator, the channels, the connections and the sessions of the
\* browsers keep to their types, whatever the interleaving of the calls that
\* e2ee-session.js has open at once.
THEOREM TypesHold == Spec => []TypeOK
BY InvHolds, InvTypeOK, PTL

\* A peer that registers never comes to hold a key that was sealed before it
\* did, however late the messages of the epoch before reach it: register_peer_key
\* rotates once a key was handed out, and publish_sealed takes none of an
\* earlier epoch.
THEOREM NoPastKeyHolds == Spec => []NoPastKey
BY InvHolds, InvNoPastKey, PTL

\* After remove_peer, publish_sealed accepts no key that the removed connection
\* knew, although a leader may still be distributing it.
THEOREM LeaverLockedOutHolds == Spec => []LeaverLockedOut
BY InvHolds, InvLockedOut, PTL

\* Calls of #distributeRoomKey that overlap in one session seal one and the
\* same key in one epoch.
THEOREM OneKeyHolds == Spec => []OneKeyPerSession
BY InvHolds, InvOneKey, PTL

\* The sealed keys of the coordinator are of its epoch, for registered peers,
\* from the public keys that are registered.
THEOREM SealedCurrentHolds == Spec => []SealedIsCurrent
<1>1. Inv => SealedIsCurrent BY DEF Inv, Coord
<1>. QED BY <1>1, InvHolds, PTL
=============================================================================
