------------------------------ MODULE KeySession ------------------------------
(***************************************************************************)
(* One browser's end of the key exchange: class E2EESession of              *)
(* client/web/e2ee-session.js, over class KeyEpoch of client/web/e2ee.js.   *)
(*                                                                         *)
(* JavaScript runs one piece of code at a time, from one await to the next, *)
(* but several calls of the session may be waiting at once: start(), and    *)
(* one onKeySet or onSealedKey per broadcast.  An operator below is such a  *)
(* piece: from a session and what it was waiting for, it gives the session  *)
(* afterwards and the task it waits for next.                               *)
(*                                                                         *)
(* A public key is known by the life (the connection) of its owner, and a   *)
(* room key by the session that made it, its epoch and a serial number.     *)
(***************************************************************************)
EXTENDS Integers, FiniteSets, Functions

CONSTANTS Peers, NoKey, NoBlob

\* Peers have numbers, so that they can elect the lowest.
ASSUME PeerAssumption == Peers \subseteq Nat \ {0} /\ IsFiniteSet(Peers)
\* "No key" is not a key.
ASSUME NoKeyAssumption == NoKey \notin [by : Peers, life : Nat, epoch : Nat, n : Nat]

Least(S) == CHOOSE x \in S : \A y \in S : x <= y

\* leaderOf: the lowest peer id.
LeaderOf(ids) == Least(ids)

\* new E2EESession, and the keypair start() makes.
NewSession(p, life) ==
    [id |-> p, life |-> life, status |-> "registering", epoch |-> 0,
     set |-> [q \in {} |-> 0], key |-> NoKey, leaderKey |-> NoKey, sealedSent |-> {}]

\* What a session waits for.  `why' is the call that waits: start(), onKeySet,
\* or onSealedKey that fetches the key set because its blob is `ahead' of the
\* epoch or of an `unknown' sender.
Task(at, why, blob) ==
    [at |-> at, why |-> why, blob |-> blob, key |-> NoKey, to |-> 0, life |-> 0,
     rest |-> [q \in {} |-> 0]]

Result(s, task) == [s |-> s, task |-> task]
Over(s) == Result(s, Task("over", "set", NoBlob))

\* advanceTo: a newer epoch drops the room key.
AdoptEpoch(s, epoch) ==
    IF epoch > s.epoch THEN [s EXCEPT !.epoch = epoch, !.key = NoKey] ELSE s

Status(s, status) == [s EXCEPT !.status = status]
-----------------------------------------------------------------------------
(* onSealedKey.                                                             *)

\* With the sender's public key at hand, open the blob.
OpenIfKnown(s, blob) ==
    IF blob.from \in DOMAIN s.set
    THEN Result(s, [Task("open", "set", blob) EXCEPT !.life = s.set[blob.from]])
    ELSE Over(s)

\* What follows a fetch of the key set, whether or not it succeeded.
AfterFetch(s, why, blob) ==
    CASE why = "unknown" -> OpenIfKnown(s, blob)
      [] why = "ahead" /\ blob.epoch = s.epoch -> OpenIfKnown(s, blob)
      [] OTHER -> Over(s)

\* Slip: a blob of a later epoch is taken for a stale one.
SlipOnSealedKey(s, blob) ==
    CASE blob.epoch # s.epoch -> Over(s)
      [] blob.epoch = s.epoch /\ blob.from \in DOMAIN s.set -> OpenIfKnown(s, blob)
      [] OTHER -> Result(s, Task("keyset", "unknown", blob))

\* A later epoch or an unknown sender: fetch the key set, once.
OnSealedKey(s, blob) ==
    CASE blob.epoch > s.epoch -> Result(s, Task("keyset", "ahead", blob))
      [] blob.epoch < s.epoch -> Over(s)
      [] blob.epoch = s.epoch /\ blob.from \in DOMAIN s.set -> OpenIfKnown(s, blob)
      [] OTHER -> Result(s, Task("keyset", "unknown", blob))

\* The blob opens if both ends derive the same pairwise key.  The room key is
\* installed whatever the epoch has become meanwhile.
Opened(s, t) ==
    IF t.blob.life = t.life /\ t.blob.toLife = s.life
    THEN Over(Status([s EXCEPT !.key = t.blob.key], "ready"))
    ELSE Over(Status(s, "awaiting"))
-----------------------------------------------------------------------------
(* #distributeRoomKey.                                                      *)

\* A call that fails: start() reports it, a broadcast handler is abandoned.
Failed(s, why, blob) ==
    IF why = "start" THEN Over(Status(s, "failed")) ELSE AfterFetch(s, why, blob)

\* Slip: the leader seals to itself as well.
SlipUnserved(s, rest) == DOMAIN rest \ s.sealedSent

\* Peers of the captured key set that still have to be served.
Unserved(s, rest) == DOMAIN rest \ (s.sealedSent \cup {s.id})

\* Publish to the next one, or finish: the key is installed whatever the epoch
\* has become meanwhile.  Sealing takes no step of its own: the publication it
\* precedes may wait in the channel just as long.
SealNext(s, key, rest, why, blob) ==
    LET left == Unserved(s, rest)
    IN IF left = {}
       THEN AfterFetch(Status([s EXCEPT !.key = key], "ready"), why, blob)
       ELSE Result(s, [Task("publish", why, blob) EXCEPT
                          !.key = key, !.to = Least(left), !.life = rest[Least(left)],
                          !.rest = Restrict(rest, {q \in DOMAIN rest : q > Least(left)})])

\* Slip: every call makes a fresh key.
SlipRoomKey(s) ==
    [by |-> s.id, life |-> s.life, epoch |-> s.epoch,
     n |-> IF s.leaderKey # NoKey /\ s.leaderKey.epoch = s.epoch
           THEN s.leaderKey.n + 1 ELSE 0]

\* One room key per epoch, not one per call.
RoomKey(s) ==
    IF s.leaderKey # NoKey /\ s.leaderKey.epoch = s.epoch
    THEN s.leaderKey
    ELSE [by |-> s.id, life |-> s.life, epoch |-> s.epoch, n |-> 0]

Distribute(s, why, blob) ==
    SealNext([s EXCEPT !.leaderKey = RoomKey(s)], RoomKey(s), s.set, why, blob)

\* What a distribution pushes.
SealedBlob(s, t) ==
    [from |-> s.id, life |-> s.life, to |-> t.to, toLife |-> t.life,
     epoch |-> t.key.epoch, key |-> t.key]
-----------------------------------------------------------------------------
(* onKeySet and start.                                                      *)

OnKeySet(s, epoch, set, why, blob) ==
    LET t == [AdoptEpoch(s, epoch) EXCEPT
                 !.set = set,
                 !.sealedSent = IF epoch > s.epoch THEN {} ELSE @]
    IN CASE Cardinality(DOMAIN set) <= 1 -> AfterFetch(Status(t, "awaiting"), why, blob)
         [] Cardinality(DOMAIN set) > 1 /\ t.key # NoKey ->
                AfterFetch(Status(t, "ready"), why, blob)
         [] Cardinality(DOMAIN set) > 1 /\ t.key = NoKey /\ LeaderOf(DOMAIN set) = s.id ->
                Distribute(t, why, blob)
         [] OTHER -> AfterFetch(Status(t, "awaiting"), why, blob)

\* A reply to the push that task t waits for.
Resume(s, t, reply) ==
    CASE ~reply.ok -> Failed(s, t.why, t.blob)
      [] reply.ok /\ t.at = "register" ->
            Result(AdoptEpoch(s, reply.epoch), Task("keyset", "start", NoBlob))
      [] reply.ok /\ t.at = "keyset" -> OnKeySet(s, reply.epoch, reply.set, t.why, t.blob)
      [] reply.ok /\ t.at = "publish" ->
            SealNext([s EXCEPT !.sealedSent = @ \cup {t.to}], t.key, t.rest, t.why, t.blob)

=============================================================================
