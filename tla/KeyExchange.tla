----------------------------- MODULE KeyExchange -----------------------------
(***************************************************************************)
(* End-to-end key coordination in one room (ADR-0016): the coordinator      *)
(* Burble.Media.E2EE, the channel process of each peer                      *)
(* (BurbleWeb.RoomChannel) and the browser sessions (KeySession).           *)
(*                                                                         *)
(* The coordinator serves calls one at a time, so a call of it is one step. *)
(* A channel serves its client's requests in order and takes several steps  *)
(* for one: it calls the coordinator, reads the key set for a broadcast,    *)
(* and sends.  Broadcasts go straight to the clients' transports, so each   *)
(* client receives one stream of messages from many senders.                *)
(***************************************************************************)
EXTENDS KeySession, Sequences, BagsExt

CONSTANTS
    Leavers,        \* peers whose client may go away
    Rotating,       \* does the rotation scheduler ask for rotations?
    First,          \* peers alone in the room at the start, at most one
    MaxLives,       \* bound: connections of one peer
    MaxEpoch,       \* bound: epochs of the room
    NoTask

ASSUME BoundAssumption ==
    /\ MaxLives \in Nat \ {0} /\ MaxEpoch \in Nat
    /\ Leavers \subseteq Peers /\ Rotating \in BOOLEAN
    /\ First \subseteq Peers /\ Cardinality(First) <= 1

VARIABLES
    open,       \* does the coordinator know the room?
    epoch,      \* its epoch
    pubs,       \* registered public keys: a function from peers to lives
    sealed,     \* the sealed key for each peer: a function from peers to blobs
    at,         \* is the connection of a peer "out", "in" or "closing"?
    tearing,    \* closed connections that have yet to call remove_peer
    lives,      \* connections of each peer so far
    sess,       \* the session of each peer
    work,       \* blobs each session is opening, a bag of tasks
    chan,       \* requests queued at each channel process
    busy,       \* the request a channel is in the middle of
    down,       \* messages on the way to each client
    accepted,   \* history: blobs the coordinator stored
    past,       \* history: blobs stored before each peer's registration
    barred      \* history: keys known to connections that were removed

coordinator == <<open, epoch, pubs, sealed>>
conns == <<at, tearing, lives>>
clients == <<sess, work>>
history == <<accepted, past, barred>>
vars == <<coordinator, conns, clients, chan, busy, down, history>>
-----------------------------------------------------------------------------
Nothing == [q \in {} |-> 0]
Registered(p) == p \in DOMAIN pubs
Inside(p) == at[p] = "in"

Init ==
    /\ open = (First # {}) /\ epoch = 0 /\ pubs = [p \in First |-> 1] /\ sealed = Nothing
    /\ at = [p \in Peers |-> IF p \in First THEN "in" ELSE "out"] /\ tearing = {}
    /\ lives = [p \in Peers |-> IF p \in First THEN 1 ELSE 0]
    /\ sess = [p \in Peers |-> IF p \in First
                               THEN OnKeySet(NewSession(p, 1), 0, pubs, "start", NoBlob).s
                               ELSE NewSession(p, 0)]
    /\ work = [p \in Peers |-> Nothing]
    /\ chan = [p \in Peers |-> <<>>] /\ busy = [p \in Peers |-> NoTask]
    /\ down = [p \in Peers |-> <<>>]
    /\ accepted = {} /\ past = [p \in Peers |-> {}] /\ barred = {}

\* Session p goes on with result r: its next task awaits a reply or cryptography.
Proceed(p, r, waiting) ==
    /\ sess' = [sess EXCEPT ![p] = r.s]
    /\ chan' = IF r.task.at \in {"register", "keyset", "publish"}
               THEN [chan EXCEPT ![p] = Append(@, r.task)] ELSE chan
    /\ work' = [work EXCEPT ![p] = IF r.task.at = "open"
                                   THEN BagAdd(waiting, r.task) ELSE waiting]
-----------------------------------------------------------------------------
(* The coordinator.                                                         *)

\* rotate/2
Rotated == epoch' = epoch + 1 /\ sealed' = Nothing

\* Slip: a newcomer does not move the epoch.
SlipMembershipChanged == UNCHANGED <<epoch, sealed>>

\* maybe_rotate/2 without force: only once a key was distributed.
MembershipChanged ==
    IF sealed # Nothing THEN Rotated ELSE UNCHANGED <<epoch, sealed>>

\* The conditions of {:publish_sealed, ...}, without the sizes.
SlipMayPublish(from, to, e) ==
    /\ open /\ Registered(from) /\ Registered(to)
    /\ to \notin DOMAIN sealed

MayPublish(from, to, e) ==
    /\ open /\ Registered(from) /\ Registered(to)
    /\ e = epoch
    /\ to \notin DOMAIN sealed

\* Slip: the room keeps its epoch and its sealed keys.
SlipRemove(p) ==
    /\ open' = (DOMAIN pubs \ {p} # {})
    /\ pubs' = Restrict(pubs, DOMAIN pubs \ {p})
    /\ UNCHANGED <<epoch, sealed>>

\* {:remove_peer, ...}: the last registered peer takes the room with it.
Remove(p) ==
    IF open /\ DOMAIN pubs \ {p} # {}
    THEN Rotated /\ pubs' = Restrict(pubs, DOMAIN pubs \ {p}) /\ open' = TRUE
    ELSE open' = FALSE /\ epoch' = 0 /\ pubs' = Nothing /\ sealed' = Nothing

\* {:request_rotation, ...}, from the rotation scheduler.
Rotate ==
    /\ Rotating /\ open /\ epoch < MaxEpoch
    /\ Rotated
    /\ UNCHANGED <<open, pubs, conns, clients, chan, busy, down, history>>
-----------------------------------------------------------------------------
(* Connections come and go.                                                 *)

\* RoomChannel.join/3 makes the room known; the client then runs start().
Join(p) ==
    /\ at[p] = "out" /\ lives[p] < MaxLives
    /\ at' = [at EXCEPT ![p] = "in"]
    /\ lives' = [lives EXCEPT ![p] = @ + 1]
    /\ open' = TRUE
    /\ Proceed(p, Result(NewSession(p, lives[p] + 1), Task("register", "start", NoBlob)),
               Nothing)
    /\ UNCHANGED <<epoch, pubs, sealed, tearing, busy, down, history>>

\* The client goes; its channel still serves what it was sent.
Close(p) ==
    /\ p \in Leavers /\ Inside(p)
    /\ at' = [at EXCEPT ![p] = "closing"]
    /\ down' = [down EXCEPT ![p] = <<>>] /\ work' = [work EXCEPT ![p] = Nothing]
    /\ UNCHANGED <<coordinator, tearing, lives, sess, chan, busy, history>>

\* terminate/2 leaves the room, so that the user may join again,
LeaveRoom(p) ==
    /\ at[p] = "closing" /\ chan[p] = <<>> /\ busy[p] = NoTask
    /\ at' = [at EXCEPT ![p] = "out"] /\ tearing' = tearing \cup {<<p, lives[p]>>}
    /\ UNCHANGED <<coordinator, lives, clients, chan, busy, down, history>>

\* Connection `life' of p was sent the key of blob b, or made it.
Knew(p, life, b) == \/ b.to = p /\ b.toLife = life
                    \/ b.key.by = p /\ b.key.life = life

\* and then removes the peer from the key exchange.
Teardown(p, life) ==
    /\ <<p, life>> \in tearing
    /\ open => epoch < MaxEpoch
    /\ tearing' = tearing \ {<<p, life>>}
    /\ Remove(p)
    /\ barred' = barred \cup {b.key : b \in {b \in accepted : Knew(p, life, b)}}
    /\ UNCHANGED <<at, lives, clients, chan, busy, down, accepted, past>>
-----------------------------------------------------------------------------
(* The channel of p serves a request: a call of the coordinator, ...        *)

Begun(p, kind) ==
    /\ at[p] # "out" /\ busy[p] = NoTask /\ chan[p] # <<>>
    /\ Head(chan[p]).at = kind
    /\ chan' = [chan EXCEPT ![p] = Tail(@)]
    /\ UNCHANGED <<conns, clients, down>>

Busy(p, stage, ok, e, set) ==
    busy' = [busy EXCEPT ![p] = [task |-> Head(chan[p]), stage |-> stage, ok |-> ok,
                                 epoch |-> e, set |-> set]]

Register(p) ==
    /\ Begun(p, "register")
    /\ \/ /\ open /\ (sealed = Nothing \/ epoch < MaxEpoch)
          /\ pubs' = [q \in DOMAIN pubs \cup {p} |-> IF q = p THEN sess[p].life ELSE pubs[q]]
          /\ MembershipChanged
          /\ Busy(p, "read", TRUE, epoch', Nothing)
          /\ past' = [past EXCEPT ![p] = accepted]
       \/ /\ ~open
          /\ Busy(p, "reply", FALSE, 0, Nothing)
          /\ UNCHANGED <<epoch, pubs, sealed, past>>
    /\ UNCHANGED <<open, accepted, barred>>

FetchKeySet(p) ==
    /\ Begun(p, "keyset")
    /\ Busy(p, "reply", open, epoch, pubs)
    /\ UNCHANGED <<coordinator, history>>

Publish(p) ==
    LET t == Head(chan[p])
    IN /\ Begun(p, "publish")
       /\ \/ /\ MayPublish(p, t.to, t.key.epoch)
             /\ sealed' = [q \in DOMAIN sealed \cup {t.to} |->
                             IF q = t.to THEN SealedBlob(sess[p], t) ELSE sealed[q]]
             /\ accepted' = accepted \cup {SealedBlob(sess[p], t)}
             /\ Busy(p, "blob", TRUE, 0, Nothing)
          \/ /\ ~MayPublish(p, t.to, t.key.epoch)
             /\ Busy(p, "reply", FALSE, 0, Nothing)
             /\ UNCHANGED <<sealed, accepted>>
       /\ UNCHANGED <<open, epoch, pubs, past, barred>>

\* ... the key set read for the broadcast of a registration, ...
ReadKeySet(p) ==
    /\ busy[p] # NoTask /\ busy[p].stage = "read"
    /\ busy' = [busy EXCEPT ![p].stage = "set", ![p].set = pubs]
    /\ UNCHANGED <<coordinator, conns, clients, chan, down, history>>

\* ... and the broadcast, if any, with the reply behind it.
Message(kind, body) == [kind |-> kind, body |-> body]

Broadcast(p, q) ==
    LET b == busy[p]
    IN CASE b.stage = "set" -> <<Message("set", [epoch |-> b.epoch, set |-> b.set])>>
         [] b.stage = "blob" /\ q = b.task.to -> <<Message("blob", SealedBlob(sess[p], b.task))>>
         [] OTHER -> <<>>

Send(p) ==
    /\ busy[p] # NoTask /\ busy[p].stage # "read"
    /\ busy' = [busy EXCEPT ![p] = NoTask]
    /\ down' = [q \in Peers |->
                  IF ~Inside(q) THEN down[q]
                  ELSE down[q] \o Broadcast(p, q) \o
                       (IF q = p THEN <<Message("reply", busy[p])>> ELSE <<>>)]
    /\ UNCHANGED <<coordinator, conns, clients, chan, history>>
-----------------------------------------------------------------------------
(* The browser of p.                                                        *)

\* A broadcast starts a call of the session; a reply resumes one.
Handled(p, m) ==
    CASE m.kind = "set" -> OnKeySet(sess[p], m.body.epoch, m.body.set, "set", NoBlob)
      [] m.kind = "blob" -> OnSealedKey(sess[p], m.body)
      [] m.kind = "reply" -> Resume(sess[p], m.body.task, m.body)

Receive(p) ==
    /\ Inside(p) /\ down[p] # <<>>
    /\ down' = [down EXCEPT ![p] = Tail(@)]
    /\ Proceed(p, Handled(p, Head(down[p])), work[p])
    /\ UNCHANGED <<coordinator, conns, busy, history>>

Unseal(p) ==
    /\ Inside(p)
    /\ \E t \in DOMAIN work[p] :
          Proceed(p, Opened(sess[p], t), BagRemove(work[p], t))
    /\ UNCHANGED <<coordinator, conns, busy, down, history>>
-----------------------------------------------------------------------------
Channel(p) == Register(p) \/ FetchKeySet(p) \/ Publish(p) \/ ReadKeySet(p) \/ Send(p)

Next ==
    \/ \E p \in Peers : Join(p)
    \/ \E p \in Peers : Close(p)
    \/ \E p \in Peers : LeaveRoom(p)
    \/ \E p \in Peers, life \in 1..MaxLives : Teardown(p, life)
    \/ \E p \in Peers : Channel(p)
    \/ \E p \in Peers : Receive(p)
    \/ \E p \in Peers : Unseal(p)
    \/ Rotate

Spec == Init /\ [][Next]_vars

\* The coordinator, the channels and the browsers of connected peers keep
\* running; nobody has to join, leave or rotate.
Fairness ==
    \A p \in Peers :
       /\ WF_vars(Channel(p)) /\ WF_vars(Receive(p)) /\ WF_vars(Unseal(p))
       /\ WF_vars(LeaveRoom(p))
       /\ \A life \in 1..MaxLives : WF_vars(Teardown(p, life))

FairSpec == Spec /\ Fairness
-----------------------------------------------------------------------------
(* Properties.                                                              *)

Epochs == 0..MaxEpoch
Keys == [by : Peers, life : 1..MaxLives, epoch : Epochs, n : 0..3]
Blobs == [from : Peers, life : 1..MaxLives, to : Peers, toLife : 1..MaxLives,
          epoch : Epochs, key : Keys]
PartialFunctions(A, B) == UNION {[D -> B] : D \in SUBSET A}

\* The state of the coordinator, of the connections and of the sessions.
TypeOK ==
    /\ open \in BOOLEAN /\ epoch \in Epochs
    /\ pubs \in PartialFunctions(Peers, 1..MaxLives)
    /\ DOMAIN sealed \subseteq Peers /\ Range(sealed) \subseteq Blobs
    /\ at \in [Peers -> {"out", "in", "closing"}]
    /\ tearing \subseteq Peers \X (1..MaxLives) /\ lives \in [Peers -> 0..MaxLives]
    /\ \A p \in Peers :
          /\ sess[p].status \in {"registering", "awaiting", "ready", "failed"}
          /\ sess[p].epoch \in Epochs /\ sess[p].life = lives[p]
          /\ {sess[p].key, sess[p].leaderKey} \subseteq Keys \cup {NoKey}
          /\ sess[p].set \in PartialFunctions(Peers, 1..MaxLives)
          /\ sess[p].sealedSent \subseteq Peers \ {p}
          /\ \A t \in DOMAIN work[p] : t.at = "open" /\ t.blob \in Blobs
          /\ \A i \in DOMAIN chan[p] : chan[p][i].at \in {"register", "keyset", "publish"}
          /\ busy[p] # NoTask => busy[p].stage \in {"read", "set", "blob", "reply"}
          /\ \A i \in DOMAIN down[p] : down[p][i].kind \in {"set", "blob", "reply"}

\* A newcomer never learns a key that was handed out before it registered.
\* docs/decisions/0016-peer-held-group-keys.adoc:93, maybe_rotate of e2ee.ex.
NoPastKey ==
    \A p \in Peers : sess[p].key \notin {b.key : b \in past[p]}

\* Once the coordinator has removed a connection, it never again holds a
\* sealed copy of a key that connection knew, although the leader may still be
\* in the middle of distributing that key.  remove_peer and publish_sealed.
LeaverLockedOut ==
    \A q \in DOMAIN sealed : sealed[q].key \notin barred

\* A session seals one key per epoch, however often it starts over and however
\* its distributions interleave.  #distributeRoomKey and #leaderKey.
OneKeyPerSession ==
    \A a, b \in accepted :
       a.from = b.from /\ a.life = b.life /\ a.epoch = b.epoch => a.key = b.key

\* Every sealed key the coordinator keeps is of its epoch and between the
\* public keys registered now, on the sender's side.  register_peer_key,
\* remove_peer, publish_sealed.
SealedIsCurrent ==
    \A q \in DOMAIN sealed :
       LET b == sealed[q]
       IN /\ b.epoch = epoch /\ Registered(q)
          /\ Registered(b.from) /\ b.life = pubs[b.from]

\* Two sessions never hold different keys of one epoch.
NoSplitBrain ==
    \A p, q \in Peers :
       /\ Inside(p) /\ Inside(q) /\ NoKey \notin {sess[p].key, sess[q].key}
       /\ sess[p].key.epoch = sess[q].key.epoch
       => sess[p].key = sess[q].key

\* When everybody has come to stay, knows the last epoch and holds no older
\* key, all sessions end with one key, for good.
Current(p) ==
    /\ Inside(p) /\ Registered(p) /\ pubs[p] = lives[p] /\ sess[p].epoch = epoch
    /\ sess[p].key # NoKey => sess[p].key.epoch = epoch
Agreed == \A p, q \in Peers : sess[p].key # NoKey /\ sess[p].key = sess[q].key
EventuallyAgreed == <>[](\A p \in Peers : Current(p)) => <>[]Agreed

\* A session that holds a room key holds one of the current epoch.
HeldKeyIsCurrent ==
    \A p \in Peers : sess[p].key # NoKey => sess[p].key.epoch = sess[p].epoch

\* A registered session learns of every new epoch.
LearnsEpoch ==
    \A p \in Peers :
       (Inside(p) /\ Registered(p) /\ sess[p].epoch < epoch)
          ~> (sess[p].epoch = epoch \/ ~Inside(p))
=============================================================================
