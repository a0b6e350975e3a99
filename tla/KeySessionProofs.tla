--------------------------- MODULE KeySessionProofs ---------------------------
(***************************************************************************)
(* What KeySession's operators compute, whatever the session has been        *)
(* through: whom a distribution serves next, and what it leaves for later.   *)
(***************************************************************************)
EXTENDS KeySession, WellFoundedInduction, TLAPS

\* A set of ids has a least one.
LEMMA LeastIn == ASSUME NEW S, S \subseteq Nat, S # {} PROVE Least(S) \in S
<1>. DEFINE R == OpToRel(<, Nat)
<1>1. IsWellFoundedOn(R, Nat) BY NatLessThanWellFounded
<1>2. PICK x \in S : \A y \in S : ~(<<y, x>> \in R) BY <1>1, WFMin
<1>3. \A y \in S : ~(y < x) BY <1>2 DEF OpToRel
<1>4. \A y \in S : x <= y BY <1>3
<1>. QED BY <1>4 DEF Least

\* The wait to seal `key' to q, with the part S of `rest' still to serve.
Publication(key, rest, why, blob, q, S) ==
    [at |-> "publish", why |-> why, blob |-> blob, key |-> key, to |-> q, life |-> rest[q],
     rest |-> [x \in S |-> rest[x]]]

\* #distributeRoomKey serves a peer of the captured key set that is not served
\* yet, and goes on with a part of that key set.
LEMMA ServesNext ==
    ASSUME NEW s, NEW key, NEW rest, NEW why, NEW blob, DOMAIN rest \subseteq Peers,
           Unserved(s, rest) # {}
    PROVE  \E q \in DOMAIN rest \ (s.sealedSent \cup {s.id}), S \in SUBSET DOMAIN rest :
               SealNext(s, key, rest, why, blob) =
                   Result(s, Publication(key, rest, why, blob, q, S))
<1>. DEFINE q == Least(Unserved(s, rest))  S == {x \in DOMAIN rest : x > q}
            u == Task("publish", why, blob)
<1>1. Unserved(s, rest) \subseteq Nat BY PeerAssumption DEF Unserved
<1>2. q \in Unserved(s, rest) BY <1>1, LeastIn
<1>3. q \in DOMAIN rest \ (s.sealedSent \cup {s.id}) BY <1>2 DEF Unserved
<1>4. S \in SUBSET DOMAIN rest OBVIOUS
<1>5. SealNext(s, key, rest, why, blob) =
          Result(s, [u EXCEPT !.key = key, !.to = q, !.life = rest[q],
                              !.rest = [x \in S |-> rest[x]]])
  BY DEF SealNext, Restrict
<1>. HIDE DEF q, S
<1>. DEFINE l == rest[q]  f == [x \in S |-> rest[x]]
            R == [at : {"publish"}, why : {why}, blob : {blob}, key : {NoKey, key}, to : {0, q},
                  life : {0, l}, rest : {[x \in {} |-> 0], f}]
            v == [u EXCEPT !.key = key, !.to = q, !.life = l, !.rest = f]
<1>6. u \in R BY DEF Task
<1>. HIDE DEF u, l, f
<1>7. v \in R /\ v.key = key /\ v.to = q /\ v.life = l /\ v.rest = f BY <1>6
<1>. HIDE DEF v
<1>8. v = [at |-> "publish", why |-> why, blob |-> blob, key |-> key, to |-> q, life |-> l,
           rest |-> f]
  BY <1>7
<1>. QED BY <1>3, <1>4, <1>5, <1>8 DEF Publication, u, l, f, v

LEMMA ServesNobody ==
    ASSUME NEW s, NEW key, NEW rest, NEW why, NEW blob, Unserved(s, rest) = {}
    PROVE  SealNext(s, key, rest, why, blob) =
               AfterFetch(Status([s EXCEPT !.key = key], "ready"), why, blob)
BY DEF SealNext
===============================================================================
