--------------------------- MODULE AdmissionProofs ---------------------------
(***************************************************************************)
(* Proofs about Admission, for every value of its constants: the invariant  *)
(* IndInv, and from it what the authority guarantees.  Credentials admit    *)
(* once and only where they were issued for, numbered effects run in order. *)
(***************************************************************************)
EXTENDS Admission, TLAPS

-----------------------------------------------------------------------------
(* The values a handler computes.                                           *)

LEMMA SeatTypes ==
    ASSUME TypeOK, NEW p \in Place
    PROVE  SeatAt(p) \in Seat \cup {NoSeat}
  BY DEF TypeOK, Place, SeatAt

LEMMA ConnectedSeat ==
    ASSUME TypeOK, SeatShape, NEW p \in Connected
    PROVE  /\ p \in Place /\ Seated(p) /\ SeatAt(p) \in Seat
           /\ SeatAt(p).pid \in Pids /\ SeatAt(p).lease \in Nat
           /\ SeatAt(p).monitor = SeatAt(p).lease
           /\ SeatAt(p).used /\ SeatAt(p).rejoin \in Token
           /\ sessions[p[1]] \in Session
  <1>1. p \in Place /\ Seated(p) /\ SeatAt(p).pid # Nil
    BY DEF Connected, Seated
  <1>2. SeatAt(p) \in Seat
    BY <1>1, SeatTypes DEF Seated
  <1>3. /\ SeatAt(p).pid \in Pids \cup {Nil} /\ SeatAt(p).lease \in Nat \cup {Nil}
        /\ SeatAt(p).rejoin \in Token \cup {Nil} /\ SeatAt(p).used \in BOOLEAN
    BY <1>2 DEF Seat
  <1>4. /\ SeatAt(p).lease # Nil /\ SeatAt(p).monitor = SeatAt(p).lease
        /\ SeatAt(p).used /\ SeatAt(p).rejoin # Nil
        /\ sessions[p[1]] # NoSession
    BY <1>1, <1>3 DEF SeatShape
  <1>5. sessions[p[1]] \in Session
    BY <1>1, <1>4 DEF TypeOK, Place
  <1> QED
    BY <1>1, <1>2, <1>3, <1>4, <1>5

\* Revoking sessions keeps the shape of the two maps.
LEMMA WithoutTypes ==
    ASSUME TypeOK, NEW gone
    PROVE  /\ SessionsWithout(gone) \in [SessionIds -> Session \cup {NoSession}]
           /\ SeatsWithout(gone) \in [SessionIds -> [Roles -> Seat \cup {NoSeat}]]
  BY DEF TypeOK, SessionsWithout, SeatsWithout

LEMMA VacatedType ==
    ASSUME NEW s \in Seat
    PROVE  Vacated(s) \in Seat
  BY DEF Vacated, Seat

\* Disconnecting seats, and one new monitor, keep the runtime's tables typed.
LEMMA DisconnectTypes ==
    ASSUME TypeOK, SeatShape, NEW cut, NEW fence \in BOOLEAN,
           NEW new \in SUBSET Lease, Disconnect(cut, fence, new)
    PROVE  /\ monitors' \subseteq Monitor /\ beam' \subseteq Watch
           /\ downs' \subseteq Nat /\ fenced' \subseteq Pids \X Nat
  <1>1. \A l \in new : /\ l.lease \in Nat /\ l.session \in SessionIds
                       /\ l.role \in Roles /\ l.pid \in Pids
    BY DEF Lease
  <1>2. monitors' \subseteq Monitor
    BY <1>1 DEF Disconnect, TypeOK, Monitor
  <1>3. beam' \subseteq Watch
    BY <1>1 DEF Disconnect, TypeOK, Watch
  <1>4. downs' \subseteq Nat
    BY <1>1 DEF Disconnect, TypeOK
  <1>5. \A p \in cut \cap Connected : <<SeatAt(p).pid, SeatAt(p).lease>> \in Pids \X Nat
    BY ConnectedSeat
  <1>6. fenced' \subseteq Pids \X Nat
    BY <1>5 DEF Disconnect, TypeOK
  <1> QED
    BY <1>2, <1>3, <1>4, <1>6
-----------------------------------------------------------------------------
(* What each handler does to one place and to one session.                  *)

LEMMA RevokePointwise ==
    ASSUME TypeOK, NEW gone,
           sessions' = SessionsWithout(gone), seats' = SeatsWithout(gone)
    PROVE  /\ \A p \in Place : SeatAt(p)' = IF p[1] \in gone THEN NoSeat ELSE SeatAt(p)
           /\ \A i \in SessionIds :
                sessions'[i] = IF i \in gone THEN NoSession ELSE sessions[i]
  BY DEF TypeOK, SessionsWithout, SeatsWithout, SeatAt, Place

\* The rosters a session may have.
RosterFunctions == UNION {[D -> Subjects] : D \in SUBSET Roles}

LEMMA ProvisionSeats ==
    ASSUME TypeOK, NEW gone, NEW id \in SessionIds,
           NEW roster \in RosterFunctions, NEW session \in Session,
           Provision(gone, id, roster, session)
    PROVE  \A p \in Place : SeatAt(p)' =
                IF p[1] = id THEN SeatFor(roster, p[2])
                ELSE IF p[1] \in gone THEN NoSeat ELSE SeatAt(p)
  <1>1. seats' = [SeatsWithout(gone) EXCEPT ![id] =
                    [r \in Roles |-> SeatFor(roster, r)]]
    BY DEF Provision
  <1>2. \A p \in Place : p[1] \in SessionIds /\ p[2] \in Roles
    BY DEF Place
  <1> QED
    BY <1>1, <1>2, WithoutTypes DEF SeatsWithout, SeatAt

LEMMA ProvisionSessions ==
    ASSUME TypeOK, NEW gone, NEW id \in SessionIds,
           NEW roster \in RosterFunctions, NEW session \in Session,
           Provision(gone, id, roster, session)
    PROVE  \A i \in SessionIds : sessions'[i] =
                IF i = id THEN session
                ELSE IF i \in gone THEN NoSession ELSE sessions[i]
  BY DEF Provision, SessionsWithout

LEMMA ClaimPointwise ==
    ASSUME TypeOK, NEW pid \in Pids, NEW subject \in Subjects, NEW expires \in Expiries,
           NEW id \in SessionIds, NEW audience, NEW role \in Roles, NEW epoch,
           NEW kind, NEW token,
           Claim(pid, subject, expires, id, audience, role, epoch, kind, token)
    PROVE  /\ id \notin Overdue
           /\ \A p \in Place : SeatAt(p)' =
                IF p = <<id, role>> THEN Occupied(SeatAt(p), pid, expires, role)
                ELSE IF p[1] \in Overdue THEN NoSeat ELSE SeatAt(p)
           /\ \A i \in SessionIds :
                sessions'[i] = IF i \in Overdue THEN NoSession ELSE sessions[i]
  <1> DEFINE v == Occupied(seats[id][role], pid, expires, role)
  <1>1. seats' = [SeatsWithout(Overdue) EXCEPT ![id][role] = v]
    BY DEF Claim
  <1>2. sessions' = SessionsWithout(Overdue) /\ id \notin Overdue
    BY DEF Claim, Live
  <1> HIDE DEF v
  <1>3. \A p \in Place : SeatAt(p)' =
            IF p = <<id, role>> THEN v ELSE SeatsWithout(Overdue)[p[1]][p[2]]
    <2> DEFINE f == SeatsWithout(Overdue)
    <2>1. f \in [SessionIds -> [Roles -> Seat \cup {NoSeat}]]
      BY WithoutTypes
    <2> HIDE DEF f
    <2>2. \A p \in Place : [f EXCEPT ![id][role] = v][p[1]][p[2]] =
            IF p = <<id, role>> THEN v ELSE f[p[1]][p[2]]
      BY <2>1 DEF Place
    <2> QED
      BY <1>1, <2>2 DEF SeatAt, f
  <1>4. \A p \in Place : SeatsWithout(Overdue)[p[1]][p[2]] =
            IF p[1] \in Overdue THEN NoSeat ELSE SeatAt(p)
    BY DEF SeatsWithout, SeatAt, Place
  <1>5. \A p \in Place : p = <<id, role>> => v = Occupied(SeatAt(p), pid, expires, role)
    BY DEF v, SeatAt
  <1> QED
    BY <1>2, <1>3, <1>4, <1>5 DEF SessionsWithout

LEMMA EffectPointwise ==
    ASSUME TypeOK, NEW pid \in Pids, NEW l \in leases, NEW seq \in Seqs \cup {Nil},
           Effect(pid, l, seq)
    PROVE  /\ l.session \notin Overdue /\ <<l.session, l.role>> \in Place
           /\ \A p \in Place : SeatAt(p)' =
                IF p = <<l.session, l.role>> THEN Numbered(SeatAt(p), seq)
                ELSE IF p[1] \in Overdue THEN NoSeat ELSE SeatAt(p)
           /\ \A i \in SessionIds :
                sessions'[i] = IF i \in Overdue THEN NoSession ELSE sessions[i]
  <1>1. l.session \in SessionIds /\ l.role \in Roles
    BY DEF TypeOK, Lease
  <1>2. sessions' = SessionsWithout(Overdue) /\ l.session \notin Overdue
    BY DEF Effect, EffectRuns
  <1> DEFINE v == Numbered(SeatsWithout(Overdue)[l.session][l.role], seq)
  <1>3. seats' = [SeatsWithout(Overdue) EXCEPT ![l.session][l.role] = v]
    BY DEF Effect
  <1>4. v = Numbered(seats[l.session][l.role], seq)
    BY <1>1, <1>2 DEF SeatsWithout
  <1> HIDE DEF v
  <1>5. \A p \in Place : SeatAt(p)' =
            IF p = <<l.session, l.role>> THEN v ELSE SeatsWithout(Overdue)[p[1]][p[2]]
    <2> DEFINE f == SeatsWithout(Overdue)
    <2>1. f \in [SessionIds -> [Roles -> Seat \cup {NoSeat}]]
      BY WithoutTypes
    <2> HIDE DEF f
    <2>2. \A p \in Place : [f EXCEPT ![l.session][l.role] = v][p[1]][p[2]] =
            IF p = <<l.session, l.role>> THEN v ELSE f[p[1]][p[2]]
      BY <1>1, <2>1 DEF Place
    <2> QED
      BY <1>3, <2>2 DEF SeatAt, f
  <1>6. \A p \in Place : SeatsWithout(Overdue)[p[1]][p[2]] =
            IF p[1] \in Overdue THEN NoSeat ELSE SeatAt(p)
    BY DEF SeatsWithout, SeatAt, Place
  <1>7. \A p \in Place : p = <<l.session, l.role>> => v = Numbered(SeatAt(p), seq)
    BY <1>4 DEF SeatAt
  <1>8. <<l.session, l.role>> \in Place
    BY <1>1 DEF Place
  <1> QED
    BY <1>2, <1>5, <1>6, <1>7, <1>8 DEF SessionsWithout

LEMMA LeavePointwise ==
    ASSUME TypeOK, NEW pid \in Pids, NEW l \in leases, Leave(pid, l)
    PROVE  /\ <<l.session, l.role>> \in Place
           /\ \A p \in Place : SeatAt(p)' =
                IF p = <<l.session, l.role>> THEN Vacated(SeatAt(p)) ELSE SeatAt(p)
           /\ sessions' = sessions
  <1>1. l.session \in SessionIds /\ l.role \in Roles
    BY DEF TypeOK, Lease
  <1>2. seats' = [seats EXCEPT ![l.session][l.role] = Vacated(seats[l.session][l.role])]
    BY DEF Leave
  <1>3. \A p \in Place : p = <<p[1], p[2]>> /\ p[1] \in SessionIds /\ p[2] \in Roles
    BY DEF Place
  <1>4. sessions' = sessions
    BY DEF Leave
  <1> QED
    BY <1>1, <1>2, <1>3, <1>4 DEF TypeOK, SeatAt, Place

LEMMA ForgetPointwise ==
    ASSUME Forget
    PROVE  /\ \A p \in Place : SeatAt(p)' = NoSeat
           /\ \A i \in SessionIds : sessions'[i] = NoSession
  BY DEF Forget, SeatAt, Place
-----------------------------------------------------------------------------
(* Type correctness and the shape of a seat.                                *)

\* A place holds one lease: two connected seats never share a lease id.
LEMMA HolderUnique ==
    ASSUME TypeOK, SeatShape, LeaseUnique, HeldGranted,
           NEW p \in Connected, NEW q \in Connected,
           SeatAt(p).lease = SeatAt(q).lease
    PROVE  p = q
  <1>1. PICK l \in leases : /\ l.lease = SeatAt(p).lease
                            /\ l.session = p[1] /\ l.role = p[2]
    BY DEF HeldGranted
  <1>2. PICK k \in leases : /\ k.lease = SeatAt(q).lease
                            /\ k.session = q[1] /\ k.role = q[2]
    BY DEF HeldGranted
  <1>3. k = l
    BY <1>1, <1>2 DEF LeaseUnique
  <1>4. p \in Place /\ q \in Place
    BY DEF Connected
  <1> QED
    BY <1>1, <1>2, <1>3, <1>4 DEF Place

\* A :DOWN is always about the one connected seat it was set up for.
LEMMA DownPointwise ==
    ASSUME TypeOK, SeatShape, LeaseUnique, HeldGranted, MonitorAgreement,
           NEW ref \in downs, Down(ref)
    PROVE  \E q \in Connected :
              /\ SeatAt(q).monitor = ref /\ SeatAt(q).pid \notin procs
              /\ \A p \in Place : SeatAt(p)' =
                    IF p = q THEN Vacated(SeatAt(p)) ELSE SeatAt(p)
              /\ monitors' = {m \in monitors : m.ref # ref}
              /\ downs' = downs \ {ref}
              /\ UNCHANGED <<sessions, beam, fenced, procs, clocks, fresh, issued,
                             leases, relays>>
  <1> DEFINE known == {m \in monitors : m.ref = ref}
             owned == {<<m.session, m.role>> : m \in
                         {x \in known : /\ seats[x.session][x.role] # NoSeat
                                        /\ seats[x.session][x.role].lease = x.lease}}
  <1>1. /\ seats' = [id \in SessionIds |-> [r \in Roles |->
                        IF <<id, r>> \in owned THEN Vacated(seats[id][r])
                        ELSE seats[id][r]]]
        /\ monitors' = monitors \ known
        /\ downs' = downs \ {ref}
        /\ UNCHANGED <<sessions, beam, fenced, procs, clocks, fresh, issued,
                       leases, relays>>
    BY DEF Down
  <1>2. PICK q \in Connected : SeatAt(q).monitor = ref /\ SeatAt(q).pid \notin procs
    BY DEF MonitorAgreement
  <1>3. q \in Place /\ Seated(q) /\ SeatAt(q).lease = ref
    BY <1>2, ConnectedSeat
  <1>4. \A m \in known : /\ m.session = q[1] /\ m.role = q[2] /\ m.lease = ref
    <2> TAKE m \in known
    <2>1. PICK p \in Connected :
            m = [ref |-> SeatAt(p).monitor, session |-> p[1], role |-> p[2],
                 lease |-> SeatAt(p).lease]
      BY DEF MonitorAgreement
    <2>2. m.ref = ref /\ SeatAt(p).lease = SeatAt(q).lease /\ m.lease = ref
      BY <2>1, <1>3, ConnectedSeat
    <2>3. p = q
      BY <2>2, HolderUnique
    <2> QED
      BY <2>1, <2>2, <2>3
  <1>5. [ref |-> SeatAt(q).monitor, session |-> q[1], role |-> q[2],
         lease |-> SeatAt(q).lease] \in known
    BY <1>2 DEF MonitorAgreement
  <1>6. owned = {q}
    <2>1. q = <<q[1], q[2]>>
      BY <1>3 DEF Place
    <2>2. \A m \in known : <<m.session, m.role>> = q
      BY <1>4, <2>1
    <2>3. \E m \in known : /\ seats[m.session][m.role] # NoSeat
                            /\ seats[m.session][m.role].lease = m.lease
      BY <1>3, <1>4, <1>5 DEF Seated, SeatAt
    <2> QED
      BY <2>2, <2>3
  <1>7. \A p \in Place : SeatAt(p)' = IF p = q THEN Vacated(SeatAt(p)) ELSE SeatAt(p)
    BY <1>1, <1>6 DEF Place, SeatAt
  <1>8. monitors' = {m \in monitors : m.ref # ref}
    BY <1>1
  <1> QED
    BY <1>1, <1>2, <1>7, <1>8

LEMMA SeatTypeUpdates ==
    ASSUME TypeOK, NEW s \in Seat
    PROVE  /\ \A seq \in Seqs \cup {Nil} : Numbered(s, seq) \in Seat
           /\ \A pid \in Pids, expires \in Expiries, role \in Roles :
                Occupied(s, pid, expires, role) \in Seat
  <1>1. Seqs \subseteq Int /\ Expiries \subseteq Int
    BY NumberAssumption
  <1>2. \A seq \in Seqs \cup {Nil} : Numbered(s, seq) \in Seat
    BY <1>1 DEF Numbered, Seat
  <1>3. fresh \in Nat
    BY DEF TypeOK
  <1>4. ASSUME NEW pid \in Pids, NEW expires \in Expiries, NEW role \in Roles
        PROVE  Occupied(s, pid, expires, role) \in Seat
    BY <1>1, <1>3 DEF Occupied, Seat, Token
  <1> QED
    BY <1>2, <1>4

LEMMA NewSeatType ==
    ASSUME TypeOK, NEW subject \in Subjects, NEW role \in Roles
    PROVE  NewSeat(subject, role) \in Seat
  BY DEF TypeOK, NewSeat, Seat, Token
-----------------------------------------------------------------------------
(* The kinds of step.  Create and Rotate provision; Close and Sweep revoke;  *)
(* Restart and EffectCrash forget.                                          *)

ProvisionStep(gone, id, roster, session) ==
    /\ gone \subseteq SessionIds
    /\ sessions[id] = NoSession \/ id \in gone
    /\ session.epoch = fresh
    /\ Provision(gone, id, roster, session)

RevokeStep(gone) ==
    /\ Revoke(gone)
    /\ UNCHANGED <<procs, clocks, fresh, issued, leases, relays>>

AnyProvision ==
    \E gone : \E id \in SessionIds, roster \in RosterFunctions, session \in Session :
        ProvisionStep(gone, id, roster, session)
AnyRevoke == \E gone \in SUBSET SessionIds : RevokeStep(gone)
AnyEffect ==
    \E pid \in Pids, l \in leases, seq \in Seqs \cup {Nil} : Effect(pid, l, seq)
AnyForget ==
    /\ Forget
    /\ \/ UNCHANGED relays
       \/ \E pid \in Pids, l \in leases, seq \in Seqs \cup {Nil} : EffectRuns(pid, l, seq)
AnyLeave == \E pid \in Pids, l \in leases : Leave(pid, l)
AnyDown == \E ref \in downs : Down(ref)
AnyDie == \E pid \in Pids : Die(pid)

LEMMA NewSessionType ==
    ASSUME TypeOK, NEW audience \in Audiences, NEW ttl \in Int, NEW revision \in Nat
    PROVE  /\ NewSession(audience, ttl, revision) \in Session
           /\ NewSession(audience, ttl, revision).epoch = fresh
  BY DEF TypeOK, NewSession, Session

LEMMA CreateProvisions ==
    ASSUME TypeOK, NEW id \in SessionIds, NEW audience \in Audiences,
           NEW roster \in Rosters, NEW ttl \in Ttls,
           Create(id, audience, roster, ttl)
    PROVE  AnyProvision
  <1> DEFINE s == NewSession(audience, ttl, 1)
  <1>1. roster \in RosterFunctions /\ ttl \in Int /\ 1 \in Nat
    BY RosterAssumption, NumberAssumption DEF RosterFunctions
  <1>2. Overdue \in SUBSET SessionIds
    BY DEF Overdue, Live
  <1>3. sessions[id] = NoSession \/ id \in Overdue
    BY DEF Create, Live
  <1>4. s \in Session /\ s.epoch = fresh
    BY <1>1, NewSessionType
  <1>5. Provision(Overdue, id, roster, s)
    BY DEF Create
  <1> HIDE DEF s
  <1>6. ProvisionStep(Overdue, id, roster, s)
    BY <1>2, <1>3, <1>4, <1>5 DEF ProvisionStep
  <1> QED
    BY <1>1, <1>2, <1>4, <1>6 DEF AnyProvision

LEMMA RotateProvisions ==
    ASSUME TypeOK, NEW id \in SessionIds, Rotate(id)
    PROVE  AnyProvision
  <1> DEFINE gone == Overdue \cup {id}
             D == {x \in Roles : seats[id][x] # NoSeat}
             old == sessions[id]
             s == NewSession(old.audience, old.ttl, old.revision + 1)
  <1>1. old \in Session
    BY DEF Rotate, Live, TypeOK
  <1>2. old.audience \in Audiences /\ old.ttl \in Int /\ old.revision + 1 \in Nat
    BY <1>1 DEF Session
  <1>3. gone \in SUBSET SessionIds /\ id \in gone
    BY DEF Overdue, Live
  <1>4. Roster(id) \in [D -> Subjects] /\ D \in SUBSET Roles
    <2>1. \A r \in D : seats[id][r].subject \in Subjects
      BY DEF TypeOK, Seat
    <2> QED
      BY <2>1 DEF Roster
  <1>5. Roster(id) \in RosterFunctions
    BY <1>4 DEF RosterFunctions
  <1>6. s \in Session /\ s.epoch = fresh
    BY <1>2, NewSessionType
  <1>7. Provision(gone, id, Roster(id), s)
    BY DEF Rotate
  <1> HIDE DEF s, old, gone
  <1>8. ProvisionStep(gone, id, Roster(id), s)
    BY <1>3, <1>6, <1>7 DEF ProvisionStep
  <1> QED
    BY <1>3, <1>5, <1>6, <1>8 DEF AnyProvision

LEMMA NextKinds ==
    ASSUME TypeOK, Next
    PROVE  \/ AnyProvision \/ AnyRevoke \/ ClaimAny \/ AnyEffect \/ AnyForget
           \/ AnyLeave \/ AnyDown \/ AnyDie \/ Tick
  <1>1. ASSUME NEW id \in SessionIds, Close(id)
        PROVE  AnyRevoke
    <2>1. {id} \in SUBSET SessionIds /\ RevokeStep({id})
      BY <1>1 DEF Close, RevokeStep
    <2> QED
      BY <2>1 DEF AnyRevoke
  <1>2. ASSUME Sweep
        PROVE  AnyRevoke
    <2>1. Overdue \in SUBSET SessionIds /\ RevokeStep(Overdue)
      BY <1>2 DEF Sweep, RevokeStep, Overdue, Live
    <2> QED
      BY <2>1 DEF AnyRevoke
  <1>3. ASSUME Restart
        PROVE  AnyForget
    BY <1>3 DEF Restart, AnyForget
  <1>4. ASSUME NEW pid \in Pids, NEW l \in leases, NEW seq \in Seqs \cup {Nil},
               EffectCrash(pid, l, seq)
        PROVE  AnyForget
    BY <1>4 DEF EffectCrash, AnyForget
  <1> QED
    BY <1>1, <1>2, <1>3, <1>4, CreateProvisions, RotateProvisions
       DEF Next, AnyEffect, AnyLeave, AnyDown, AnyDie
-----------------------------------------------------------------------------
(* Type correctness.                                                        *)

LEMMA ProvisionTypes ==
    ASSUME TypeOK, SeatShape, AnyProvision
    PROVE  TypeOK'
  <1>0. PICK gone : \E id \in SessionIds, roster \in RosterFunctions, session \in Session :
                Provision(gone, id, roster, session)
    BY DEF AnyProvision, ProvisionStep
  <1>1. PICK id \in SessionIds, roster \in RosterFunctions, session \in Session :
                Provision(gone, id, roster, session)
    BY <1>0
  <1>2. /\ DOMAIN roster \subseteq Roles
        /\ \A r \in DOMAIN roster : roster[r] \in Subjects
    BY DEF RosterFunctions
  <1>3. fresh \in Nat /\ session.audience \in Audiences
    BY DEF TypeOK, Session
  <1> DEFINE R == [r \in Roles |-> SeatFor(roster, r)]
  <1>4. R \in [Roles -> Seat \cup {NoSeat}]
    BY <1>2, NewSeatType DEF SeatFor
  <1>5. /\ sessions' = [SessionsWithout(gone) EXCEPT ![id] = session]
        /\ seats' = [SeatsWithout(gone) EXCEPT ![id] = R]
    BY <1>1 DEF Provision
  <1> HIDE DEF R
  <1>6. /\ sessions' \in [SessionIds -> Session \cup {NoSession}]
        /\ seats' \in [SessionIds -> [Roles -> Seat \cup {NoSeat}]]
    BY <1>4, <1>5, WithoutTypes
  <1>7. /\ monitors' \subseteq Monitor /\ beam' \subseteq Watch
        /\ downs' \subseteq Nat /\ fenced' \subseteq Pids \X Nat
    <2>1. Disconnect(gone \X Roles, TRUE, {}) /\ {} \in SUBSET Lease
      BY <1>1 DEF Provision
    <2> QED
      BY <2>1, DisconnectTypes
  <1>8. issued' \subseteq Credential
    <2>1. issued' = issued \cup
                    {[token |-> <<fresh, r>>, session |-> id,
                      audience |-> session.audience, epoch |-> fresh, role |-> r,
                      subject |-> roster[r]] : r \in DOMAIN roster}
      BY <1>1 DEF Provision
    <2>2. \A r \in DOMAIN roster :
            [token |-> <<fresh, r>>, session |-> id, audience |-> session.audience,
             epoch |-> fresh, role |-> r, subject |-> roster[r]] \in Credential
      BY <1>2, <1>3 DEF Credential, Token
    <2> QED
      BY <2>1, <2>2 DEF TypeOK
  <1>9. fresh' \in Nat /\ UNCHANGED <<procs, mono, wall, leases, relays>>
    BY <1>1, <1>3 DEF Provision, clocks
  <1> QED
    BY <1>6, <1>7, <1>8, <1>9 DEF TypeOK

LEMMA ClaimTypes ==
    ASSUME TypeOK, SeatShape, ClaimAny
    PROVE  TypeOK'
  <1>1. PICK pid \in Pids, subject \in Subjects, expires \in Expiries,
             id \in SessionIds, audience \in Audiences, role \in Roles,
             g \in issued, kind \in {"ticket", "rejoin"},
             epoch \in {x.epoch : x \in issued} :
          Claim(pid, subject, expires, id, audience, role, epoch, kind, g.token)
    BY DEF ClaimAny
  <1> DEFINE seat == seats[id][role]
             lease == [lease |-> fresh, session |-> id, audience |-> audience,
                       epoch |-> epoch, role |-> role, subject |-> subject,
                       pid |-> pid, token |-> g.token]
             v == Occupied(seat, pid, expires, role)
             cred == [token |-> <<fresh, role>>, session |-> id,
                      audience |-> audience, epoch |-> epoch, role |-> role,
                      subject |-> subject]
             cut == (Overdue \X Roles) \cup {<<id, role>>}
  <1>2. fresh \in Nat /\ epoch \in Nat /\ g.token \in Token
    BY DEF TypeOK, Credential
  <1>3. lease \in Lease /\ cred \in Credential
    BY <1>2 DEF Lease, Credential, Token
  <1>4. seat \in Seat /\ v \in Seat
    <2>1. seat \in Seat
      BY <1>1 DEF Claim, TypeOK
    <2> QED
      BY <2>1, SeatTypeUpdates
  <1>5. /\ sessions' = SessionsWithout(Overdue)
        /\ seats' = [SeatsWithout(Overdue) EXCEPT ![id][role] = v]
        /\ Disconnect(cut, TRUE, {lease})
        /\ issued' = issued \cup {cred}
        /\ leases' = leases \cup {lease}
        /\ fresh' = fresh + 1
        /\ UNCHANGED <<procs, mono, wall, relays>>
    BY <1>1 DEF Claim, clocks
  <1> HIDE DEF seat, lease, v, cred, cut
  <1>6. /\ sessions' \in [SessionIds -> Session \cup {NoSession}]
        /\ seats' \in [SessionIds -> [Roles -> Seat \cup {NoSeat}]]
    BY <1>4, <1>5, WithoutTypes
  <1>7. /\ monitors' \subseteq Monitor /\ beam' \subseteq Watch
        /\ downs' \subseteq Nat /\ fenced' \subseteq Pids \X Nat
    <2>1. {lease} \in SUBSET Lease
      BY <1>3
    <2> QED
      BY <1>5, <2>1, DisconnectTypes
  <1> QED
    BY <1>2, <1>3, <1>5, <1>6, <1>7 DEF TypeOK

\* The remaining handlers draw no secret and add no session.
LEMMA OtherTypes ==
    ASSUME TypeOK, SeatShape, LeaseUnique, HeldGranted, MonitorAgreement,
           AnyRevoke \/ AnyEffect \/ AnyForget \/ AnyLeave \/ AnyDown \/ AnyDie \/ Tick
    PROVE  TypeOK'
  <1>1. CASE AnyRevoke
    <2>1. PICK gone \in SUBSET SessionIds : RevokeStep(gone)
      BY <1>1 DEF AnyRevoke
    <2>2. /\ monitors' \subseteq Monitor /\ beam' \subseteq Watch
          /\ downs' \subseteq Nat /\ fenced' \subseteq Pids \X Nat
      <3>1. Disconnect(gone \X Roles, TRUE, {}) /\ {} \in SUBSET Lease
        BY <2>1 DEF RevokeStep, Revoke
      <3> QED
        BY <3>1, DisconnectTypes
    <2> QED
      BY <2>1, <2>2, WithoutTypes DEF RevokeStep, Revoke, TypeOK, clocks
  <1>2. CASE AnyEffect
    <2>1. PICK pid \in Pids, l \in leases, seq \in Seqs \cup {Nil} : Effect(pid, l, seq)
      BY <1>2 DEF AnyEffect
    <2>2. /\ monitors' \subseteq Monitor /\ beam' \subseteq Watch
          /\ downs' \subseteq Nat /\ fenced' \subseteq Pids \X Nat
      <3>1. Disconnect(Overdue \X Roles, TRUE, {}) /\ {} \in SUBSET Lease
        BY <2>1 DEF Effect
      <3> QED
        BY <3>1, DisconnectTypes
    <2> DEFINE v == Numbered(seats[l.session][l.role], seq)
    <2>3. l.session \in SessionIds /\ l.role \in Roles /\ l.lease \in Nat /\ l.epoch \in Nat
      BY DEF TypeOK, Lease
    <2>4. seats[l.session][l.role] \in Seat /\ v \in Seat
      <3>1. seats[l.session][l.role] \in Seat
        BY <2>1, <2>3 DEF Effect, EffectRuns, Current, TypeOK
      <3> QED
        BY <3>1, SeatTypeUpdates
    <2>5. /\ sessions' = SessionsWithout(Overdue)
          /\ seats' = [SeatsWithout(Overdue) EXCEPT ![l.session][l.role] = v]
          /\ UNCHANGED <<procs, mono, wall, fresh, issued, leases>>
      BY <2>1, <2>3 DEF Effect, EffectRuns, SeatsWithout, clocks
    <2> HIDE DEF v
    <2>6. /\ sessions' \in [SessionIds -> Session \cup {NoSession}]
          /\ seats' \in [SessionIds -> [Roles -> Seat \cup {NoSeat}]]
      BY <2>4, <2>5, WithoutTypes
    <2>7. relays' \in Seq(Relay)
      <3>1. [session |-> l.session, epoch |-> l.epoch, role |-> l.role,
             lease |-> l.lease, seq |-> seq] \in Relay
        BY <2>3, NumberAssumption DEF Relay
      <3> QED
        BY <2>1, <3>1 DEF Effect, EffectRuns, TypeOK
    <2> QED
      BY <2>2, <2>5, <2>6, <2>7 DEF TypeOK
  <1>3. CASE AnyForget
    <2>1. relays' \in Seq(Relay)
      <3>1. ASSUME NEW pid \in Pids, NEW l \in leases, NEW seq \in Seqs \cup {Nil},
                   EffectRuns(pid, l, seq)
            PROVE  relays' \in Seq(Relay)
        <4>1. [session |-> l.session, epoch |-> l.epoch, role |-> l.role,
               lease |-> l.lease, seq |-> seq] \in Relay
          BY NumberAssumption DEF Relay, TypeOK, Lease
        <4> QED
          BY <3>1, <4>1 DEF EffectRuns, TypeOK
      <3> QED
        BY <1>3, <3>1 DEF AnyForget, TypeOK
    <2> QED
      BY <1>3, <2>1 DEF AnyForget, Forget, TypeOK, clocks
  <1>4. CASE AnyLeave
    <2>1. PICK pid \in Pids, l \in leases : Leave(pid, l)
      BY <1>4 DEF AnyLeave
    <2>2. /\ monitors' \subseteq Monitor /\ beam' \subseteq Watch
          /\ downs' \subseteq Nat /\ fenced' \subseteq Pids \X Nat
      <3>1. Disconnect({<<l.session, l.role>>}, FALSE, {}) /\ {} \in SUBSET Lease
        BY <2>1 DEF Leave
      <3> QED
        BY <3>1, DisconnectTypes
    <2>3. l.session \in SessionIds /\ l.role \in Roles
      BY DEF TypeOK, Lease
    <2>4. Vacated(seats[l.session][l.role]) \in Seat
      <3>1. seats[l.session][l.role] \in Seat
        BY <2>1, <2>3 DEF Leave, Current, TypeOK
      <3> QED
        BY <3>1, VacatedType
    <2>5. /\ seats' = [seats EXCEPT ![l.session][l.role] = Vacated(seats[l.session][l.role])]
          /\ UNCHANGED <<sessions, procs, mono, wall, fresh, issued, leases, relays>>
      BY <2>1 DEF Leave, clocks
    <2> QED
      BY <2>2, <2>4, <2>5 DEF TypeOK
  <1>5. CASE AnyDown
    <2>1. PICK ref \in downs : Down(ref)
      BY <1>5 DEF AnyDown
    <2>2. PICK q \in Connected :
              /\ \A p \in Place : SeatAt(p)' =
                    IF p = q THEN Vacated(SeatAt(p)) ELSE SeatAt(p)
              /\ monitors' \subseteq monitors
              /\ downs' \subseteq downs
              /\ UNCHANGED <<sessions, beam, fenced, procs, clocks, fresh, issued,
                             leases, relays>>
      BY <2>1, DownPointwise
    <2>3. \A p \in Place : SeatAt(p)' \in Seat \cup {NoSeat}
      BY <2>2, SeatTypes, VacatedType, ConnectedSeat
    <2>4. seats' \in [SessionIds -> [Roles -> Seat \cup {NoSeat}]]
      <3> DEFINE X(id, r) == seats'[id][r]
      <3>1. \A id \in SessionIds, r \in Roles : seats'[id][r] \in Seat \cup {NoSeat}
        <4> TAKE id \in SessionIds, r \in Roles
        <4>1. <<id, r>> \in Place
          BY DEF Place
        <4>2. SeatAt(<<id, r>>)' \in Seat \cup {NoSeat}
          BY <2>3, <4>1
        <4> QED
          BY <4>2 DEF SeatAt
      <3>2. seats' = [id \in SessionIds |-> [r \in Roles |-> seats'[id][r]]]
        BY <2>1 DEF Down
      <3> QED
        BY <3>1, <3>2
    <2> QED
      BY <2>2, <2>4 DEF TypeOK, clocks
  <1>6. CASE AnyDie
    <2>1. PICK pid \in Pids : Die(pid)
      BY <1>6 DEF AnyDie
    <2>2. downs' \subseteq Nat /\ beam' \subseteq Watch /\ procs' \subseteq Pids
      BY <2>1 DEF Die, TypeOK, Watch
    <2> QED
      BY <2>1, <2>2 DEF Die, TypeOK, clocks
  <1>7. CASE Tick
    BY <1>7, NumberAssumption DEF Tick, TypeOK
  <1> QED
    BY <1>1, <1>2, <1>3, <1>4, <1>5, <1>6, <1>7
-----------------------------------------------------------------------------
(* Which seats stay connected.                                              *)

\* The connections outside `cut' are untouched, those inside are gone.
Kept(cut) ==
    /\ Connected' = Connected \ cut
    /\ \A p \in Connected \ cut :
          /\ SeatAt(p)'.pid = SeatAt(p).pid /\ SeatAt(p)'.lease = SeatAt(p).lease
          /\ SeatAt(p)'.monitor = SeatAt(p).monitor
          /\ sessions'[p[1]] = sessions[p[1]]

Ends(cut, fence) == Kept(cut) /\ Disconnect(cut, fence, {}) /\ UNCHANGED procs

LEMMA ProvisionEnds ==
    ASSUME TypeOK, SeatShape, AnyProvision
    PROVE  \E cut \in SUBSET Place : Ends(cut, TRUE)
  <1>0. PICK gone : \E id \in SessionIds, roster \in RosterFunctions, session \in Session :
                ProvisionStep(gone, id, roster, session)
    BY DEF AnyProvision
  <1>1. PICK id \in SessionIds, roster \in RosterFunctions, session \in Session :
                ProvisionStep(gone, id, roster, session)
    BY <1>0
  <1> DEFINE cut == gone \X Roles
  <1>2. Provision(gone, id, roster, session)
    BY <1>1 DEF ProvisionStep
  <1>3. /\ \A p \in Place : SeatAt(p)' =
                IF p[1] = id THEN SeatFor(roster, p[2])
                ELSE IF p[1] \in gone THEN NoSeat ELSE SeatAt(p)
        /\ \A i \in SessionIds : sessions'[i] =
              IF i = id THEN session
              ELSE IF i \in gone THEN NoSession ELSE sessions[i]
    BY <1>2, ProvisionSeats, ProvisionSessions
  <1>4. \A p \in Connected : p[1] = id => p \in cut
    <2>1. \A p \in Connected : p \in Place /\ sessions[p[1]] \in Session
      BY ConnectedSeat
    <2>2. sessions[id] \in Session => id \in gone
      BY <1>1, NilAssumption DEF ProvisionStep
    <2> QED
      BY <2>1, <2>2 DEF Place
  <1>5. \A p \in Place : p \in cut <=> p[1] \in gone
    BY DEF Place
  <1>6. \A r : SeatFor(roster, r) = NoSeat \/ SeatFor(roster, r).pid = Nil
    BY DEF SeatFor, NewSeat
  <1>7. Connected' = Connected \ cut
    BY <1>3, <1>4, <1>5, <1>6 DEF Connected
  <1>8. \A p \in Connected \ cut : SeatAt(p)' = SeatAt(p) /\ sessions'[p[1]] = sessions[p[1]]
    <2>1. \A p \in Connected \ cut :
            p \in Place /\ p[1] \in SessionIds /\ p[1] # id /\ p[1] \notin gone
      BY <1>4, <1>5 DEF Connected, Place
    <2> QED
      BY <1>3, <2>1
  <1>9. Disconnect(cut, TRUE, {}) /\ UNCHANGED procs
    BY <1>2 DEF Provision
  <1>10. cut \in SUBSET Place
    BY <1>1 DEF ProvisionStep, Place
  <1>11. Ends(cut, TRUE)
    BY <1>7, <1>8, <1>9 DEF Ends, Kept
  <1> QED
    BY <1>10, <1>11

LEMMA RevokeEnds ==
    ASSUME TypeOK, SeatShape, AnyRevoke
    PROVE  \E cut \in SUBSET Place : Ends(cut, TRUE)
  <1>1. PICK gone \in SUBSET SessionIds : RevokeStep(gone)
    BY DEF AnyRevoke
  <1> DEFINE cut == gone \X Roles
  <1>2. /\ \A p \in Place : SeatAt(p)' = IF p[1] \in gone THEN NoSeat ELSE SeatAt(p)
        /\ \A i \in SessionIds : i \notin gone => sessions'[i] = sessions[i]
    BY <1>1, RevokePointwise DEF RevokeStep, Revoke
  <1>3. \A p \in Place : p[1] \in SessionIds /\ (p \in cut <=> p[1] \in gone)
    BY DEF Place
  <1>4. Connected' = Connected \ cut
    BY <1>2, <1>3 DEF Connected
  <1>5. \A p \in Connected \ cut : SeatAt(p)' = SeatAt(p) /\ sessions'[p[1]] = sessions[p[1]]
    BY <1>2, <1>3 DEF Connected
  <1>6. Disconnect(cut, TRUE, {}) /\ UNCHANGED procs
    BY <1>1 DEF RevokeStep, Revoke
  <1>7. cut \in SUBSET Place
    BY DEF Place
  <1>8. Ends(cut, TRUE)
    BY <1>4, <1>5, <1>6 DEF Ends, Kept
  <1> QED
    BY <1>7, <1>8

\* Recording a sequence number changes nothing else of a seat.
LEMMA NumberedKeeps ==
    ASSUME NEW s \in Seat, NEW seq
    PROVE  /\ Numbered(s, seq).pid = s.pid /\ Numbered(s, seq).lease = s.lease
           /\ Numbered(s, seq).monitor = s.monitor
           /\ Numbered(s, seq).expires = s.expires
           /\ Numbered(s, seq).used = s.used /\ Numbered(s, seq).rejoin = s.rejoin
           /\ Numbered(s, seq).ticket = s.ticket /\ Numbered(s, seq).subject = s.subject
  BY DEF Numbered, Seat

LEMMA EffectEnds ==
    ASSUME TypeOK, SeatShape, AnyEffect
    PROVE  \E cut \in SUBSET Place : Ends(cut, TRUE)
  <1>1. PICK pid \in Pids, l \in leases, seq \in Seqs \cup {Nil} : Effect(pid, l, seq)
    BY DEF AnyEffect
  <1> DEFINE cut == Overdue \X Roles
             place == <<l.session, l.role>>
  <1>2. /\ l.session \notin Overdue /\ place \in Place
        /\ \A p \in Place : SeatAt(p)' =
              IF p = place THEN Numbered(SeatAt(p), seq)
              ELSE IF p[1] \in Overdue THEN NoSeat ELSE SeatAt(p)
        /\ \A i \in SessionIds : i \notin Overdue => sessions'[i] = sessions[i]
    BY <1>1, EffectPointwise
  <1>3. \A p \in Place : p[1] \in SessionIds /\ (p \in cut <=> p[1] \in Overdue)
    BY DEF Place
  <1>4. SeatAt(place) \in Seat /\ place \in Connected /\ place \notin cut
    <2>1. SeatAt(place) # NoSeat /\ SeatAt(place).lease = l.lease /\ l.lease \in Nat
      BY <1>1 DEF Effect, EffectRuns, Current, SeatAt, TypeOK, Lease
    <2>2. SeatAt(place).pid # Nil
      BY <1>2, <2>1, NilAssumption DEF SeatShape, Seated
    <2> QED
      BY <1>2, <1>3, <2>1, <2>2, SeatTypes DEF Connected
  <1>5. /\ Numbered(SeatAt(place), seq).pid = SeatAt(place).pid
        /\ Numbered(SeatAt(place), seq).lease = SeatAt(place).lease
        /\ Numbered(SeatAt(place), seq).monitor = SeatAt(place).monitor
        /\ Numbered(SeatAt(place), seq) \in Seat
    BY <1>4, NumberedKeeps, SeatTypeUpdates
  <1> HIDE DEF cut, place
  <1>6. Connected' = Connected \ cut
    BY <1>2, <1>3, <1>4, <1>5, NilAssumption DEF Connected
  <1>7. \A p \in Connected \ cut :
          /\ SeatAt(p)'.pid = SeatAt(p).pid /\ SeatAt(p)'.lease = SeatAt(p).lease
          /\ SeatAt(p)'.monitor = SeatAt(p).monitor
          /\ sessions'[p[1]] = sessions[p[1]]
    BY <1>2, <1>3, <1>5 DEF Connected
  <1>8. Disconnect(cut, TRUE, {}) /\ UNCHANGED procs
    BY <1>1 DEF Effect, cut
  <1>9. cut \in SUBSET Place
    BY DEF Place, cut, Overdue, Live
  <1>10. Ends(cut, TRUE)
    BY <1>6, <1>7, <1>8 DEF Ends, Kept
  <1> QED
    BY <1>9, <1>10

LEMMA LeaveEnds ==
    ASSUME TypeOK, SeatShape, AnyLeave
    PROVE  \E cut \in SUBSET Place, fence \in BOOLEAN : Ends(cut, fence)
  <1>1. PICK pid \in Pids, l \in leases : Leave(pid, l)
    BY DEF AnyLeave
  <1> DEFINE place == <<l.session, l.role>>
  <1>2. /\ place \in Place
        /\ \A p \in Place : SeatAt(p)' = IF p = place THEN Vacated(SeatAt(p)) ELSE SeatAt(p)
        /\ sessions' = sessions
    BY <1>1, LeavePointwise
  <1>3. SeatAt(place) \in Seat
    <2>1. SeatAt(place) # NoSeat
      BY <1>1 DEF Leave, Current, SeatAt
    <2> QED
      BY <1>2, <2>1, SeatTypes
  <1>4. Vacated(SeatAt(place)).pid = Nil
    BY <1>3 DEF Vacated, Seat
  <1>5. Disconnect({place}, FALSE, {}) /\ UNCHANGED procs
    BY <1>1 DEF Leave
  <1> HIDE DEF place
  <1>6. Connected' = Connected \ {place}
    BY <1>2, <1>4 DEF Connected
  <1>7. \A p \in Connected \ {place} : SeatAt(p)' = SeatAt(p) /\ sessions'[p[1]] = sessions[p[1]]
    BY <1>2 DEF Connected
  <1>8. {place} \in SUBSET Place
    BY <1>2
  <1>9. Ends({place}, FALSE)
    BY <1>5, <1>6, <1>7 DEF Ends, Kept
  <1> QED
    BY <1>8, <1>9
-----------------------------------------------------------------------------
(* The seats, the monitor table and the runtime stay in step.               *)

\* The parts of the invariant this rests on.
Core == TypeOK /\ SeatShape /\ Drawn /\ LeaseUnique /\ HeldGranted /\ MonitorAgreement

EntryOf(p) == [ref |-> SeatAt(p).monitor, session |-> p[1], role |-> p[2],
               lease |-> SeatAt(p).lease]
WatchOf(p) == [ref |-> SeatAt(p).monitor, pid |-> SeatAt(p).pid]

\* Two connected seats have different monitor references.
LEMMA MonitorUnique ==
    ASSUME Core
    PROVE  \A p, q \in Connected : SeatAt(p).monitor = SeatAt(q).monitor => p = q
  <1> TAKE p, q \in Connected
  <1>1. SeatAt(p).monitor = SeatAt(p).lease /\ SeatAt(q).monitor = SeatAt(q).lease
    BY ConnectedSeat DEF Core
  <1> QED
    BY <1>1, HolderUnique DEF Core

\* So a connected seat's reference is in the references of `cut' exactly when
\* the seat is in `cut'.
LEMMA RefsOfCut ==
    ASSUME Core, NEW cut, NEW p \in Connected
    PROVE  SeatAt(p).monitor \in Refs(cut) <=> p \in cut
  BY MonitorUnique DEF Refs

LEMMA EndsAgreement ==
    ASSUME Core, NEW cut, NEW fence, Ends(cut, fence)
    PROVE  MonitorAgreement'
  <1>1. /\ monitors = {EntryOf(p) : p \in Connected}
        /\ beam = {WatchOf(p) : p \in {q \in Connected : SeatAt(q).pid \in procs}}
        /\ downs = {SeatAt(p).monitor : p \in {q \in Connected : SeatAt(q).pid \notin procs}}
    BY DEF Core, MonitorAgreement, EntryOf, WatchOf
  <1>2. /\ Connected' = Connected \ cut /\ procs' = procs
        /\ \A p \in Connected \ cut :
              /\ SeatAt(p)'.pid = SeatAt(p).pid /\ SeatAt(p)'.lease = SeatAt(p).lease
              /\ SeatAt(p)'.monitor = SeatAt(p).monitor
    BY DEF Ends, Kept
  <1>3. /\ monitors' = {m \in monitors : m.ref \notin Refs(cut)}
        /\ beam' = {w \in beam : w.ref \notin Refs(cut)}
        /\ downs' = downs \ Refs(cut)
    BY DEF Ends, Disconnect
  <1>4. /\ \A p \in Connected :
              /\ EntryOf(p).ref = SeatAt(p).monitor
              /\ WatchOf(p).ref = SeatAt(p).monitor
        /\ \A p \in Connected : (SeatAt(p).monitor \in Refs(cut)) <=> (p \in cut)
    BY RefsOfCut DEF EntryOf, WatchOf
  <1>5. \A p \in Connected \ cut : EntryOf(p)' = EntryOf(p) /\ WatchOf(p)' = WatchOf(p)
    BY <1>2 DEF EntryOf, WatchOf
  <1>6. monitors' = {EntryOf(p)' : p \in Connected'}
    <2>1. monitors' = {EntryOf(p) : p \in Connected \ cut}
      <3>1. ASSUME NEW m \in monitors'
            PROVE  \E p \in Connected \ cut : m = EntryOf(p)
        BY <1>1, <1>3, <1>4
      <3>2. ASSUME NEW p \in Connected \ cut
            PROVE  EntryOf(p) \in monitors'
        <4>1. EntryOf(p) \in monitors
          BY <1>1
        <4>2. EntryOf(p).ref \notin Refs(cut)
          BY <1>4
        <4> QED
          BY <1>3, <4>1, <4>2
      <3> QED
        BY <3>1, <3>2
    <2> QED
      BY <1>2, <1>5, <2>1
  <1>7. beam' = {WatchOf(p)' : p \in {q \in Connected' : SeatAt(q)'.pid \in procs'}}
    <2> DEFINE A == {q \in Connected \ cut : SeatAt(q).pid \in procs}
    <2>1. beam' = {WatchOf(p) : p \in A}
      <3>1. ASSUME NEW w \in beam'
            PROVE  \E p \in A : w = WatchOf(p)
        BY <1>1, <1>3, <1>4
      <3>2. ASSUME NEW p \in A
            PROVE  WatchOf(p) \in beam'
        <4>1. WatchOf(p) \in beam
          BY <1>1
        <4>2. WatchOf(p).ref \notin Refs(cut)
          BY <1>4
        <4> QED
          BY <1>3, <4>1, <4>2
      <3> QED
        BY <3>1, <3>2
    <2>2. A = {q \in Connected' : SeatAt(q)'.pid \in procs'}
      BY <1>2
    <2>3. \A p \in A : WatchOf(p)' = WatchOf(p)
      BY <1>5
    <2> QED
      BY <2>1, <2>2, <2>3
  <1>8. downs' = {SeatAt(p)'.monitor : p \in {q \in Connected' : SeatAt(q)'.pid \notin procs'}}
    <2> DEFINE A == {q \in Connected \ cut : SeatAt(q).pid \notin procs}
    <2>1. downs' = {SeatAt(p).monitor : p \in A}
      <3>1. ASSUME NEW d \in downs'
            PROVE  \E p \in A : d = SeatAt(p).monitor
        BY <1>1, <1>3, <1>4
      <3>2. ASSUME NEW p \in A
            PROVE  SeatAt(p).monitor \in downs'
        <4>1. SeatAt(p).monitor \in downs
          BY <1>1
        <4>2. SeatAt(p).monitor \notin Refs(cut)
          BY <1>4
        <4> QED
          BY <1>3, <4>1, <4>2
      <3> QED
        BY <3>1, <3>2
    <2>2. A = {q \in Connected' : SeatAt(q)'.pid \notin procs'}
      BY <1>2
    <2>3. \A p \in A : SeatAt(p)'.monitor = SeatAt(p).monitor
      BY <1>2
    <2> QED
      BY <2>1, <2>2, <2>3
  <1> QED
    BY <1>6, <1>7, <1>8 DEF MonitorAgreement, EntryOf, WatchOf

LEMMA EndsHeld ==
    ASSUME Core, NEW cut, NEW fence, Ends(cut, fence), leases' = leases
    PROVE  HeldGranted'
  <1>1. /\ Connected' = Connected \ cut
        /\ \A p \in Connected \ cut :
              /\ SeatAt(p)'.pid = SeatAt(p).pid /\ SeatAt(p)'.lease = SeatAt(p).lease
              /\ sessions'[p[1]] = sessions[p[1]]
    BY DEF Ends, Kept
  <1> QED
    BY <1>1 DEF HeldGranted, Core
\* What a claim does: it ends the connections of `cut' and sets up one.
ClaimStep(cut, place, new, pid) ==
    /\ place \in cut
    /\ Connected' = (Connected \ cut) \cup {place}
    /\ \A p \in Connected \ cut :
          SeatAt(p)' = SeatAt(p) /\ sessions'[p[1]] = sessions[p[1]]
    /\ SeatAt(place)'.pid = pid /\ SeatAt(place)'.lease = fresh
    /\ SeatAt(place)'.monitor = fresh
    /\ sessions'[place[1]] = sessions[place[1]]
    /\ new.lease = fresh /\ new.pid = pid
    /\ new.session = place[1] /\ new.role = place[2]
    /\ new.epoch = sessions[place[1]].epoch
    /\ Disconnect(cut, TRUE, {new})
    /\ leases' = leases \cup {new}
    /\ procs' = procs /\ fresh' = fresh + 1 /\ relays' = relays

LEMMA ClaimSteps ==
    ASSUME TypeOK, SeatShape, ClaimAny
    PROVE  \E cut, place, new, pid : ClaimStep(cut, place, new, pid)
  <1>1. PICK pid \in Pids, subject \in Subjects, expires \in Expiries,
             id \in SessionIds, audience \in Audiences, role \in Roles,
             g \in issued, kind \in {"ticket", "rejoin"},
             epoch \in {x.epoch : x \in issued} :
          Claim(pid, subject, expires, id, audience, role, epoch, kind, g.token)
    BY DEF ClaimAny
  <1> DEFINE place == <<id, role>>
             cut == (Overdue \X Roles) \cup {place}
             new == [lease |-> fresh, session |-> id, audience |-> audience,
                     epoch |-> epoch, role |-> role, subject |-> subject,
                     pid |-> pid, token |-> g.token]
  <1>2. /\ id \notin Overdue
        /\ \A p \in Place : SeatAt(p)' =
              IF p = place THEN Occupied(SeatAt(p), pid, expires, role)
              ELSE IF p[1] \in Overdue THEN NoSeat ELSE SeatAt(p)
        /\ \A i \in SessionIds :
              sessions'[i] = IF i \in Overdue THEN NoSession ELSE sessions[i]
    BY <1>1, ClaimPointwise
  <1>3. SeatAt(place) \in Seat /\ place \in Place
    BY <1>1 DEF Claim, SeatAt, TypeOK, Place
  <1>4. /\ Occupied(SeatAt(place), pid, expires, role).pid = pid
        /\ Occupied(SeatAt(place), pid, expires, role).lease = fresh
        /\ Occupied(SeatAt(place), pid, expires, role).monitor = fresh
        /\ Occupied(SeatAt(place), pid, expires, role) \in Seat
    <2>1. Occupied(SeatAt(place), pid, expires, role) \in Seat
      BY <1>3, SeatTypeUpdates DEF Occupied
    <2>2. /\ Occupied(SeatAt(place), pid, expires, role).pid = pid
          /\ Occupied(SeatAt(place), pid, expires, role).lease = fresh
          /\ Occupied(SeatAt(place), pid, expires, role).monitor = fresh
      BY <1>3, SMTT(30) DEF Occupied, Seat
    <2> QED
      BY <2>1, <2>2
  <1>5. /\ \A p \in Place : p[1] \in SessionIds
        /\ \A p \in Place : p \in cut => (p = place \/ p[1] \in Overdue)
        /\ \A p \in Place : p[1] \in Overdue => p \in cut
    BY DEF Place
  <1>6. /\ epoch = sessions[id].epoch
        /\ Disconnect(cut, TRUE, {new})
        /\ leases' = leases \cup {new}
        /\ procs' = procs /\ fresh' = fresh + 1 /\ relays' = relays
    BY <1>1 DEF Claim
  <1>7. place \in cut /\ place[1] = id /\ place[2] = role
    OBVIOUS
  <1>8. /\ new.lease = fresh /\ new.pid = pid /\ new.session = id
        /\ new.role = role /\ new.epoch = epoch
    OBVIOUS
  <1> HIDE DEF place, cut, new
  <1>9. Connected' = (Connected \ cut) \cup {place}
    <2>1. \A p \in Place : p \notin cut => SeatAt(p)' = SeatAt(p)
      BY <1>2, <1>5, <1>7
    <2>2. \A p \in Place : p \in cut /\ p # place => SeatAt(p)' = NoSeat
      BY <1>2, <1>5
    <2>3. place \in Place /\ SeatAt(place)' # NoSeat /\ SeatAt(place)'.pid # Nil
      BY <1>2, <1>3, <1>4, NilAssumption
    <2> QED
      BY <1>7, <2>1, <2>2, <2>3 DEF Connected
  <1>10. \A p \in Connected \ cut :
           SeatAt(p)' = SeatAt(p) /\ sessions'[p[1]] = sessions[p[1]]
    <2> TAKE p \in Connected \ cut
    <2>1. p \in Place /\ p[1] \in SessionIds /\ p # place /\ p[1] \notin Overdue
      BY <1>5, <1>7 DEF Connected
    <2> QED
      BY <1>2, <2>1
  <1>11. /\ SeatAt(place)'.pid = pid /\ SeatAt(place)'.lease = fresh
         /\ SeatAt(place)'.monitor = fresh
         /\ sessions'[place[1]] = sessions[place[1]]
    BY <1>2, <1>3, <1>4, <1>7
  <1>12. ClaimStep(cut, place, new, pid)
    BY <1>6, <1>7, <1>8, <1>9, <1>10, <1>11 DEF ClaimStep
  <1> QED
    BY <1>12

LEMMA ClaimAgreement ==
    ASSUME Core, NEW cut, NEW place, NEW new, NEW pid, ClaimStep(cut, place, new, pid)
    PROVE  MonitorAgreement'
  <1>1. /\ monitors = {EntryOf(p) : p \in Connected}
        /\ beam = {WatchOf(p) : p \in {q \in Connected : SeatAt(q).pid \in procs}}
        /\ downs = {SeatAt(p).monitor : p \in {q \in Connected : SeatAt(q).pid \notin procs}}
    BY DEF Core, MonitorAgreement, EntryOf, WatchOf
  <1> DEFINE entry == [ref |-> new.lease, session |-> new.session,
                       role |-> new.role, lease |-> new.lease]
             watch == [ref |-> new.lease, pid |-> new.pid]
  <1>2. /\ monitors' = {m \in monitors : m.ref \notin Refs(cut)} \cup {entry}
        /\ beam' = {w \in beam : w.ref \notin Refs(cut)}
                     \cup (IF pid \in procs THEN {watch} ELSE {})
        /\ downs' = (downs \ Refs(cut)) \cup (IF pid \notin procs THEN {fresh} ELSE {})
    BY DEF ClaimStep, Disconnect
  <1>3. /\ \A p \in Connected :
              /\ EntryOf(p).ref = SeatAt(p).monitor
              /\ WatchOf(p).ref = SeatAt(p).monitor
        /\ \A p \in Connected : (SeatAt(p).monitor \in Refs(cut)) <=> (p \in cut)
    BY RefsOfCut DEF EntryOf, WatchOf
  <1>4. \A p \in Connected \ cut :
          /\ EntryOf(p)' = EntryOf(p) /\ WatchOf(p)' = WatchOf(p)
          /\ SeatAt(p)' = SeatAt(p)
    BY DEF ClaimStep, EntryOf, WatchOf
  <1>5. /\ EntryOf(place)' = entry /\ WatchOf(place)' = watch
        /\ SeatAt(place)'.monitor = fresh /\ SeatAt(place)'.pid = pid
    BY DEF ClaimStep, EntryOf, WatchOf
  <1>6. Connected' = (Connected \ cut) \cup {place} /\ procs' = procs
    BY DEF ClaimStep
  <1> HIDE DEF entry, watch
  <1>7. monitors' = {EntryOf(p)' : p \in Connected'}
    <2>1. ASSUME NEW m \in monitors'
          PROVE  \E p \in Connected' : m = EntryOf(p)'
      BY <1>1, <1>2, <1>3, <1>4, <1>5, <1>6
    <2>2. ASSUME NEW p \in Connected'
          PROVE  EntryOf(p)' \in monitors'
      BY <1>1, <1>2, <1>3, <1>4, <1>5, <1>6
    <2> QED
      BY <2>1, <2>2
  <1>8. beam' = {WatchOf(p)' : p \in {q \in Connected' : SeatAt(q)'.pid \in procs'}}
    <2>1. ASSUME NEW w \in beam'
          PROVE  \E p \in Connected' : SeatAt(p)'.pid \in procs' /\ w = WatchOf(p)'
      BY <1>1, <1>2, <1>3, <1>4, <1>5, <1>6
    <2>2. ASSUME NEW p \in Connected', SeatAt(p)'.pid \in procs'
          PROVE  WatchOf(p)' \in beam'
      BY <1>1, <1>2, <1>3, <1>4, <1>5, <1>6, <2>2
    <2> QED
      BY <2>1, <2>2
  <1>9. downs' = {SeatAt(p)'.monitor : p \in {q \in Connected' : SeatAt(q)'.pid \notin procs'}}
    <2>1. ASSUME NEW d \in downs'
          PROVE  \E p \in Connected' : SeatAt(p)'.pid \notin procs' /\ d = SeatAt(p)'.monitor
      BY <1>1, <1>2, <1>3, <1>4, <1>5, <1>6
    <2>2. ASSUME NEW p \in Connected', SeatAt(p)'.pid \notin procs'
          PROVE  SeatAt(p)'.monitor \in downs'
      BY <1>1, <1>2, <1>3, <1>4, <1>5, <1>6, <2>2
    <2> QED
      BY <2>1, <2>2
  <1> QED
    BY <1>7, <1>8, <1>9 DEF MonitorAgreement, EntryOf, WatchOf

LEMMA ClaimHeld ==
    ASSUME Core, NEW cut, NEW place, NEW new, NEW pid, ClaimStep(cut, place, new, pid)
    PROVE  HeldGranted'
  <1>1. ASSUME NEW p \in Connected \ cut
        PROVE  \E l \in leases' :
                 /\ l.lease = SeatAt(p)'.lease /\ l.pid = SeatAt(p)'.pid
                 /\ l.session = p[1] /\ l.role = p[2] /\ l.epoch = sessions'[p[1]].epoch
    <2>1. SeatAt(p)' = SeatAt(p) /\ sessions'[p[1]] = sessions[p[1]]
      BY DEF ClaimStep
    <2>2. leases \subseteq leases'
      BY DEF ClaimStep
    <2> QED
      BY <2>1, <2>2 DEF HeldGranted, Core
  <1>2. \E l \in leases' :
           /\ l.lease = SeatAt(place)'.lease /\ l.pid = SeatAt(place)'.pid
           /\ l.session = place[1] /\ l.role = place[2]
           /\ l.epoch = sessions'[place[1]].epoch
    <2>1. new \in leases'
      BY DEF ClaimStep
    <2>2. /\ new.lease = SeatAt(place)'.lease /\ new.pid = SeatAt(place)'.pid
          /\ new.session = place[1] /\ new.role = place[2]
          /\ new.epoch = sessions'[place[1]].epoch
      BY DEF ClaimStep
    <2> QED
      BY <2>1, <2>2
  <1>3. Connected' = (Connected \ cut) \cup {place}
    BY DEF ClaimStep
  <1> QED
    BY <1>1, <1>2, <1>3 DEF HeldGranted
\* Handling a :DOWN disconnects its seat: the runtime had stopped watching it.
LEMMA DownEnds ==
    ASSUME Core, AnyDown
    PROVE  \E cut \in SUBSET Place, fence \in BOOLEAN : Ends(cut, fence)
  <1>1. PICK ref \in downs : Down(ref)
    BY DEF AnyDown
  <1>2. PICK q \in Connected :
            /\ SeatAt(q).monitor = ref /\ SeatAt(q).pid \notin procs
            /\ \A p \in Place : SeatAt(p)' =
                  IF p = q THEN Vacated(SeatAt(p)) ELSE SeatAt(p)
            /\ monitors' = {m \in monitors : m.ref # ref}
            /\ downs' = downs \ {ref}
            /\ UNCHANGED <<sessions, beam, fenced, procs, clocks, fresh, issued,
                           leases, relays>>
    BY <1>1, DownPointwise DEF Core
  <1>3. Vacated(SeatAt(q)).pid = Nil
    BY ConnectedSeat DEF Core, Vacated, Seat
  <1>4. Connected' = Connected \ {q}
    BY <1>2, <1>3 DEF Connected
  <1>5. \A p \in Connected \ {q} : SeatAt(p)' = SeatAt(p) /\ sessions'[p[1]] = sessions[p[1]]
    BY <1>2 DEF Connected
  <1>6. Refs({q}) = {ref}
    BY <1>2 DEF Refs
  <1>7. \A w \in beam : w.ref # ref
    <2> TAKE w \in beam
    <2>1. PICK p \in Connected : SeatAt(p).pid \in procs /\ w.ref = SeatAt(p).monitor
      BY DEF Core, MonitorAgreement
    <2>2. p # q
      BY <1>2, <2>1
    <2> QED
      BY <1>2, <2>1, <2>2, MonitorUnique
  <1>8. Disconnect({q}, FALSE, {})
    BY <1>2, <1>6, <1>7 DEF Disconnect
  <1>9. Ends({q}, FALSE)
    BY <1>2, <1>4, <1>5, <1>8 DEF Ends, Kept
  <1>10. {q} \in SUBSET Place
    BY DEF Connected
  <1> QED
    BY <1>9, <1>10

\* A restart ends every connection, and leaves no monitor behind.
LEMMA ForgetEnds ==
    ASSUME Core, AnyForget
    PROVE  \E cut \in SUBSET Place, fence \in BOOLEAN : Ends(cut, fence)
  <1>1. Forget
    BY DEF AnyForget
  <1>2. \A p \in Place : SeatAt(p)' = NoSeat
    BY <1>1 DEF Forget, SeatAt, Place
  <1>3. Connected' = Connected \ Place
    BY <1>2 DEF Connected
  <1>4. \A p \in Connected : SeatAt(p).monitor \in Refs(Place)
    BY DEF Refs, Connected
  <1>5. /\ \A m \in monitors : m.ref \in Refs(Place)
        /\ \A w \in beam : w.ref \in Refs(Place)
        /\ \A d \in downs : d \in Refs(Place)
    BY <1>4 DEF Core, MonitorAgreement
  <1>6. Disconnect(Place, FALSE, {})
    BY <1>1, <1>5 DEF Forget, Disconnect
  <1>7. Connected \ Place = {}
    BY DEF Connected
  <1>8. Ends(Place, FALSE)
    BY <1>1, <1>3, <1>6, <1>7 DEF Ends, Kept, Forget
  <1>9. Place \in SUBSET Place /\ FALSE \in BOOLEAN
    OBVIOUS
  <1> QED
    BY <1>8, <1>9

\* A process that dies is no longer watched; its :DOWN messages are queued.
LEMMA DieAgreement ==
    ASSUME Core, AnyDie
    PROVE  MonitorAgreement' /\ HeldGranted'
  <1>1. PICK pid \in Pids : Die(pid)
    BY DEF AnyDie
  <1>2. /\ procs' = procs \ {pid} /\ pid \in procs
        /\ downs' = downs \cup {w.ref : w \in {x \in beam : x.pid = pid}}
        /\ beam' = {w \in beam : w.pid # pid}
        /\ monitors' = monitors /\ sessions' = sessions /\ seats' = seats
        /\ leases' = leases
    BY <1>1 DEF Die
  <1>3. Connected' = Connected /\ \A p : SeatAt(p)' = SeatAt(p)
    BY <1>2 DEF Connected, SeatAt
  <1>4. /\ monitors = {EntryOf(p) : p \in Connected}
        /\ beam = {WatchOf(p) : p \in {q \in Connected : SeatAt(q).pid \in procs}}
        /\ downs = {SeatAt(p).monitor : p \in {q \in Connected : SeatAt(q).pid \notin procs}}
    BY DEF Core, MonitorAgreement, EntryOf, WatchOf
  <1>5. \A p : WatchOf(p).ref = SeatAt(p).monitor /\ WatchOf(p).pid = SeatAt(p).pid
    BY DEF WatchOf
  <1>6. beam' = {WatchOf(p) : p \in {q \in Connected : SeatAt(q).pid \in procs'}}
    BY <1>2, <1>4, <1>5
  <1>7. downs' = {SeatAt(p).monitor : p \in {q \in Connected : SeatAt(q).pid \notin procs'}}
    <2>1. ASSUME NEW d \in downs'
          PROVE  \E p \in Connected : SeatAt(p).pid \notin procs' /\ d = SeatAt(p).monitor
      <3>1. CASE d \in downs
        BY <1>2, <1>4, <3>1
      <3>2. CASE \E w \in beam : w.pid = pid /\ d = w.ref
        BY <1>2, <1>4, <1>5, <3>2
      <3> QED
        BY <1>2, <3>1, <3>2
    <2>2. ASSUME NEW p \in Connected, SeatAt(p).pid \notin procs'
          PROVE  SeatAt(p).monitor \in downs'
      <3>1. CASE SeatAt(p).pid \notin procs
        BY <1>2, <1>4, <3>1
      <3>2. CASE SeatAt(p).pid \in procs
        <4>1. SeatAt(p).pid = pid /\ WatchOf(p) \in beam
          BY <1>2, <1>4, <2>2, <3>2
        <4> QED
          BY <1>2, <1>5, <4>1
      <3> QED
        BY <3>1, <3>2
    <2> QED
      BY <2>1, <2>2
  <1>8. MonitorAgreement'
    BY <1>2, <1>3, <1>4, <1>6, <1>7 DEF MonitorAgreement, EntryOf, WatchOf
  <1>9. HeldGranted'
    BY <1>2, <1>3 DEF HeldGranted, Core
  <1> QED
    BY <1>8, <1>9
-----------------------------------------------------------------------------
(* The shape of a seat.                                                     *)

\* SeatShape, said of one seat value.
Shape(seat) ==
    /\ (seat.pid = Nil) <=> (seat.lease = Nil)
    /\ seat.monitor = seat.lease
    /\ (seat.pid = Nil) <=> (seat.expires = Nil)
    /\ seat.pid # Nil => seat.used
    /\ seat.used <=> (seat.rejoin # Nil)

LEMMA ShapeUpdates ==
    ASSUME TypeOK, NEW seat \in Seat, Shape(seat)
    PROVE  /\ Shape(Vacated(seat))
           /\ \A seq : Shape(Numbered(seat, seq))
           /\ \A pid \in Pids, expires \in Expiries, role \in Roles :
                Shape(Occupied(seat, pid, expires, role))
  <1>1. Shape(Vacated(seat))
    BY DEF Shape, Vacated, Seat
  <1>2. ASSUME NEW seq
        PROVE  Shape(Numbered(seat, seq))
    BY NumberedKeeps DEF Shape
  <1>3. ASSUME NEW pid \in Pids, NEW expires \in Expiries, NEW role \in Roles
        PROVE  Shape(Occupied(seat, pid, expires, role))
    <2>1. fresh \in Nat /\ expires \in Int
      BY NumberAssumption DEF TypeOK
    <2>2. <<fresh, role>> \in Token
      BY <2>1 DEF Token
    <2>3. pid # Nil /\ fresh # Nil /\ expires # Nil /\ <<fresh, role>> # Nil
      BY <2>1, <2>2, NilAssumption
    <2> DEFINE o == Occupied(seat, pid, expires, role)
    <2>4. /\ o.pid = pid /\ o.lease = fresh /\ o.monitor = fresh
          /\ o.expires = expires /\ o.used = TRUE /\ o.rejoin = <<fresh, role>>
      BY DEF Occupied, Seat
    <2> HIDE DEF o
    <2> QED
      BY <2>3, <2>4 DEF Shape, o
  <1> QED
    BY <1>1, <1>2, <1>3

LEMMA NewShape == ASSUME NEW subject, NEW role PROVE Shape(NewSeat(subject, role))
  BY DEF Shape, NewSeat

LEMMA ShapeStep ==
    ASSUME Core, Next
    PROVE  SeatShape'
  <1>0. TypeOK /\ SeatShape
    BY DEF Core
  <1>1. \A p \in Place : SeatAt(p) # NoSeat =>
            /\ sessions[p[1]] # NoSession
            /\ Shape(SeatAt(p)) /\ SeatAt(p) \in Seat
    BY <1>0, SeatTypes DEF SeatShape, Shape, Seated
  <1> SUFFICES \A p \in Place : SeatAt(p)' # NoSeat =>
                    sessions'[p[1]] # NoSession /\ Shape(SeatAt(p)')
    BY DEF SeatShape, Shape, Seated
  <1>2. \A p \in Place : p[1] \in SessionIds
    BY DEF Place
  <1>3. CASE AnyProvision
    <2>1. PICK gone : \E id \in SessionIds, roster \in RosterFunctions, session \in Session :
                Provision(gone, id, roster, session)
      BY <1>3 DEF AnyProvision, ProvisionStep
    <2>2. PICK id \in SessionIds, roster \in RosterFunctions, session \in Session :
                Provision(gone, id, roster, session)
      BY <2>1
    <2>3. /\ \A p \in Place : SeatAt(p)' =
                IF p[1] = id THEN SeatFor(roster, p[2])
                ELSE IF p[1] \in gone THEN NoSeat ELSE SeatAt(p)
          /\ \A i \in SessionIds : sessions'[i] =
                IF i = id THEN session
                ELSE IF i \in gone THEN NoSession ELSE sessions[i]
      BY <1>0, <2>2, ProvisionSeats, ProvisionSessions
    <2>4. \A r : SeatFor(roster, r) = NoSeat \/ Shape(SeatFor(roster, r))
      BY NewShape DEF SeatFor
    <2>5. session # NoSession
      BY NilAssumption
    <2> QED
      BY <1>1, <1>2, <2>3, <2>4, <2>5
  <1>4. CASE AnyRevoke
    <2>1. PICK gone \in SUBSET SessionIds : RevokeStep(gone)
      BY <1>4 DEF AnyRevoke
    <2>2. /\ \A p \in Place : SeatAt(p)' = IF p[1] \in gone THEN NoSeat ELSE SeatAt(p)
          /\ \A i \in SessionIds :
                sessions'[i] = IF i \in gone THEN NoSession ELSE sessions[i]
      BY <1>0, <2>1, RevokePointwise DEF RevokeStep, Revoke
    <2> QED
      BY <1>1, <1>2, <2>2
  <1>5. CASE ClaimAny
    <2>1. PICK pid \in Pids, subject \in Subjects, expires \in Expiries,
               id \in SessionIds, audience \in Audiences, role \in Roles,
               g \in issued, kind \in {"ticket", "rejoin"},
               epoch \in {x.epoch : x \in issued} :
            Claim(pid, subject, expires, id, audience, role, epoch, kind, g.token)
      BY <1>5 DEF ClaimAny
    <2>2. /\ id \notin Overdue
          /\ \A p \in Place : SeatAt(p)' =
                IF p = <<id, role>> THEN Occupied(SeatAt(p), pid, expires, role)
                ELSE IF p[1] \in Overdue THEN NoSeat ELSE SeatAt(p)
          /\ \A i \in SessionIds :
                sessions'[i] = IF i \in Overdue THEN NoSession ELSE sessions[i]
      BY <1>0, <2>1, ClaimPointwise
    <2>3. SeatAt(<<id, role>>) # NoSeat
      BY <2>1 DEF Claim, SeatAt
    <2> QED
      BY <1>0, <1>1, <1>2, <2>2, <2>3, ShapeUpdates
  <1>6. CASE AnyEffect
    <2>1. PICK pid \in Pids, l \in leases, seq \in Seqs \cup {Nil} : Effect(pid, l, seq)
      BY <1>6 DEF AnyEffect
    <2>2. /\ l.session \notin Overdue
          /\ \A p \in Place : SeatAt(p)' =
                IF p = <<l.session, l.role>> THEN Numbered(SeatAt(p), seq)
                ELSE IF p[1] \in Overdue THEN NoSeat ELSE SeatAt(p)
          /\ \A i \in SessionIds :
                sessions'[i] = IF i \in Overdue THEN NoSession ELSE sessions[i]
      BY <1>0, <2>1, EffectPointwise
    <2>3. SeatAt(<<l.session, l.role>>) # NoSeat
      BY <2>1 DEF Effect, EffectRuns, Current, SeatAt
    <2> QED
      BY <1>0, <1>1, <1>2, <2>2, <2>3, ShapeUpdates
  <1>7. CASE AnyForget
    <2>1. \A p \in Place : SeatAt(p)' = NoSeat
      BY <1>7, ForgetPointwise DEF AnyForget
    <2> QED
      BY <2>1
  <1>8. CASE AnyLeave
    <2>1. PICK pid \in Pids, l \in leases : Leave(pid, l)
      BY <1>8 DEF AnyLeave
    <2>2. /\ \A p \in Place : SeatAt(p)' =
                IF p = <<l.session, l.role>> THEN Vacated(SeatAt(p)) ELSE SeatAt(p)
          /\ sessions' = sessions
      BY <1>0, <2>1, LeavePointwise
    <2>3. SeatAt(<<l.session, l.role>>) # NoSeat
      BY <2>1 DEF Leave, Current, SeatAt
    <2> QED
      BY <1>0, <1>1, <1>2, <2>2, <2>3, ShapeUpdates
  <1>9. CASE AnyDown
    <2>1. PICK ref \in downs : Down(ref)
      BY <1>9 DEF AnyDown
    <2>2. PICK q \in Connected :
              /\ \A p \in Place : SeatAt(p)' =
                    IF p = q THEN Vacated(SeatAt(p)) ELSE SeatAt(p)
              /\ sessions' = sessions
      BY <2>1, DownPointwise DEF Core
    <2>3. SeatAt(q) # NoSeat
      BY DEF Connected
    <2> QED
      BY <1>0, <1>1, <2>2, <2>3, ShapeUpdates
  <1>10. CASE AnyDie \/ Tick
    <2>1. sessions' = sessions /\ seats' = seats
      BY <1>10 DEF AnyDie, Die, Tick
    <2> QED
      BY <1>1, <2>1 DEF SeatAt
  <1> QED
    BY <1>0, <1>3, <1>4, <1>5, <1>6, <1>7, <1>8, <1>9, <1>10, NextKinds
-----------------------------------------------------------------------------
(* Secrets are fresh.                                                       *)

\* Every step but a provision and a claim leaves the counter and the histories
\* of credentials and leases alone, and only ends sessions.
LEMMA QuietStep ==
    ASSUME Core, AnyRevoke \/ AnyEffect \/ AnyForget \/ AnyLeave \/ AnyDown \/ AnyDie \/ Tick
    PROVE  /\ fresh' = fresh /\ issued' = issued /\ leases' = leases
           /\ \A i \in SessionIds : sessions'[i] = sessions[i] \/ sessions'[i] = NoSession
  <1>0. TypeOK
    BY DEF Core
  <1>1. CASE AnyRevoke
    <2>1. PICK gone \in SUBSET SessionIds : RevokeStep(gone)
      BY <1>1 DEF AnyRevoke
    <2> QED
      BY <2>1 DEF RevokeStep, Revoke, SessionsWithout
  <1>2. CASE AnyEffect
    BY <1>2 DEF AnyEffect, Effect, SessionsWithout
  <1>3. CASE AnyForget
    BY <1>3 DEF AnyForget, Forget
  <1>4. CASE AnyLeave
    BY <1>4 DEF AnyLeave, Leave
  <1>5. CASE AnyDown
    BY <1>5 DEF AnyDown, Down
  <1>6. CASE AnyDie
    BY <1>6 DEF AnyDie, Die
  <1>7. CASE Tick
    BY <1>7 DEF Tick
  <1> QED
    BY <1>1, <1>2, <1>3, <1>4, <1>5, <1>6, <1>7

\* An effect is logged under the epoch of its live session.
LEMMA RelayStep ==
    ASSUME Core, Next
    PROVE  \/ relays' = relays
           \/ \E pid \in Pids, l \in leases, seq \in Seqs \cup {Nil} : EffectRuns(pid, l, seq)
  <1>0. TypeOK
    BY DEF Core
  <1>1. AnyProvision => relays' = relays
    BY DEF AnyProvision, ProvisionStep, Provision
  <1>2. AnyRevoke \/ AnyLeave \/ AnyDown \/ AnyDie \/ Tick => relays' = relays
    BY DEF AnyRevoke, RevokeStep, AnyLeave, Leave, AnyDown, Down, AnyDie, Die, Tick
  <1>3. ClaimAny => relays' = relays
    BY DEF ClaimAny, Claim
  <1>4. AnyEffect \/ AnyForget =>
            \/ relays' = relays
            \/ \E pid \in Pids, l \in leases, seq \in Seqs \cup {Nil} : EffectRuns(pid, l, seq)
    BY DEF AnyEffect, Effect, AnyForget
  <1> QED
    BY <1>0, <1>1, <1>2, <1>3, <1>4, NextKinds

LEMMA ProvisionHistory ==
    ASSUME Core, NEW gone, NEW id \in SessionIds,
           NEW roster \in RosterFunctions, NEW session \in Session,
           ProvisionStep(gone, id, roster, session)
    PROVE  /\ fresh' = fresh + 1 /\ leases' = leases /\ session.epoch = fresh
           /\ issued' = issued \cup
                    {[token |-> <<fresh, r>>, session |-> id,
                      audience |-> session.audience, epoch |-> fresh, role |-> r,
                      subject |-> roster[r]] : r \in DOMAIN roster}
  BY DEF ProvisionStep, Provision

LEMMA DrawnStep ==
    ASSUME Core, Next
    PROVE  Drawn'
  <1>0. TypeOK /\ Drawn
    BY DEF Core
  <1>1. fresh \in Nat
    BY <1>0 DEF TypeOK
  <1>2. \A i \in SessionIds : sessions[i] # NoSession =>
                                 sessions[i].epoch \in Nat /\ sessions[i].epoch < fresh
    BY <1>0 DEF Drawn, Live, TypeOK, Session
  <1>3. /\ \A l \in leases : l.lease \in Nat /\ l.lease < fresh
        /\ \A g \in issued : g.token[1] \in Nat /\ g.token[1] < fresh
    BY <1>0 DEF Drawn, TypeOK, Lease, Credential, Token
  <1>4. fresh' \in Nat /\ fresh <= fresh' /\
        (\A i \in SessionIds : sessions'[i] # NoSession => sessions'[i].epoch < fresh') /\
        (\A l \in leases' : l.lease < fresh') /\
        (\A g \in issued' : g.token[1] < fresh')
    <2>1. CASE AnyProvision
      <3>1. PICK gone : \E id \in SessionIds, roster \in RosterFunctions, session \in Session :
                ProvisionStep(gone, id, roster, session)
        BY <2>1 DEF AnyProvision
      <3>2. PICK id \in SessionIds, roster \in RosterFunctions, session \in Session :
                ProvisionStep(gone, id, roster, session)
        BY <3>1
      <3>3. Provision(gone, id, roster, session)
        BY <3>2 DEF ProvisionStep
      <3>4. \A i \in SessionIds : sessions'[i] =
                IF i = id THEN session
                ELSE IF i \in gone THEN NoSession ELSE sessions[i]
        BY <3>2, <3>3 DEF Provision, SessionsWithout
      <3>5. /\ fresh' = fresh + 1 /\ leases' = leases /\ session.epoch = fresh
            /\ issued' = issued \cup
                    {[token |-> <<fresh, r>>, session |-> id,
                      audience |-> session.audience, epoch |-> fresh, role |-> r,
                      subject |-> roster[r]] : r \in DOMAIN roster}
        <4>1. /\ fresh' = fresh + 1 /\ leases' = leases /\ session.epoch = fresh
          BY <3>2, ProvisionHistory
        <4> QED
          BY <3>2, <4>1, ProvisionHistory
      <3>6. \A i \in SessionIds : sessions'[i] # NoSession => sessions'[i].epoch < fresh'
        <4> TAKE i \in SessionIds
        <4>1. CASE i = id
          BY <1>1, <3>4, <3>5, <4>1
        <4>2. CASE i # id
          BY <1>1, <1>2, <3>4, <3>5, <4>2
        <4> QED
          BY <4>1, <4>2
      <3>7. \A g \in issued' : g.token[1] < fresh'
        BY <1>1, <1>3, <3>5
      <3> QED
        BY <1>1, <1>3, <3>5, <3>6, <3>7
    <2>2. CASE ClaimAny
      <3>1. PICK pid \in Pids, subject \in Subjects, expires \in Expiries,
               id \in SessionIds, audience \in Audiences, role \in Roles,
               g \in issued, kind \in {"ticket", "rejoin"},
               epoch \in {x.epoch : x \in issued} :
            Claim(pid, subject, expires, id, audience, role, epoch, kind, g.token)
        BY <2>2 DEF ClaimAny
      <3>2. /\ fresh' = fresh + 1
            /\ leases' = leases \cup
                 {[lease |-> fresh, session |-> id, audience |-> audience,
                   epoch |-> epoch, role |-> role, subject |-> subject,
                   pid |-> pid, token |-> g.token]}
            /\ issued' = issued \cup
                 {[token |-> <<fresh, role>>, session |-> id, audience |-> audience,
                   epoch |-> epoch, role |-> role, subject |-> subject]}
            /\ sessions' = SessionsWithout(Overdue)
        BY <3>1 DEF Claim
      <3>3. \A i \in SessionIds : sessions'[i] # NoSession => sessions'[i].epoch < fresh'
        BY <1>1, <1>2, <3>2 DEF SessionsWithout
      <3>4. \A l \in leases' : l.lease < fresh'
        BY <1>1, <1>3, <3>2
      <3>5. \A x \in issued' : x.token[1] < fresh'
        BY <1>1, <1>3, <3>2
      <3> QED
        BY <1>1, <3>2, <3>3, <3>4, <3>5
    <2>3. CASE AnyRevoke \/ AnyEffect \/ AnyForget \/ AnyLeave \/ AnyDown \/ AnyDie \/ Tick
      BY <1>1, <1>2, <1>3, <2>3, QuietStep
    <2> QED
      BY <1>0, <2>1, <2>2, <2>3, NextKinds
  <1>5. \A i \in DOMAIN relays' : relays'[i].epoch < fresh'
    <2>1. \A i \in DOMAIN relays : relays[i].epoch \in Nat /\ relays[i].epoch < fresh
      <3> TAKE i \in DOMAIN relays
      <3>1. relays \in Seq(Relay)
        BY <1>0 DEF TypeOK
      <3>2. relays[i] \in Relay
        BY <3>1
      <3>3. relays[i].epoch \in Nat
        BY <3>2 DEF Relay
      <3>4. relays[i].epoch < fresh
        BY <1>0 DEF Drawn
      <3> QED
        BY <3>3, <3>4
    <2>2. CASE relays' = relays
      BY <1>1, <1>4, <2>1, <2>2
    <2>3. ASSUME NEW pid \in Pids, NEW l \in leases, NEW seq \in Seqs \cup {Nil},
                 EffectRuns(pid, l, seq)
          PROVE  \A i \in DOMAIN relays' : relays'[i].epoch < fresh'
      <3>1. l.epoch \in Nat /\ l.epoch < fresh
        <4>1. l.session \in SessionIds /\ sessions[l.session] # NoSession
              /\ sessions[l.session].epoch = l.epoch
          BY <1>0, <2>3 DEF EffectRuns, Current, TypeOK, Lease
        <4> QED
          BY <1>2, <4>1
      <3> DEFINE e == [session |-> l.session, epoch |-> l.epoch, role |-> l.role,
                       lease |-> l.lease, seq |-> seq]
      <3>2. relays' = Append(relays, e) /\ relays \in Seq(Relay)
        BY <1>0, <2>3 DEF EffectRuns, TypeOK
      <3>3. e.epoch = l.epoch
        OBVIOUS
      <3> HIDE DEF e
      <3>4. /\ DOMAIN relays' = 1..(Len(relays) + 1)
            /\ \A i \in 1..Len(relays) : relays'[i] = relays[i]
            /\ relays'[Len(relays) + 1] = e
            /\ DOMAIN relays = 1..Len(relays) /\ Len(relays) \in Nat
        BY <3>2
      <3> TAKE i \in DOMAIN relays'
      <3>5. CASE i \in 1..Len(relays)
        BY <1>1, <1>4, <2>1, <3>4, <3>5
      <3>6. CASE i = Len(relays) + 1
        BY <1>1, <1>4, <3>1, <3>3, <3>4, <3>6
      <3> QED
        BY <3>4, <3>5, <3>6
    <2> QED
      BY <2>2, <2>3, RelayStep
  <1> QED
    BY <1>4, <1>5 DEF Drawn, Live

\* A step grants no lease, or one with a fresh id.
LEMMA LeasesGrow ==
    ASSUME Core, Next
    PROVE  leases' = leases \/ \E x : x.lease = fresh /\ leases' = leases \cup {x}
  <1>0. TypeOK
    BY DEF Core
  <1>1. CASE AnyProvision
    BY <1>1 DEF AnyProvision, ProvisionStep, Provision
  <1>2. CASE ClaimAny
    <2>1. PICK pid \in Pids, subject \in Subjects, expires \in Expiries,
               id \in SessionIds, audience \in Audiences, role \in Roles,
               g \in issued, kind \in {"ticket", "rejoin"},
               epoch \in {x.epoch : x \in issued} :
            Claim(pid, subject, expires, id, audience, role, epoch, kind, g.token)
      BY <1>2 DEF ClaimAny
    <2> DEFINE x == [lease |-> fresh, session |-> id, audience |-> audience,
                     epoch |-> epoch, role |-> role, subject |-> subject,
                     pid |-> pid, token |-> g.token]
    <2>2. leases' = leases \cup {x}
      BY <2>1 DEF Claim
    <2>3. x.lease = fresh
      OBVIOUS
    <2> QED
      BY <2>2, <2>3
  <1>3. CASE AnyRevoke \/ AnyEffect \/ AnyForget \/ AnyLeave \/ AnyDown \/ AnyDie \/ Tick
    BY <1>3, QuietStep
  <1> QED
    BY <1>0, <1>1, <1>2, <1>3, NextKinds

LEMMA LeaseStep ==
    ASSUME Core, Next
    PROVE  LeaseUnique'
  <1>1. \A l \in leases : l.lease \in Nat /\ l.lease < fresh
    BY DEF Core, Drawn, TypeOK, Lease
  <1>2. fresh \in Nat
    BY DEF Core, TypeOK
  <1>3. \A l \in leases : l.lease # fresh
    BY <1>1, <1>2
  <1>4. \A l1, l2 \in leases : l1.lease = l2.lease => l1 = l2
    BY DEF Core, LeaseUnique
  <1>5. CASE leases' = leases
    BY <1>4, <1>5 DEF LeaseUnique
  <1>6. ASSUME NEW x, x.lease = fresh, leases' = leases \cup {x}
        PROVE  LeaseUnique'
    BY <1>3, <1>4, <1>6 DEF LeaseUnique
  <1> QED
    BY <1>5, <1>6, LeasesGrow
-----------------------------------------------------------------------------
(* Type correctness and the agreement of the three tables.                  *)

LEMMA AgreementStep ==
    ASSUME Core, Next
    PROVE  MonitorAgreement' /\ HeldGranted'
  <1>0. TypeOK /\ SeatShape
    BY DEF Core
  <1>1. ASSUME NEW cut, NEW fence, Ends(cut, fence), leases' = leases
        PROVE  MonitorAgreement' /\ HeldGranted'
    BY <1>1, EndsAgreement, EndsHeld
  <1>2. CASE AnyProvision
    <2>1. leases' = leases
      BY <1>2 DEF AnyProvision, ProvisionStep, Provision
    <2>2. PICK cut, fence : Ends(cut, fence)
      BY <1>0, <1>2, ProvisionEnds
    <2> QED
      BY <1>1, <2>1, <2>2
  <1>3. CASE AnyRevoke \/ AnyEffect \/ AnyForget \/ AnyLeave \/ AnyDown
    <2>1. leases' = leases
      BY <1>3, QuietStep
    <2>2. PICK cut, fence : Ends(cut, fence)
      BY <1>0, <1>3, RevokeEnds, EffectEnds, ForgetEnds, LeaveEnds, DownEnds
    <2> QED
      BY <1>1, <2>1, <2>2
  <1>4. CASE ClaimAny
    <2>1. PICK cut, place, new, pid : ClaimStep(cut, place, new, pid)
      BY <1>0, <1>4, ClaimSteps
    <2> QED
      BY <2>1, ClaimAgreement, ClaimHeld
  <1>5. CASE AnyDie
    BY <1>5, DieAgreement
  <1>6. CASE Tick
    <2>1. UNCHANGED <<sessions, seats, monitors, beam, downs, procs, leases>>
      BY <1>6 DEF Tick
    <2>2. MonitorAgreement /\ HeldGranted
      BY DEF Core
    <2>3. Connected' = Connected /\ \A p : SeatAt(p)' = SeatAt(p)
      BY <2>1 DEF Connected, SeatAt
    <2>4. MonitorAgreement'
      BY <2>1, <2>2, <2>3 DEF MonitorAgreement
    <2>5. HeldGranted'
      BY <2>1, <2>2, <2>3 DEF HeldGranted
    <2> QED
      BY <2>4, <2>5
  <1> QED
    BY <1>0, <1>2, <1>3, <1>4, <1>5, <1>6, NextKinds

LEMMA CoreInit ==
    ASSUME Init
    PROVE  Core
  <1>1. TypeOK
    BY DEF Init, TypeOK
  <1>2. \A p \in Place : SeatAt(p) = NoSeat
    BY DEF Init, SeatAt, Place
  <1>3. Connected = {}
    BY <1>2 DEF Connected
  <1>4. SeatShape /\ HeldGranted
    BY <1>2, <1>3 DEF SeatShape, Seated, HeldGranted
  <1>5. Drawn /\ LeaseUnique
    BY DEF Init, Drawn, LeaseUnique, Live
  <1>6. MonitorAgreement
    BY <1>3 DEF Init, MonitorAgreement
  <1> QED
    BY <1>1, <1>4, <1>5, <1>6 DEF Core

LEMMA CoreStep ==
    ASSUME Core, [Next]_vars
    PROVE  Core'
  <1>1. CASE Next
    <2>1. /\ TypeOK /\ SeatShape /\ LeaseUnique /\ HeldGranted /\ MonitorAgreement
      BY DEF Core
    <2>2. TypeOK'
      BY <1>1, <2>1, NextKinds, ProvisionTypes, ClaimTypes, OtherTypes
    <2> QED
      BY <1>1, <2>2, ShapeStep, DrawnStep, LeaseStep, AgreementStep DEF Core
  <1>2. CASE UNCHANGED vars
    <2>1. UNCHANGED <<sessions, seats, monitors, beam, downs, fenced, procs, mono,
                      wall, fresh, issued, leases, relays>>
      BY <1>2 DEF vars
    <2>2. /\ Connected' = Connected /\ Live({})' = Live({})
          /\ \A p : SeatAt(p)' = SeatAt(p)
      BY <2>1 DEF Connected, SeatAt, Live
    <2>3. /\ TypeOK /\ SeatShape /\ Drawn /\ LeaseUnique /\ HeldGranted
          /\ MonitorAgreement
      BY DEF Core
    <2>4. TypeOK'
      BY <2>1, <2>3 DEF TypeOK
    <2>5. SeatShape'
      <3>1. \A p : Seated(p)' = Seated(p)
        BY <2>2 DEF Seated
      <3> QED
        BY <2>1, <2>2, <2>3, <3>1 DEF SeatShape
    <2>6. Drawn'
      BY <2>1, <2>2, <2>3 DEF Drawn
    <2>7. LeaseUnique'
      BY <2>1, <2>3 DEF LeaseUnique
    <2>8. HeldGranted'
      BY <2>1, <2>2, <2>3 DEF HeldGranted
    <2>9. MonitorAgreement'
      BY <2>1, <2>2, <2>3 DEF MonitorAgreement
    <2> QED
      BY <2>4, <2>5, <2>6, <2>7, <2>8, <2>9 DEF Core
  <1> QED
    BY <1>1, <1>2

LEMMA CoreInvariant == Spec => []Core
  <1>1. Init => Core
    BY CoreInit
  <1>2. Core /\ [Next]_vars => Core'
    BY CoreStep
  <1> QED
    BY <1>1, <1>2, PTL DEF Spec

\* Whatever is sent to the authority, whoever dies and whenever it restarts, its
\* state keeps the shape init/1, provision/5 and the handlers give it.
THEOREM TypeCorrect == Spec => []TypeOK
  <1>1. Core => TypeOK
    BY DEF Core
  <1> QED
    BY <1>1, CoreInvariant, PTL

\* The monitor table, the runtime's monitors and the queued :DOWN messages
\* agree with the seats, for any number of sessions, roles and processes:
\* disconnect/4 and the :DOWN handler leak no monitor and miss no death.
THEOREM MonitorsAgree == Spec => []MonitorAgreement
  <1>1. Core => MonitorAgreement
    BY DEF Core
  <1> QED
    BY <1>1, CoreInvariant, PTL
-----------------------------------------------------------------------------
(* What happens to a seat in a step.                                        *)

\* Seat and session are those of before, up to the connection and last_seq.
Stays(p) ==
    /\ SeatAt(p) # NoSeat
    /\ SeatAt(p)'.subject = SeatAt(p).subject
    /\ sessions'[p[1]] = sessions[p[1]]

SameCredential(p) ==
    /\ SeatAt(p)'.ticket = SeatAt(p).ticket
    /\ SeatAt(p)'.used = SeatAt(p).used
    /\ SeatAt(p)'.rejoin = SeatAt(p).rejoin

SameSeq(p) == SeatAt(p)'.lastSeq = SeatAt(p).lastSeq

\* Every seat after the step is one of before, with its credentials.
QuietSeats ==
    \A p \in Place : SeatAt(p)' # NoSeat => Stays(p) /\ SameCredential(p) /\ SameSeq(p)

LEMMA VacatedKeeps ==
    ASSUME NEW s \in Seat
    PROVE  /\ Vacated(s).subject = s.subject /\ Vacated(s).ticket = s.ticket
           /\ Vacated(s).used = s.used /\ Vacated(s).rejoin = s.rejoin
           /\ Vacated(s).lastSeq = s.lastSeq
  BY DEF Vacated, Seat

LEMMA RevokeSeats ==
    ASSUME Core, AnyRevoke
    PROVE  QuietSeats
  <1>1. PICK gone \in SUBSET SessionIds : RevokeStep(gone)
    BY DEF AnyRevoke
  <1>2. /\ \A p \in Place : SeatAt(p)' = IF p[1] \in gone THEN NoSeat ELSE SeatAt(p)
        /\ \A i \in SessionIds :
                sessions'[i] = IF i \in gone THEN NoSession ELSE sessions[i]
    BY <1>1, RevokePointwise DEF RevokeStep, Revoke, Core
  <1>3. \A p \in Place : p[1] \in SessionIds
    BY DEF Place
  <1> QED
    BY <1>2, <1>3 DEF QuietSeats, Stays, SameCredential, SameSeq

LEMMA LeaveSeats ==
    ASSUME Core, AnyLeave
    PROVE  QuietSeats
  <1>0. TypeOK
    BY DEF Core
  <1>1. PICK pid \in Pids, l \in leases : Leave(pid, l)
    BY DEF AnyLeave
  <1>2. /\ \A p \in Place : SeatAt(p)' =
                IF p = <<l.session, l.role>> THEN Vacated(SeatAt(p)) ELSE SeatAt(p)
        /\ sessions' = sessions
    BY <1>0, <1>1, LeavePointwise
  <1>3. SeatAt(<<l.session, l.role>>) # NoSeat
    BY <1>1 DEF Leave, Current, SeatAt
  <1>4. \A p \in Place : SeatAt(p) # NoSeat => SeatAt(p) \in Seat
    BY <1>0, SeatTypes
  <1> QED
    BY <1>2, <1>3, <1>4, VacatedKeeps DEF QuietSeats, Stays, SameCredential, SameSeq

LEMMA DownSeats ==
    ASSUME Core, AnyDown
    PROVE  QuietSeats
  <1>0. TypeOK
    BY DEF Core
  <1>1. PICK ref \in downs : Down(ref)
    BY DEF AnyDown
  <1>2. PICK q \in Connected :
            /\ \A p \in Place : SeatAt(p)' = IF p = q THEN Vacated(SeatAt(p)) ELSE SeatAt(p)
            /\ sessions' = sessions
    BY <1>1, DownPointwise DEF Core
  <1>3. SeatAt(q) # NoSeat
    BY DEF Connected
  <1>4. \A p \in Place : SeatAt(p) # NoSeat => SeatAt(p) \in Seat
    BY <1>0, SeatTypes
  <1> QED
    BY <1>2, <1>3, <1>4, VacatedKeeps DEF QuietSeats, Stays, SameCredential, SameSeq

LEMMA QuietSeatsStep ==
    ASSUME Core, AnyRevoke \/ AnyForget \/ AnyLeave \/ AnyDown \/ AnyDie \/ Tick
    PROVE  QuietSeats
  <1>1. CASE AnyForget
    BY <1>1, ForgetPointwise DEF AnyForget, QuietSeats
  <1>2. CASE AnyDie \/ Tick
    <2>1. sessions' = sessions /\ seats' = seats
      BY <1>2 DEF AnyDie, Die, Tick
    <2> QED
      BY <2>1 DEF QuietSeats, Stays, SameCredential, SameSeq, SeatAt
  <1> QED
    BY <1>1, <1>2, RevokeSeats, LeaveSeats, DownSeats

\* An effect records its number on the seat of its lease and nowhere else.
LEMMA EffectSeats ==
    ASSUME Core, NEW pid \in Pids, NEW l \in leases, NEW seq \in Seqs \cup {Nil},
           Effect(pid, l, seq)
    PROVE  \A p \in Place : SeatAt(p)' # NoSeat =>
              /\ Stays(p) /\ SameCredential(p)
              /\ (seq = Nil \/ p # <<l.session, l.role>>) => SameSeq(p)
              /\ (seq # Nil /\ p = <<l.session, l.role>>) => SeatAt(p)'.lastSeq = seq
  <1>0. TypeOK
    BY DEF Core
  <1>2. /\ l.session \notin Overdue
        /\ \A p \in Place : SeatAt(p)' =
              IF p = <<l.session, l.role>> THEN Numbered(SeatAt(p), seq)
              ELSE IF p[1] \in Overdue THEN NoSeat ELSE SeatAt(p)
        /\ \A i \in SessionIds :
              sessions'[i] = IF i \in Overdue THEN NoSession ELSE sessions[i]
    BY <1>0, EffectPointwise
  <1>3. SeatAt(<<l.session, l.role>>) # NoSeat
    BY DEF Effect, EffectRuns, Current, SeatAt
  <1>4. \A p \in Place : SeatAt(p) # NoSeat => SeatAt(p) \in Seat
    BY <1>0, SeatTypes
  <1>5. \A p \in Place : p[1] \in SessionIds
    BY DEF Place
  <1>6. ASSUME NEW s \in Seat
        PROVE  /\ seq = Nil => Numbered(s, seq).lastSeq = s.lastSeq
               /\ seq # Nil => Numbered(s, seq).lastSeq = seq
    BY DEF Numbered, Seat
  <1> TAKE p \in Place
  <1> HAVE SeatAt(p)' # NoSeat
  <1>7. CASE p = <<l.session, l.role>>
    <2>1. /\ SeatAt(p) # NoSeat /\ SeatAt(p) \in Seat
          /\ SeatAt(p)' = Numbered(SeatAt(p), seq)
          /\ sessions'[p[1]] = sessions[p[1]]
      BY <1>2, <1>3, <1>4, <1>5, <1>7
    <2>2. Stays(p) /\ SameCredential(p)
      BY <2>1, NumberedKeeps DEF Stays, SameCredential
    <2> QED
      BY <1>6, <1>7, <2>1, <2>2 DEF SameSeq
  <1>8. CASE p # <<l.session, l.role>>
    <2>1. SeatAt(p) # NoSeat /\ SeatAt(p)' = SeatAt(p) /\ sessions'[p[1]] = sessions[p[1]]
      BY <1>2, <1>5, <1>8
    <2> QED
      BY <1>8, <2>1 DEF Stays, SameCredential, SameSeq
  <1> QED
    BY <1>7, <1>8
-----------------------------------------------------------------------------
(* Credentials.                                                             *)

\* The one credential a seat accepts, with the scope it was handed out for.
Card(p) == [token |-> Accepted(p), session |-> p[1],
            audience |-> sessions[p[1]].audience,
            epoch |-> sessions[p[1]].epoch, role |-> p[2],
            subject |-> SeatAt(p).subject]

\* Lease l was granted for what credential g was handed out for.
Scoped(l, g) ==
    /\ g.token = l.token /\ g.session = l.session /\ g.epoch = l.epoch
    /\ g.audience = l.audience /\ g.role = l.role /\ g.subject = l.subject

\* The seats of `renewed' accept fresh credentials after the step, the others
\* what they accepted before; a lease may be granted for what one seat of
\* `renewed' accepted before.
Renewal(renewed) ==
    /\ \A p, q \in renewed : p[2] = q[2] => p = q
    /\ issued \subseteq issued'
    /\ \A p \in Place : SeatAt(p)' # NoSeat =>
          \/ /\ p \in renewed
             /\ Accepted(p)' = <<fresh, p[2]>> /\ Card(p)' \in issued'
          \/ /\ p \notin renewed /\ SeatAt(p) # NoSeat
             /\ Accepted(p)' = Accepted(p) /\ Card(p)' = Card(p)
    /\ \/ leases' = leases
       \/ \E x, p : /\ p \in renewed \cap Place /\ SeatAt(p) # NoSeat
                    /\ leases' = leases \cup {x} /\ Scoped(x, Card(p))

CredentialInv == AcceptedCredential /\ CredentialOnce /\ ScopedLease

LEMMA KeepsCard ==
    ASSUME NEW p, Stays(p), SameCredential(p)
    PROVE  Accepted(p)' = Accepted(p) /\ Card(p)' = Card(p)
  <1>1. Accepted(p)' = Accepted(p)
    BY DEF SameCredential, Accepted
  <1> QED
    BY <1>1 DEF Stays, Card

\* What is accepted was drawn before, so a fresh secret is not accepted yet.
LEMMA AcceptedOld ==
    ASSUME Core, CredentialInv
    PROVE  /\ \A p \in Place : SeatAt(p) # NoSeat =>
                Accepted(p)[1] # fresh /\ Card(p) \in issued
           /\ \A l \in leases : l.token[1] # fresh
  <1>1. \A g \in issued : g.token[1] \in Nat /\ g.token[1] < fresh
    BY DEF Core, Drawn, TypeOK, Credential, Token
  <1>2. fresh \in Nat
    BY DEF Core, TypeOK
  <1>3. \A g \in issued : g.token[1] # fresh
    BY <1>1, <1>2
  <1>4. \A p \in Place : SeatAt(p) # NoSeat => Card(p) \in issued
    BY DEF CredentialInv, AcceptedCredential, Seated, Card
  <1>5. \A p : Card(p).token = Accepted(p)
    BY DEF Card
  <1>6. \A l \in leases : \E g \in issued : g.token = l.token
    BY DEF CredentialInv, ScopedLease
  <1> QED
    BY <1>3, <1>4, <1>5, <1>6

LEMMA RenewalStep ==
    ASSUME Core, CredentialInv, NEW renewed, Renewal(renewed)
    PROVE  CredentialInv'
  <1>1. /\ \A p \in Place : SeatAt(p) # NoSeat =>
                Accepted(p)[1] # fresh /\ Card(p) \in issued
        /\ \A l \in leases : l.token[1] # fresh
    BY AcceptedOld
  <1>2. /\ \A p \in Place : SeatAt(p) # NoSeat => \A l \in leases : l.token # Accepted(p)
        /\ \A p, q \in Place : SeatAt(p) # NoSeat /\ SeatAt(q) # NoSeat
                /\ Accepted(p) = Accepted(q) => p = q
        /\ \A l1, l2 \in leases : l1.token = l2.token => l1 = l2
        /\ \A l \in leases : \E g \in issued : Scoped(l, g)
    BY DEF CredentialInv, AcceptedCredential, CredentialOnce, ScopedLease, Seated, Scoped
  <1>3. \A p : <<fresh, p[2]>>[1] = fresh /\ <<fresh, p[2]>>[2] = p[2]
    OBVIOUS
  <1>4. \A p : Card(p).token = Accepted(p)
    BY DEF Card
  <1>5. \A l, g : Scoped(l, g) => g.token = l.token
    BY DEF Scoped
  <1>6. \A p \in Place : SeatAt(p)' # NoSeat => Card(p)' \in issued'
    BY <1>1 DEF Renewal
  <1>7. \A l \in leases' : l \in leases \/
            \E p \in renewed \cap Place : SeatAt(p) # NoSeat /\ Scoped(l, Card(p))
    BY DEF Renewal
  <1>8. \A l \in leases' : l.token[1] # fresh
    BY <1>1, <1>4, <1>5, <1>7
  <1>9. \A p \in Place : SeatAt(p)' # NoSeat => \A l \in leases' : l.token # Accepted(p)'
    <2> TAKE p \in Place
    <2> HAVE SeatAt(p)' # NoSeat
    <2> TAKE l \in leases'
    <2>1. CASE p \in renewed
      BY <1>3, <1>8, <2>1 DEF Renewal
    <2>2. CASE p \notin renewed
      <3>1. SeatAt(p) # NoSeat /\ Accepted(p)' = Accepted(p)
        BY <2>2 DEF Renewal
      <3>2. CASE l \in leases
        BY <1>2, <3>1, <3>2
      <3>3. CASE \E q \in renewed \cap Place : SeatAt(q) # NoSeat /\ Scoped(l, Card(q))
        BY <1>2, <1>4, <1>5, <2>2, <3>1, <3>3
      <3> QED
        BY <1>7, <3>2, <3>3
    <2> QED
      BY <2>1, <2>2
  <1>10. \A p, q \in Place : SeatAt(p)' # NoSeat /\ SeatAt(q)' # NoSeat
                /\ Accepted(p)' = Accepted(q)' => p = q
    <2> TAKE p, q \in Place
    <2> HAVE SeatAt(p)' # NoSeat /\ SeatAt(q)' # NoSeat /\ Accepted(p)' = Accepted(q)'
    <2>1. CASE p \in renewed /\ q \in renewed
      BY <1>3, <2>1 DEF Renewal
    <2>2. CASE p \notin renewed /\ q \notin renewed
      BY <1>2, <2>2 DEF Renewal
    <2>3. CASE p \in renewed /\ q \notin renewed
      BY <1>1, <1>3, <2>3 DEF Renewal
    <2>4. CASE p \notin renewed /\ q \in renewed
      BY <1>1, <1>3, <2>4 DEF Renewal
    <2> QED
      BY <2>1, <2>2, <2>3, <2>4
  <1>11. \A l1, l2 \in leases' : l1.token = l2.token => l1 = l2
    <2>1. CASE leases' = leases
      BY <1>2, <2>1
    <2>2. ASSUME NEW x, NEW p, p \in renewed \cap Place, SeatAt(p) # NoSeat,
                 leases' = leases \cup {x}, Scoped(x, Card(p))
          PROVE  \A l1, l2 \in leases' : l1.token = l2.token => l1 = l2
      <3>1. \A l \in leases : l.token # x.token
        BY <1>2, <1>4, <1>5, <2>2
      <3> QED
        BY <1>2, <2>2, <3>1
    <2> QED
      BY <2>1, <2>2 DEF Renewal
  <1>12. \A l \in leases' : \E g \in issued' : Scoped(l, g)
    BY <1>1, <1>2, <1>7 DEF Renewal
  <1>13. AcceptedCredential'
    BY <1>6, <1>9, <1>10 DEF AcceptedCredential, Seated, Card
  <1>14. CredentialOnce' /\ ScopedLease'
    BY <1>11, <1>12 DEF CredentialOnce, ScopedLease, Scoped
  <1> QED
    BY <1>13, <1>14 DEF CredentialInv

\* A step that only takes seats away renews nothing.
LEMMA QuietRenewal ==
    ASSUME Core, issued' = issued, leases' = leases,
           \A p \in Place : SeatAt(p)' # NoSeat => Stays(p) /\ SameCredential(p)
    PROVE  Renewal({})
  <1>1. \A p \in Place : SeatAt(p)' # NoSeat =>
            SeatAt(p) # NoSeat /\ Accepted(p)' = Accepted(p) /\ Card(p)' = Card(p)
    BY KeepsCard DEF Stays
  <1> QED
    BY <1>1 DEF Renewal

\* A provision renews the seats of its session.
LEMMA ProvisionRenewal ==
    ASSUME Core, AnyProvision
    PROVE  \E renewed : Renewal(renewed)
  <1>0. TypeOK
    BY DEF Core
  <1>1. PICK gone : \E id \in SessionIds, roster \in RosterFunctions, session \in Session :
            ProvisionStep(gone, id, roster, session)
    BY DEF AnyProvision
  <1>2. PICK id \in SessionIds, roster \in RosterFunctions, session \in Session :
            ProvisionStep(gone, id, roster, session)
    BY <1>1
  <1>3. Provision(gone, id, roster, session)
    BY <1>2 DEF ProvisionStep
  <1>4. \A p \in Place : SeatAt(p)' =
            IF p[1] = id THEN SeatFor(roster, p[2])
            ELSE IF p[1] \in gone THEN NoSeat ELSE SeatAt(p)
    BY <1>0, <1>3, ProvisionSeats
  <1>5. \A i \in SessionIds : sessions'[i] =
            IF i = id THEN session
            ELSE IF i \in gone THEN NoSession ELSE sessions[i]
    BY <1>0, <1>3, ProvisionSessions
  <1>6. /\ leases' = leases /\ session.epoch = fresh
        /\ issued' = issued \cup
                {[token |-> <<fresh, r>>, session |-> id,
                  audience |-> session.audience, epoch |-> fresh, role |-> r,
                  subject |-> roster[r]] : r \in DOMAIN roster}
    BY <1>2, ProvisionHistory
  <1> DEFINE renewed == {p \in Place : p[1] = id}
  <1>7. \A p, q \in renewed : p[2] = q[2] => p = q
    BY DEF Place
  <1>8. ASSUME NEW p \in Place, SeatAt(p)' # NoSeat, p[1] = id
        PROVE  Accepted(p)' = <<fresh, p[2]>> /\ Card(p)' \in issued'
    <2>1. SeatAt(p)' = SeatFor(roster, p[2])
      BY <1>4, <1>8
    <2>2. p[2] \in DOMAIN roster /\ SeatAt(p)' = NewSeat(roster[p[2]], p[2])
      BY <1>8, <2>1 DEF SeatFor
    <2>3. /\ SeatAt(p)'.used = FALSE /\ SeatAt(p)'.ticket = <<fresh, p[2]>>
          /\ SeatAt(p)'.subject = roster[p[2]]
      BY <2>2 DEF NewSeat
    <2>4. Accepted(p)' = <<fresh, p[2]>>
      BY <2>3 DEF Accepted
    <2>5. sessions'[p[1]] = session
      BY <1>5, <1>8
    <2>6. Card(p)' = [token |-> <<fresh, p[2]>>, session |-> id,
                      audience |-> session.audience, epoch |-> fresh, role |-> p[2],
                      subject |-> roster[p[2]]]
      BY <1>6, <1>8, <2>3, <2>4, <2>5 DEF Card
    <2> QED
      BY <1>6, <2>2, <2>4, <2>6
  <1>9. ASSUME NEW p \in Place, SeatAt(p)' # NoSeat, p[1] # id
        PROVE  SeatAt(p) # NoSeat /\ Accepted(p)' = Accepted(p) /\ Card(p)' = Card(p)
    <2>1. p[1] \in SessionIds
      BY DEF Place
    <2>2. SeatAt(p) # NoSeat /\ SeatAt(p)' = SeatAt(p) /\ sessions'[p[1]] = sessions[p[1]]
      BY <1>4, <1>5, <1>9, <2>1
    <2>3. Stays(p) /\ SameCredential(p)
      BY <2>2 DEF Stays, SameCredential
    <2> QED
      BY <2>2, <2>3, KeepsCard
  <1>10. issued \subseteq issued'
    BY <1>6
  <1>11. /\ \A p, q \in renewed : p[2] = q[2] => p = q
         /\ issued \subseteq issued'
         /\ leases' = leases
    BY <1>6, <1>7, <1>10
  <1>12. \A p \in Place : SeatAt(p)' # NoSeat =>
            \/ /\ p \in renewed
               /\ Accepted(p)' = <<fresh, p[2]>> /\ Card(p)' \in issued'
            \/ /\ p \notin renewed /\ SeatAt(p) # NoSeat
               /\ Accepted(p)' = Accepted(p) /\ Card(p)' = Card(p)
    <2> SUFFICES ASSUME NEW p \in Place, SeatAt(p)' # NoSeat
        PROVE  \/ /\ p[1] = id
                  /\ Accepted(p)' = <<fresh, p[2]>> /\ Card(p)' \in issued'
               \/ /\ p[1] # id /\ SeatAt(p) # NoSeat
                  /\ Accepted(p)' = Accepted(p) /\ Card(p)' = Card(p)
      OBVIOUS
    <2>1. CASE p[1] = id
      BY <1>8, <2>1
    <2>2. CASE p[1] # id
      BY <1>9, <2>2
    <2> QED
      BY <2>1, <2>2
  <1> HIDE DEF renewed
  <1> QED
    BY <1>11, <1>12 DEF Renewal

\* A claim spends what its seat accepts and renews that seat.
LEMMA ClaimRenewal ==
    ASSUME Core, ClaimAny
    PROVE  \E renewed : Renewal(renewed)
  <1>0. TypeOK
    BY DEF Core
  <1>1. PICK pid \in Pids, subject \in Subjects, expires \in Expiries,
             id \in SessionIds, audience \in Audiences, role \in Roles,
             g \in issued, kind \in {"ticket", "rejoin"},
             epoch \in {x.epoch : x \in issued} :
          Claim(pid, subject, expires, id, audience, role, epoch, kind, g.token)
    BY DEF ClaimAny
  <1> DEFINE place == <<id, role>>
             x == [lease |-> fresh, session |-> id, audience |-> audience,
                   epoch |-> epoch, role |-> role, subject |-> subject,
                   pid |-> pid, token |-> g.token]
             card == [token |-> <<fresh, role>>, session |-> id, audience |-> audience,
                      epoch |-> epoch, role |-> role, subject |-> subject]
  <1>2. /\ id \notin Overdue
        /\ \A p \in Place : SeatAt(p)' =
              IF p = place THEN Occupied(SeatAt(p), pid, expires, role)
              ELSE IF p[1] \in Overdue THEN NoSeat ELSE SeatAt(p)
        /\ \A i \in SessionIds :
              sessions'[i] = IF i \in Overdue THEN NoSession ELSE sessions[i]
    BY <1>0, <1>1, ClaimPointwise
  <1>3. /\ sessions[id].epoch = epoch /\ sessions[id].audience = audience
        /\ SeatAt(place) # NoSeat /\ SeatAt(place).subject = subject
        /\ CredentialOk(SeatAt(place), kind, g.token)
        /\ issued' = issued \cup {card} /\ leases' = leases \cup {x}
    BY <1>1 DEF Claim, SeatAt
  <1>4. place \in Place /\ SeatAt(place) \in Seat
    BY <1>0, <1>3, SeatTypes DEF Place
  <1>5. g.token = Accepted(place)
    BY <1>3, <1>4 DEF CredentialOk, Accepted, Seat
  <1>6. Scoped(x, Card(place))
    BY <1>3, <1>5 DEF Scoped, Card
  <1>7. /\ Occupied(SeatAt(place), pid, expires, role).used = TRUE
        /\ Occupied(SeatAt(place), pid, expires, role).rejoin = <<fresh, role>>
        /\ Occupied(SeatAt(place), pid, expires, role).subject = subject
    BY <1>3, <1>4 DEF Occupied, Seat
  <1>8. Accepted(place)' = <<fresh, role>> /\ SeatAt(place)'.subject = subject
    BY <1>2, <1>4, <1>7 DEF Accepted
  <1>9. sessions'[id] = sessions[id]
    BY <1>2
  <1>10. Card(place)' = card
    BY <1>3, <1>8, <1>9 DEF Card
  <1>11. ASSUME NEW p \in Place, SeatAt(p)' # NoSeat, p # place
         PROVE  SeatAt(p) # NoSeat /\ Accepted(p)' = Accepted(p) /\ Card(p)' = Card(p)
    <2>1. p[1] \in SessionIds
      BY DEF Place
    <2>2. SeatAt(p) # NoSeat /\ SeatAt(p)' = SeatAt(p) /\ sessions'[p[1]] = sessions[p[1]]
      BY <1>2, <1>11, <2>1
    <2>3. Stays(p) /\ SameCredential(p)
      BY <2>2 DEF Stays, SameCredential
    <2> QED
      BY <2>2, <2>3, KeepsCard
  <1>12. place[2] = role /\ Card(place)' \in issued' /\ issued \subseteq issued'
    BY <1>3, <1>10
  <1> HIDE DEF place, x, card
  <1>13. Renewal({place})
    BY <1>3, <1>4, <1>6, <1>8, <1>11, <1>12 DEF Renewal
  <1> QED
    BY <1>13

LEMMA CredentialStep ==
    ASSUME Core, CredentialInv, Next
    PROVE  CredentialInv'
  <1>0. TypeOK
    BY DEF Core
  <1>1. CASE AnyProvision \/ ClaimAny
    BY <1>1, ProvisionRenewal, ClaimRenewal, RenewalStep
  <1>2. CASE AnyRevoke \/ AnyForget \/ AnyLeave \/ AnyDown \/ AnyDie \/ Tick
    <2>1. issued' = issued /\ leases' = leases
      BY <1>2, QuietStep
    <2>2. QuietSeats
      BY <1>2, QuietSeatsStep
    <2>3. Renewal({})
      BY <2>1, <2>2, QuietRenewal DEF QuietSeats
    <2> QED
      BY <2>3, RenewalStep
  <1>3. CASE AnyEffect
    <2>1. issued' = issued /\ leases' = leases
      BY <1>3, QuietStep
    <2>2. PICK pid \in Pids, l \in leases, seq \in Seqs \cup {Nil} : Effect(pid, l, seq)
      BY <1>3 DEF AnyEffect
    <2>3. \A p \in Place : SeatAt(p)' # NoSeat => Stays(p) /\ SameCredential(p)
      BY <2>2, EffectSeats
    <2>4. Renewal({})
      BY <2>1, <2>3, QuietRenewal
    <2> QED
      BY <2>4, RenewalStep
  <1> QED
    BY <1>0, <1>1, <1>2, <1>3, NextKinds

LEMMA CredentialInvariant == Spec => []CredentialInv
  <1>1. Init => CredentialInv
    <2>1. Init => \A p \in Place : ~Seated(p)
      BY DEF Init, Seated, SeatAt, Place
    <2> QED
      BY <2>1 DEF Init, CredentialInv, AcceptedCredential, CredentialOnce, ScopedLease
  <1>2. Core /\ CredentialInv /\ [Next]_vars => CredentialInv'
    <2>1. CASE UNCHANGED vars
      BY <2>1 DEF vars, clocks, CredentialInv, AcceptedCredential, CredentialOnce,
                  ScopedLease, Seated, Accepted, SeatAt
    <2> QED
      BY <2>1, CredentialStep
  <1> QED
    BY <1>1, <1>2, CoreInvariant, PTL DEF Spec

\* However often sessions are rotated, seats rejoined and processes replaced, a
\* ticket or rejoin token never admits twice (the claim handler's used flag and
\* the rotation of the rejoin token).
THEOREM CredentialsAdmitOnce == Spec => []CredentialOnce
  <1>1. CredentialInv => CredentialOnce
    BY DEF CredentialInv
  <1> QED
    BY <1>1, CredentialInvariant, PTL

\* A lease is granted only in the session, epoch, audience, role and for the
\* subject its credential was handed out for (the checks of the claim handler).
THEOREM LeasesInScope == Spec => []ScopedLease
  <1>1. CredentialInv => ScopedLease
    BY DEF CredentialInv
  <1> QED
    BY <1>1, CredentialInvariant, PTL
-----------------------------------------------------------------------------
(* Sequence numbers.                                                        *)

OrderInv == EpochUnique /\ RelayBound /\ RelayOrder

\* Effect e is numbered and belongs to place p.
Numbers(e, p) ==
    e.seq # Nil /\ e.epoch = sessions[p[1]].epoch /\ e.role = p[2]

\* Sessions keep their epochs, and at most one gets the fresh one.
EpochsFresh ==
    /\ \A i \in SessionIds : sessions'[i] # NoSession =>
          sessions'[i].epoch = fresh \/ sessions'[i] = sessions[i]
    /\ \A i, j \in SessionIds :
          (/\ sessions'[i] # NoSession /\ sessions'[j] # NoSession
           /\ sessions'[i].epoch = fresh /\ sessions'[j].epoch = fresh) => i = j

\* A seat that has numbers of its epoch in the log keeps its last_seq.
SeqsKept ==
    \A p \in Place : SeatAt(p)' # NoSeat =>
        \/ sessions'[p[1]].epoch = fresh
        \/ /\ SeatAt(p) # NoSeat /\ sessions'[p[1]] = sessions[p[1]] /\ SameSeq(p)

LEMMA OldEpochs ==
    ASSUME Core
    PROVE  /\ \A i \in SessionIds : sessions[i] # NoSession => sessions[i].epoch # fresh
           /\ \A i \in DOMAIN relays : relays[i].epoch # fresh
  <1>1. fresh \in Nat
    BY DEF Core, TypeOK
  <1>2. \A i \in SessionIds : sessions[i] # NoSession =>
            sessions[i].epoch \in Nat /\ sessions[i].epoch < fresh
    BY DEF Core, TypeOK, Drawn, Live, Session
  <1>3. ASSUME NEW i \in DOMAIN relays
        PROVE  relays[i].epoch # fresh
    <2>1. relays \in Seq(Relay) /\ relays[i].epoch < fresh
      BY DEF Core, TypeOK, Drawn
    <2>2. relays[i] \in Relay
      BY <2>1
    <2>3. relays[i].epoch \in Nat
      BY <2>2 DEF Relay
    <2> QED
      BY <1>1, <2>1, <2>3
  <1> QED
    BY <1>1, <1>2, <1>3

LEMMA EpochStep ==
    ASSUME Core, EpochUnique, EpochsFresh
    PROVE  EpochUnique'
  <1>1. \A i, j \in SessionIds :
            (/\ sessions[i] # NoSession /\ sessions[j] # NoSession
             /\ sessions[i].epoch = sessions[j].epoch) => i = j
    BY DEF EpochUnique, Live
  <1>2. \A i \in SessionIds : sessions[i] # NoSession => sessions[i].epoch # fresh
    BY OldEpochs
  <1>3. \A i, j \in SessionIds :
            (/\ sessions'[i] # NoSession /\ sessions'[j] # NoSession
             /\ sessions'[i].epoch = sessions'[j].epoch) => i = j
    BY <1>1, <1>2 DEF EpochsFresh
  <1> QED
    BY <1>3 DEF EpochUnique, Live

\* A step that runs no effect.
LEMMA SilentOrder ==
    ASSUME Core, OrderInv, EpochsFresh, SeqsKept, relays' = relays
    PROVE  OrderInv'
  <1>1. EpochUnique'
    BY EpochStep DEF OrderInv
  <1>2. \A p \in Place, i \in DOMAIN relays :
            SeatAt(p) # NoSeat /\ Numbers(relays[i], p) =>
                SeatAt(p).lastSeq # Nil /\ relays[i].seq <= SeatAt(p).lastSeq
    BY DEF OrderInv, RelayBound, Seated, Numbers
  <1>3. ASSUME NEW p \in Place, NEW i \in DOMAIN relays,
               SeatAt(p)' # NoSeat, relays[i].seq # Nil,
               relays[i].epoch = sessions'[p[1]].epoch, relays[i].role = p[2]
        PROVE  SeatAt(p)'.lastSeq # Nil /\ relays[i].seq <= SeatAt(p)'.lastSeq
    <2>1. sessions'[p[1]].epoch # fresh
      BY <1>3, OldEpochs
    <2>2. SeatAt(p) # NoSeat /\ sessions'[p[1]] = sessions[p[1]] /\ SameSeq(p)
      BY <1>3, <2>1 DEF SeqsKept
    <2>3. Numbers(relays[i], p)
      BY <1>3, <2>2 DEF Numbers
    <2>4. SeatAt(p).lastSeq # Nil /\ relays[i].seq <= SeatAt(p).lastSeq
      BY <1>2, <2>2, <2>3
    <2> QED
      BY <2>2, <2>4 DEF SameSeq
  <1>4. RelayBound'
    BY <1>3 DEF RelayBound, Seated
  <1>5. RelayOrder'
    BY DEF OrderInv, RelayOrder
  <1> QED
    BY <1>1, <1>4, <1>5 DEF OrderInv

\* Effect seq, run under lease l, is logged with the terms of l.
LEMMA EffectLogged ==
    ASSUME Core, NEW pid, NEW l \in leases, NEW seq \in Seqs \cup {Nil},
           EffectRuns(pid, l, seq)
    PROVE  \E e \in Relay :
              /\ relays' = Append(relays, e)
              /\ e.seq = seq /\ e.session = l.session /\ e.epoch = l.epoch
              /\ e.role = l.role /\ e.lease = l.lease
  <1> DEFINE e == [session |-> l.session, epoch |-> l.epoch, role |-> l.role,
                   lease |-> l.lease, seq |-> seq]
  <1>1. relays' = Append(relays, e)
    BY DEF EffectRuns
  <1>2. l \in Lease
    BY DEF Core, TypeOK
  <1>3. /\ l.session \in SessionIds /\ l.role \in Roles
        /\ l.epoch \in Nat /\ l.lease \in Nat
    BY <1>2 DEF Lease
  <1>4. seq \in Int \cup {Nil}
    BY NumberAssumption
  <1>5. e \in Relay
    BY <1>3, <1>4 DEF Relay
  <1>6. /\ e.seq = seq /\ e.session = l.session /\ e.epoch = l.epoch
        /\ e.role = l.role /\ e.lease = l.lease
    OBVIOUS
  <1> HIDE DEF e
  <1> QED
    BY <1>1, <1>5, <1>6

\* It runs while its lease holds the seat, with a number sequence/2 accepts.
LEMMA EffectHolds ==
    ASSUME Core, NEW pid, NEW l \in leases, NEW seq, EffectRuns(pid, l, seq)
    PROVE  /\ <<l.session, l.role>> \in Place
           /\ SeatAt(<<l.session, l.role>>) # NoSeat
           /\ SeatAt(<<l.session, l.role>>).lease = l.lease
           /\ SeatAt(<<l.session, l.role>>).pid = pid
           /\ sessions[l.session] # NoSession
           /\ sessions[l.session].epoch = l.epoch
           /\ SequenceOk(seq, SeatAt(<<l.session, l.role>>).lastSeq)
  <1>1. l \in Lease
    BY DEF Core, TypeOK
  <1>2. <<l.session, l.role>> \in Place
    BY <1>1 DEF Lease, Place
  <1>3. Current(pid, l) /\ SequenceOk(seq, seats[l.session][l.role].lastSeq)
    BY DEF EffectRuns
  <1>4. SeatAt(<<l.session, l.role>>) = seats[l.session][l.role]
    BY DEF SeatAt
  <1> QED
    BY <1>2, <1>3, <1>4 DEF Current

\* An effect that passed sequence/2 is above every number of its place.
LEMMA EffectAbove ==
    ASSUME Core, OrderInv, NEW pid, NEW l \in leases, NEW seq \in Seqs \cup {Nil},
           EffectRuns(pid, l, seq), seq # Nil,
           NEW i \in DOMAIN relays, relays[i].seq # Nil,
           relays[i].epoch = l.epoch, relays[i].role = l.role
    PROVE  relays[i].seq < seq
  <1> DEFINE p == <<l.session, l.role>>
  <1>1. /\ p \in Place /\ SeatAt(p) # NoSeat
        /\ sessions[l.session].epoch = l.epoch
        /\ SequenceOk(seq, SeatAt(p).lastSeq)
    BY EffectHolds
  <1>2. p[1] = l.session /\ p[2] = l.role
    OBVIOUS
  <1>3. SeatAt(p).lastSeq # Nil /\ relays[i].seq <= SeatAt(p).lastSeq
    BY <1>1, <1>2 DEF OrderInv, RelayBound, Seated
  <1>4. SeatAt(p).lastSeq < seq
    BY <1>1, <1>3 DEF SequenceOk
  <1>5. SeatAt(p) \in Seat
    BY <1>1, SeatTypes DEF Core
  <1>6. SeatAt(p).lastSeq \in Int
    BY <1>3, <1>5 DEF Seat
  <1>7. relays \in Seq(Relay)
    BY DEF Core, TypeOK
  <1>8. relays[i] \in Relay
    BY <1>7
  <1>9. relays[i].seq \in Int /\ seq \in Int
    BY <1>8, NumberAssumption DEF Relay
  <1> HIDE DEF p
  <1> QED
    BY <1>3, <1>4, <1>6, <1>9

\* The log stays in order.
LEMMA EffectOrder ==
    ASSUME Core, OrderInv, NEW pid, NEW l \in leases, NEW seq \in Seqs \cup {Nil},
           EffectRuns(pid, l, seq)
    PROVE  RelayOrder'
  <1>1. PICK e \in Relay :
            /\ relays' = Append(relays, e)
            /\ e.seq = seq /\ e.epoch = l.epoch /\ e.role = l.role
    BY EffectLogged
  <1>2. relays \in Seq(Relay)
    BY DEF Core, TypeOK
  <1>3. /\ DOMAIN relays = 1..Len(relays) /\ Len(relays) \in Nat
        /\ DOMAIN relays' = 1..(Len(relays) + 1)
        /\ \A i \in 1..Len(relays) : relays'[i] = relays[i]
        /\ relays'[Len(relays) + 1] = e
    BY <1>1, <1>2
  <1>4. ASSUME NEW i \in DOMAIN relays', NEW j \in DOMAIN relays', i < j,
               relays'[i].epoch = relays'[j].epoch, relays'[i].role = relays'[j].role,
               relays'[i].seq # Nil, relays'[j].seq # Nil
        PROVE  relays'[i].seq < relays'[j].seq
    <2>1. i \in DOMAIN relays /\ relays'[i] = relays[i]
      BY <1>3, <1>4
    <2>2. CASE j \in DOMAIN relays
      <3>1. relays'[j] = relays[j]
        BY <1>3, <2>2
      <3> QED
        BY <1>4, <2>1, <2>2, <3>1 DEF OrderInv, RelayOrder
    <2>3. CASE j = Len(relays) + 1
      <3>1. relays'[j] = e
        BY <1>3, <2>3
      <3> QED
        BY <1>1, <1>4, <2>1, <3>1, EffectAbove
    <2> QED
      BY <1>3, <2>2, <2>3
  <1> QED
    BY <1>4 DEF RelayOrder

LEMMA EffectBound ==
    ASSUME Core, OrderInv, NEW pid \in Pids, NEW l \in leases, NEW seq \in Seqs \cup {Nil},
           Effect(pid, l, seq)
    PROVE  RelayBound'
  <1> DEFINE q == <<l.session, l.role>>
  <1>1. EffectRuns(pid, l, seq)
    BY DEF Effect
  <1>2. PICK e \in Relay :
            /\ relays' = Append(relays, e)
            /\ e.seq = seq /\ e.epoch = l.epoch /\ e.role = l.role
    BY <1>1, EffectLogged
  <1>8. /\ q \in Place /\ sessions[l.session] # NoSession
        /\ sessions[l.session].epoch = l.epoch
    BY <1>1, EffectHolds
  <1>3. relays \in Seq(Relay)
    BY DEF Core, TypeOK
  <1>4. /\ DOMAIN relays = 1..Len(relays) /\ Len(relays) \in Nat
        /\ DOMAIN relays' = 1..(Len(relays) + 1)
        /\ \A i \in 1..Len(relays) : relays'[i] = relays[i]
        /\ relays'[Len(relays) + 1] = e
    BY <1>2, <1>3
  <1>5. \A p \in Place : SeatAt(p)' # NoSeat =>
            /\ Stays(p)
            /\ (seq = Nil \/ p # q) => SameSeq(p)
            /\ (seq # Nil /\ p = q) => SeatAt(p)'.lastSeq = seq
    BY EffectSeats
  <1>6. seq # Nil => seq \in Int
    BY NumberAssumption
  <1>7. ASSUME NEW p \in Place, NEW i \in DOMAIN relays',
               SeatAt(p)' # NoSeat, relays'[i].seq # Nil,
               relays'[i].epoch = sessions'[p[1]].epoch, relays'[i].role = p[2]
        PROVE  SeatAt(p)'.lastSeq # Nil /\ relays'[i].seq <= SeatAt(p)'.lastSeq
    <2>1. SeatAt(p) # NoSeat /\ sessions'[p[1]] = sessions[p[1]]
      BY <1>5, <1>7 DEF Stays
    <2>2. CASE i \in DOMAIN relays
      <3>1. relays'[i] = relays[i]
        BY <1>4, <2>2
      <3>2. SeatAt(p).lastSeq # Nil /\ relays[i].seq <= SeatAt(p).lastSeq
        BY <1>7, <2>1, <2>2, <3>1 DEF OrderInv, RelayBound, Seated
      <3>3. CASE seq = Nil \/ p # q
        BY <1>5, <1>7, <3>1, <3>2, <3>3 DEF SameSeq
      <3>4. CASE seq # Nil /\ p = q
        <4>1. p[1] = l.session /\ p[2] = l.role
          BY <3>4
        <4>2. relays[i].seq # Nil /\ relays[i].epoch = l.epoch /\ relays[i].role = l.role
          BY <1>7, <1>8, <2>1, <3>1, <4>1
        <4>3. relays[i].seq < seq
          BY <1>1, <2>2, <3>4, <4>2, EffectAbove
        <4>4. relays[i] \in Relay
          BY <1>3, <2>2
        <4>5. relays[i].seq \in Int
          BY <4>2, <4>4 DEF Relay
        <4>6. SeatAt(p)'.lastSeq = seq
          BY <1>5, <1>7, <3>4
        <4> QED
          BY <1>6, <3>1, <3>4, <4>3, <4>5, <4>6
      <3> QED
        BY <3>3, <3>4
    <2>3. CASE i = Len(relays) + 1
      <3>1. relays'[i] = e
        BY <1>4, <2>3
      <3>2. p[1] \in SessionIds /\ l.session \in SessionIds
        BY <1>8 DEF Place
      <3>3. sessions[p[1]] # NoSession /\ sessions[p[1]].epoch = l.epoch
        BY <1>2, <1>7, <2>1, <3>1 DEF Core, SeatShape, Seated
      <3>4. p[1] = l.session
        BY <1>8, <3>2, <3>3 DEF OrderInv, EpochUnique, Live
      <3>5. p = q
        BY <1>2, <1>7, <1>8, <3>1, <3>4 DEF Place
      <3>6. seq # Nil /\ SeatAt(p)'.lastSeq = seq
        BY <1>2, <1>5, <1>7, <3>1, <3>5
      <3> QED
        BY <1>2, <1>6, <3>1, <3>6
    <2> QED
      BY <1>4, <2>2, <2>3
  <1> QED
    BY <1>7 DEF RelayBound, Seated

LEMMA ProvisionOrder ==
    ASSUME Core, AnyProvision
    PROVE  EpochsFresh /\ SeqsKept
  <1>0. TypeOK
    BY DEF Core
  <1>1. PICK gone : \E id \in SessionIds, roster \in RosterFunctions, session \in Session :
            ProvisionStep(gone, id, roster, session)
    BY DEF AnyProvision
  <1>2. PICK id \in SessionIds, roster \in RosterFunctions, session \in Session :
            ProvisionStep(gone, id, roster, session)
    BY <1>1
  <1>3. Provision(gone, id, roster, session)
    BY <1>2 DEF ProvisionStep
  <1>4. \A p \in Place : SeatAt(p)' =
            IF p[1] = id THEN SeatFor(roster, p[2])
            ELSE IF p[1] \in gone THEN NoSeat ELSE SeatAt(p)
    BY <1>0, <1>3, ProvisionSeats
  <1>5. \A i \in SessionIds : sessions'[i] =
            IF i = id THEN session
            ELSE IF i \in gone THEN NoSession ELSE sessions[i]
    BY <1>0, <1>3, ProvisionSessions
  <1>6. session.epoch = fresh
    BY <1>2 DEF ProvisionStep
  <1>7. EpochsFresh
    BY <1>5, <1>6, OldEpochs DEF EpochsFresh
  <1>8. \A p \in Place : p[1] \in SessionIds
    BY DEF Place
  <1>9. SeqsKept
    BY <1>4, <1>5, <1>6, <1>8 DEF SeqsKept, SameSeq
  <1> QED
    BY <1>7, <1>9

LEMMA ClaimOrder ==
    ASSUME Core, ClaimAny
    PROVE  EpochsFresh /\ SeqsKept
  <1>0. TypeOK
    BY DEF Core
  <1>1. PICK pid \in Pids, subject \in Subjects, expires \in Expiries,
             id \in SessionIds, audience \in Audiences, role \in Roles,
             g \in issued, kind \in {"ticket", "rejoin"},
             epoch \in {x.epoch : x \in issued} :
          Claim(pid, subject, expires, id, audience, role, epoch, kind, g.token)
    BY DEF ClaimAny
  <1>2. /\ id \notin Overdue
        /\ \A p \in Place : SeatAt(p)' =
              IF p = <<id, role>> THEN Occupied(SeatAt(p), pid, expires, role)
              ELSE IF p[1] \in Overdue THEN NoSeat ELSE SeatAt(p)
        /\ \A i \in SessionIds :
              sessions'[i] = IF i \in Overdue THEN NoSession ELSE sessions[i]
    BY <1>0, <1>1, ClaimPointwise
  <1>3. SeatAt(<<id, role>>) # NoSeat
    BY <1>1 DEF Claim, SeatAt
  <1>4. \A p \in Place : p[1] \in SessionIds /\ (SeatAt(p) # NoSeat => SeatAt(p) \in Seat)
    BY <1>0, SeatTypes DEF Place
  <1>5. \A s \in Seat : Occupied(s, pid, expires, role).lastSeq = s.lastSeq
    BY DEF Occupied, Seat
  <1>6. EpochsFresh
    BY <1>2, OldEpochs DEF EpochsFresh
  <1>7. SeqsKept
    <2> SUFFICES ASSUME NEW p \in Place, SeatAt(p)' # NoSeat
                 PROVE  SeatAt(p) # NoSeat /\ sessions'[p[1]] = sessions[p[1]] /\ SameSeq(p)
      BY DEF SeqsKept
    <2>1. CASE p = <<id, role>>
      BY <1>2, <1>3, <1>4, <1>5, <2>1 DEF SameSeq
    <2>2. CASE p # <<id, role>>
      BY <1>2, <1>4, <2>2 DEF SameSeq
    <2> QED
      BY <2>1, <2>2
  <1> QED
    BY <1>6, <1>7

LEMMA OrderStep ==
    ASSUME Core, OrderInv, Next
    PROVE  OrderInv'
  <1>0. TypeOK
    BY DEF Core
  <1>1. CASE AnyProvision
    <2>1. relays' = relays
      BY <1>1 DEF AnyProvision, ProvisionStep, Provision
    <2> QED
      BY <1>1, <2>1, ProvisionOrder, SilentOrder
  <1>2. CASE ClaimAny
    <2>1. relays' = relays
      BY <1>2 DEF ClaimAny, Claim
    <2> QED
      BY <1>2, <2>1, ClaimOrder, SilentOrder
  <1>3. CASE AnyRevoke \/ AnyForget \/ AnyLeave \/ AnyDown \/ AnyDie \/ Tick
    <2>1. QuietSeats
      BY <1>3, QuietSeatsStep
    <2>2. SeqsKept
      BY <2>1 DEF SeqsKept, QuietSeats, Stays
    <2>3. EpochsFresh
      BY <1>3, QuietStep, OldEpochs DEF EpochsFresh
    <2>4. CASE relays' = relays
      BY <2>2, <2>3, <2>4, SilentOrder
    <2>5. CASE AnyForget
      <3>1. /\ \A p \in Place : SeatAt(p)' = NoSeat
            /\ \A i \in SessionIds : sessions'[i] = NoSession
        BY <2>5, ForgetPointwise DEF AnyForget
      <3>2. EpochUnique' /\ RelayBound'
        BY <3>1 DEF EpochUnique, Live, RelayBound, Seated
      <3>3. ASSUME NEW pid \in Pids, NEW l \in leases, NEW seq \in Seqs \cup {Nil},
                   EffectRuns(pid, l, seq)
            PROVE  RelayOrder'
        BY <3>3, EffectOrder
      <3> QED
        BY <2>4, <2>5, <3>2, <3>3 DEF AnyForget, OrderInv
    <2>6. AnyRevoke \/ AnyLeave \/ AnyDown \/ AnyDie \/ Tick => relays' = relays
      BY DEF AnyRevoke, RevokeStep, AnyLeave, Leave, AnyDown, Down, AnyDie, Die, Tick
    <2> QED
      BY <1>3, <2>4, <2>5, <2>6
  <1>4. CASE AnyEffect
    <2>1. PICK pid \in Pids, l \in leases, seq \in Seqs \cup {Nil} : Effect(pid, l, seq)
      BY <1>4 DEF AnyEffect
    <2>2. RelayBound'
      BY <2>1, EffectBound
    <2>3. RelayOrder'
      BY <2>1, EffectOrder DEF Effect
    <2>4. EpochsFresh
      BY <1>4, QuietStep, OldEpochs DEF EpochsFresh
    <2>5. EpochUnique'
      BY <2>4, EpochStep DEF OrderInv
    <2> QED
      BY <2>2, <2>3, <2>5 DEF OrderInv
  <1> QED
    BY <1>0, <1>1, <1>2, <1>3, <1>4, NextKinds

LEMMA OrderInvariant == Spec => []OrderInv
  <1>1. Init => OrderInv
    <2>1. Init => \A p \in Place : ~Seated(p)
      BY DEF Init, Seated, SeatAt, Place
    <2> QED
      BY <2>1 DEF Init, OrderInv, EpochUnique, Live, RelayBound, RelayOrder
  <1>2. Core /\ OrderInv /\ [Next]_vars => OrderInv'
    <2>1. CASE UNCHANGED vars
      BY <2>1 DEF vars, clocks, OrderInv, EpochUnique, Live, RelayBound, RelayOrder,
                  Seated, SeatAt
    <2> QED
      BY <2>1, OrderStep
  <1> QED
    BY <1>1, <1>2, CoreInvariant, PTL DEF Spec

\* Through any rejoins, fencings and effect crashes, the numbered effects of a
\* seat run in strictly increasing order within an epoch (sequence/2 and the
\* last_seq that survives disconnect/4).
THEOREM EffectsInOrder == Spec => []RelayOrder
  <1>1. OrderInv => RelayOrder
    BY DEF OrderInv
  <1> QED
    BY <1>1, OrderInvariant, PTL
-----------------------------------------------------------------------------
(* The authority implements SeatAuthority.                                  *)

Granted == {l.lease : l \in leases}

\* The lease that holds a connected place.
HeldAt(p) == [session |-> p[1], epoch |-> sessions[p[1]].epoch, role |-> p[2],
              lease |-> SeatAt(p).lease, pid |-> SeatAt(p).pid]

LEMMA HeldIs == HeldLeases = {HeldAt(p) : p \in Connected}
  BY DEF HeldLeases, HeldAt

LEMMA EndsRetires ==
    ASSUME NEW cut, Kept(cut)
    PROVE  HeldLeases' \subseteq HeldLeases
  <1>1. ASSUME NEW p \in Connected'
        PROVE  p \in Connected /\ HeldAt(p)' = HeldAt(p)
    BY <1>1 DEF Kept, HeldAt
  <1>2. HeldLeases' = {HeldAt(p)' : p \in Connected'}
    BY DEF HeldLeases, HeldAt
  <1> QED
    BY <1>1, <1>2, HeldIs

LEMMA RetireStep ==
    ASSUME HeldLeases' \subseteq HeldLeases, leases' = leases, relays' = relays
    PROVE  Authority!Retire
  BY DEF Authority!Retire

\* A claim is a grant.
LEMMA ClaimGrants ==
    ASSUME Core, ClaimAny
    PROVE  Authority!Grant
  <1>0. TypeOK /\ SeatShape
    BY DEF Core
  <1>1. PICK cut, place, new, pid : ClaimStep(cut, place, new, pid)
    BY <1>0, ClaimSteps
  <1>2. /\ Connected' = (Connected \ cut) \cup {place}
        /\ \A p \in Connected \ cut :
              SeatAt(p)' = SeatAt(p) /\ sessions'[p[1]] = sessions[p[1]]
        /\ place \in cut /\ SeatAt(place)'.lease = fresh
        /\ new.lease = fresh /\ leases' = leases \cup {new} /\ relays' = relays
    BY <1>1 DEF ClaimStep
  <1>3. HeldLeases' = {HeldAt(p)' : p \in Connected'}
    BY DEF HeldLeases, HeldAt
  <1>4. \A p \in Connected \ cut : HeldAt(p)' = HeldAt(p)
    BY <1>2 DEF HeldAt
  <1>5. \A p \in Connected' : p \in Place
    BY DEF Connected, Place
  <1> DEFINE h == HeldAt(place)'
  <1>6. h \in HeldLeases' /\ h.lease = fresh
    BY <1>2, <1>3 DEF HeldAt
  <1>7. h.lease \notin Granted
    <2>1. fresh \in Nat /\ \A l \in leases : l.lease \in Nat /\ l.lease < fresh
      BY DEF Core, TypeOK, Lease, Drawn
    <2> QED
      BY <1>6, <2>1 DEF Granted
  <1>8. Granted' = Granted \cup {h.lease}
    BY <1>2, <1>6 DEF Granted
  <1>9. HeldLeases' \ {h} \subseteq HeldLeases
    BY <1>2, <1>3, <1>4, HeldIs
  <1>10. ASSUME NEW k \in HeldLeases' \ {h}
         PROVE  ~(k.session = h.session /\ k.role = h.role)
    <2>1. PICK p \in Connected' : k = HeldAt(p)'
      BY <1>3
    <2>2. p # place
      BY <1>10, <2>1
    <2>3. p \in Place /\ place \in Place
      BY <1>2, <1>5
    <2>4. p[1] # place[1] \/ p[2] # place[2]
      BY <2>2, <2>3 DEF Place
    <2>5. k.session = p[1] /\ k.role = p[2] /\ h.session = place[1] /\ h.role = place[2]
      BY <2>1 DEF HeldAt
    <2> QED
      BY <2>4, <2>5
  <1> HIDE DEF h
  <1> QED
    BY <1>2, <1>6, <1>7, <1>8, <1>9, <1>10 DEF Authority!Grant, Authority!SamePlace, Granted

\* An effect that runs is a run of the abstract authority, whether or not it
\* takes the concrete one down.
LEMMA EffectIsRun ==
    ASSUME Core, OrderInv, NEW pid \in Pids, NEW l \in leases,
           NEW seq \in Seqs \cup {Nil}, EffectRuns(pid, l, seq),
           HeldLeases' \subseteq HeldLeases, leases' = leases
    PROVE  Authority!Run
  <1>1. PICK e \in Relay :
            /\ relays' = Append(relays, e)
            /\ e.seq = seq /\ e.session = l.session /\ e.epoch = l.epoch
            /\ e.role = l.role /\ e.lease = l.lease
    BY EffectLogged
  <1> DEFINE p == <<l.session, l.role>>
             h == HeldAt(p)
  <1>2. /\ p \in Place /\ SeatAt(p) # NoSeat
        /\ SeatAt(p).lease = l.lease /\ SeatAt(p).pid = pid
        /\ sessions[l.session].epoch = l.epoch
    BY EffectHolds
  <1>3. pid # Nil
    BY NilAssumption
  <1>4. p \in Connected
    BY <1>2, <1>3 DEF Connected
  <1>5. h \in HeldLeases
    BY <1>4, HeldIs
  <1>6. /\ e.session = h.session /\ e.epoch = h.epoch
        /\ e.role = h.role /\ e.lease = h.lease
    BY <1>1, <1>2 DEF HeldAt
  <1>7. ASSUME e.seq # Nil, NEW i \in DOMAIN relays, relays[i].epoch = e.epoch,
               relays[i].role = e.role, relays[i].seq # Nil
        PROVE  relays[i].seq < e.seq
    BY <1>1, <1>7, EffectAbove
  <1>8. Authority!InOrder(e)
    BY <1>7 DEF Authority!InOrder
  <1>9. relays \in Seq(Relay)
    BY DEF Core, TypeOK
  <1>10. Len(relays') = Len(relays) + 1 /\ relays'[Len(relays) + 1] = e
    BY <1>1, <1>9
  <1> HIDE DEF h
  <1> QED
    BY <1>1, <1>5, <1>6, <1>8, <1>10 DEF Authority!Run

LEMMA Simulation ==
    ASSUME Core, OrderInv, Next
    PROVE  Authority!ANext \/ UNCHANGED Authority!avars
  <1>0. TypeOK /\ SeatShape
    BY DEF Core
  <1>1. ASSUME NEW cut, NEW fence, Ends(cut, fence)
        PROVE  HeldLeases' \subseteq HeldLeases
    BY <1>1, EndsRetires DEF Ends
  <1>2. CASE AnyProvision
    <2>1. leases' = leases /\ relays' = relays
      BY <1>2 DEF AnyProvision, ProvisionStep, Provision
    <2>2. PICK cut, fence : Ends(cut, fence)
      BY <1>0, <1>2, ProvisionEnds
    <2> QED
      BY <1>1, <2>1, <2>2, RetireStep DEF Authority!ANext
  <1>3. CASE ClaimAny
    BY <1>3, ClaimGrants DEF Authority!ANext
  <1>4. CASE AnyRevoke \/ AnyLeave \/ AnyDown
    <2>1. relays' = relays
      BY <1>4 DEF AnyRevoke, RevokeStep, AnyLeave, Leave, AnyDown, Down
    <2>2. leases' = leases
      BY <1>4, QuietStep
    <2>3. PICK cut, fence : Ends(cut, fence)
      BY <1>0, <1>4, RevokeEnds, LeaveEnds, DownEnds
    <2> QED
      BY <1>1, <2>1, <2>2, <2>3, RetireStep DEF Authority!ANext
  <1>5. CASE AnyEffect
    <2>1. PICK pid \in Pids, l \in leases, seq \in Seqs \cup {Nil} : Effect(pid, l, seq)
      BY <1>5 DEF AnyEffect
    <2>2. PICK cut, fence : Ends(cut, fence)
      BY <1>0, <1>5, EffectEnds
    <2>3. EffectRuns(pid, l, seq) /\ leases' = leases
      BY <2>1 DEF Effect
    <2> QED
      BY <1>1, <2>2, <2>3, EffectIsRun DEF Authority!ANext
  <1>6. CASE AnyForget
    <2>1. leases' = leases
      BY <1>6 DEF AnyForget, Forget
    <2>2. PICK cut, fence : Ends(cut, fence)
      BY <1>6, ForgetEnds
    <2>3. CASE relays' = relays
      BY <1>1, <2>1, <2>2, <2>3, RetireStep DEF Authority!ANext
    <2>4. ASSUME NEW pid \in Pids, NEW l \in leases, NEW seq \in Seqs \cup {Nil},
                 EffectRuns(pid, l, seq)
          PROVE  Authority!Run
      BY <1>1, <2>1, <2>2, <2>4, EffectIsRun
    <2> QED
      BY <1>6, <2>3, <2>4 DEF AnyForget, Authority!ANext
  <1>7. CASE AnyDie \/ Tick
    <2>1. UNCHANGED <<sessions, seats, leases, relays>>
      BY <1>7 DEF AnyDie, Die, Tick
    <2>2. HeldLeases' \subseteq HeldLeases
      BY <2>1 DEF HeldLeases, Connected, SeatAt
    <2> QED
      BY <2>1, <2>2, RetireStep DEF Authority!ANext
  <1> QED
    BY <1>0, <1>2, <1>3, <1>4, <1>5, <1>6, <1>7, NextKinds

\* The authority keeps the promise of SeatAuthority: one lease per place, a
\* lease given up never comes back, and effects run only under a lease that
\* holds its place, numbered ones in order (the serialised mailbox of the
\* GenServer, current/3, sequence/2 and disconnect/4 together).
THEOREM AuthorityImplemented == Spec => ImplementsAuthority
  <1>1. Init => Authority!AInit
    <2>1. Init => \A p \in Place : SeatAt(p) = NoSeat
      BY DEF Init, SeatAt, Place
    <2>2. Init => HeldLeases = {}
      BY <2>1 DEF HeldLeases, Connected
    <2> QED
      BY <2>2 DEF Init, Authority!AInit
  <1>2. Core /\ OrderInv /\ [Next]_vars => [Authority!ANext]_Authority!avars
    <2>1. CASE UNCHANGED vars
      BY <2>1 DEF vars, clocks, Authority!avars, HeldLeases, Connected, SeatAt
    <2> QED
      BY <2>1, Simulation
  <1> QED
    BY <1>1, <1>2, CoreInvariant, OrderInvariant, PTL
       DEF Spec, ImplementsAuthority, Authority!ASpec
-----------------------------------------------------------------------------
(* Whoever loses a seat is told.                                            *)

\* The disjuncts of ToldWhenCut.
Told(h) ==
    \/ <<h.pid, h.lease>> \in fenced'
    \/ h.pid \notin procs
    \/ \E l \in leases : l.lease = h.lease /\ Leave(h.pid, l)
    \/ Forget

\* A lease that stops being held was cut off.
LEMMA LostIsCut ==
    ASSUME NEW cut, Kept(cut), NEW h \in HeldLeases \ HeldLeases'
    PROVE  \E p \in cut \cap Connected : h = HeldAt(p)
  <1>1. PICK p \in Connected : h = HeldAt(p)
    BY HeldIs
  <1>2. HeldLeases' = {HeldAt(q)' : q \in Connected'}
    BY DEF HeldLeases, HeldAt
  <1>3. CASE p \notin cut
    <2>1. p \in Connected' /\ HeldAt(p)' = HeldAt(p)
      BY <1>3 DEF Kept, HeldAt
    <2> QED
      BY <1>1, <1>2, <2>1
  <1> QED
    BY <1>1, <1>3

LEMMA FencedTold ==
    ASSUME NEW cut, NEW new, Disconnect(cut, TRUE, new), NEW p \in cut \cap Connected
    PROVE  Told(HeldAt(p))
  BY DEF Disconnect, Told, HeldAt

LEMMA ClaimTells ==
    ASSUME TypeOK, SeatShape, ClaimAny, NEW h \in HeldLeases \ HeldLeases'
    PROVE  Told(h)
  <1>1. PICK cut, place, new, pid : ClaimStep(cut, place, new, pid)
    BY ClaimSteps
  <1>2. PICK p \in Connected : h = HeldAt(p)
    BY HeldIs
  <1>3. HeldLeases' = {HeldAt(q)' : q \in Connected'}
    BY DEF HeldLeases, HeldAt
  <1>4. CASE p \notin cut
    <2>1. p \in Connected' /\ HeldAt(p)' = HeldAt(p)
      BY <1>1, <1>4 DEF ClaimStep, HeldAt
    <2> QED
      BY <1>2, <1>3, <2>1
  <1>5. CASE p \in cut
    <2>1. Disconnect(cut, TRUE, {new})
      BY <1>1 DEF ClaimStep
    <2> QED
      BY <1>2, <1>5, <2>1, FencedTold
  <1> QED
    BY <1>4, <1>5

LEMMA LeaveTells ==
    ASSUME TypeOK, AnyLeave, NEW h \in HeldLeases \ HeldLeases'
    PROVE  Told(h)
  <1>1. PICK pid \in Pids, l \in leases : Leave(pid, l)
    BY DEF AnyLeave
  <1> DEFINE place == <<l.session, l.role>>
  <1>2. /\ place \in Place
        /\ \A p \in Place : SeatAt(p)' = IF p = place THEN Vacated(SeatAt(p)) ELSE SeatAt(p)
        /\ sessions' = sessions
    BY <1>1, LeavePointwise
  <1>3. SeatAt(place).pid = pid /\ SeatAt(place).lease = l.lease
    BY <1>1 DEF Leave, Current, SeatAt
  <1> HIDE DEF place
  <1>4. PICK p \in Connected : h = HeldAt(p)
    BY HeldIs
  <1>5. HeldLeases' = {HeldAt(q)' : q \in Connected'}
    BY DEF HeldLeases, HeldAt
  <1>6. CASE p # place
    <2>1. SeatAt(p)' = SeatAt(p) /\ p \in Connected'
      BY <1>2, <1>6 DEF Connected
    <2>2. HeldAt(p)' = HeldAt(p)
      BY <1>2, <2>1 DEF HeldAt
    <2> QED
      BY <1>4, <1>5, <2>1, <2>2
  <1>7. CASE p = place
    <2>1. h.pid = pid /\ h.lease = l.lease
      BY <1>3, <1>4, <1>7 DEF HeldAt
    <2> QED
      BY <1>1, <2>1 DEF Told
  <1> QED
    BY <1>6, <1>7

LEMMA DownTells ==
    ASSUME Core, AnyDown, NEW h \in HeldLeases \ HeldLeases'
    PROVE  Told(h)
  <1>1. PICK ref \in downs : Down(ref)
    BY DEF AnyDown
  <1>2. PICK q \in Connected :
            /\ SeatAt(q).pid \notin procs
            /\ \A p \in Place : SeatAt(p)' = IF p = q THEN Vacated(SeatAt(p)) ELSE SeatAt(p)
            /\ sessions' = sessions
    BY <1>1, DownPointwise DEF Core
  <1>3. PICK p \in Connected : h = HeldAt(p)
    BY HeldIs
  <1>4. HeldLeases' = {HeldAt(x)' : x \in Connected'}
    BY DEF HeldLeases, HeldAt
  <1>5. CASE p # q
    <2>1. SeatAt(p)' = SeatAt(p) /\ p \in Connected'
      BY <1>2, <1>5 DEF Connected
    <2>2. HeldAt(p)' = HeldAt(p)
      BY <1>2, <2>1 DEF HeldAt
    <2> QED
      BY <1>3, <1>4, <2>1, <2>2
  <1>6. CASE p = q
    BY <1>2, <1>3, <1>6 DEF Told, HeldAt
  <1> QED
    BY <1>5, <1>6

LEMMA StepTells ==
    ASSUME Core, Next, NEW h \in HeldLeases \ HeldLeases'
    PROVE  Told(h)
  <1>0. TypeOK /\ SeatShape
    BY DEF Core
  <1>1. CASE AnyProvision \/ AnyRevoke \/ AnyEffect
    <2>1. PICK cut : Ends(cut, TRUE)
      BY <1>0, <1>1, ProvisionEnds, RevokeEnds, EffectEnds
    <2>2. Kept(cut) /\ Disconnect(cut, TRUE, {})
      BY <2>1 DEF Ends
    <2>3. PICK p \in cut \cap Connected : h = HeldAt(p)
      BY <2>2, LostIsCut
    <2> QED
      BY <2>2, <2>3, FencedTold
  <1>2. CASE AnyForget
    BY <1>2 DEF AnyForget, Told
  <1>3. CASE AnyDie \/ Tick
    <2>1. UNCHANGED <<sessions, seats>>
      BY <1>3 DEF AnyDie, Die, Tick
    <2> QED
      BY <2>1 DEF HeldLeases, Connected, SeatAt
  <1> QED
    BY <1>0, <1>1, <1>2, <1>3, ClaimTells, LeaveTells, DownTells, NextKinds

\* A live process that loses its seat without having left it, and without the
\* authority itself being lost, is sent :session_fenced (every caller of
\* disconnect/4 passes the right fence? flag).
THEOREM LosersAreTold == Spec => ToldWhenCut
  <1>1. Core /\ [Next]_vars =>
          [\A h \in HeldLeases \ HeldLeases' :
              \/ <<h.pid, h.lease>> \in fenced'
              \/ h.pid \notin procs
              \/ \E l \in leases : l.lease = h.lease /\ Leave(h.pid, l)
              \/ Forget]_vars
    BY StepTells DEF Told
  <1> QED
    BY <1>1, CoreInvariant, PTL DEF Spec, ToldWhenCut

\* The invariant all of this rests on, in one piece.
THEOREM InductiveInvariant == Spec => []IndInv
  <1>1. Core /\ CredentialInv /\ OrderInv => IndInv
    BY DEF Core, CredentialInv, OrderInv, IndInv
  <1> QED
    BY <1>1, CoreInvariant, CredentialInvariant, OrderInvariant, PTL
=============================================================================
