--------------------------- MODULE SeatAuthority ---------------------------
(***************************************************************************)
(* What the admission authority promises the two ends of a session, without *)
(* its credentials, clocks, monitors and tables: at any time a place        *)
(* (session, role) is held under at most one lease; a lease is granted      *)
(* once, and a lease given up never comes back; an effect runs only under a *)
(* lease that is held, and numbered effects of a place run in increasing    *)
(* order within an epoch.                                                   *)
(***************************************************************************)
EXTENDS Integers, Sequences

CONSTANT Unnumbered     \* the number of an effect that has none

VARIABLES
    granted,    \* ids of the leases granted so far
    held,       \* leases that hold a place: [session, epoch, role, lease, pid]
    log         \* the effects that ran: [session, epoch, role, lease, seq]

avars == <<granted, held, log>>

SamePlace(h1, h2) == h1.session = h2.session /\ h1.role = h2.role

AInit == granted = {} /\ held = {} /\ log = <<>>

\* Leases end: all but those of held' .
Retire == held' \subseteq held /\ UNCHANGED <<granted, log>>

\* One lease is granted; the lease that held its place, and perhaps others, end.
Grant ==
    \E h \in held' :
        /\ h.lease \notin granted
        /\ granted' = granted \cup {h.lease}
        /\ held' \ {h} \subseteq held
        /\ \A k \in held' \ {h} : ~SamePlace(k, h)
        /\ UNCHANGED log

\* The number is greater than all earlier numbers of that place and epoch.
InOrder(e) ==
    e.seq # Unnumbered =>
        \A i \in DOMAIN log :
            (/\ log[i].epoch = e.epoch /\ log[i].role = e.role
             /\ log[i].seq # Unnumbered) => log[i].seq < e.seq

\* One effect runs under a held lease; other leases may end.  The authority
\* may be lost with the effect, and every lease with it.
Run ==
    \E h \in held :
        /\ Len(log') = Len(log) + 1
        /\ log' = Append(log, log'[Len(log) + 1])
        /\ LET e == log'[Len(log) + 1]
           IN /\ e.session = h.session /\ e.epoch = h.epoch
              /\ e.role = h.role /\ e.lease = h.lease
              /\ InOrder(e)
        /\ held' \subseteq held
        /\ UNCHANGED granted

ANext == Retire \/ Grant \/ Run

ASpec == AInit /\ [][ANext]_avars
=============================================================================
