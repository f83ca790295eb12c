---------------------------- MODULE BookingRules ----------------------------
(***************************************************************************)
(* What users may book, keep and delete: the booking row with its check of  *)
(* overlapping periods, the two ways to make one (quick booking and the     *)
(* wizard), the limit of three bookings of a user, cancelling and deleting, *)
(* the rows a booking refers to and how they go away, and the statistics of *)
(* the bookings.                                                            *)
(*                                                                          *)
(* One web worker serves one request at a time, so a request is one step;   *)
(* free_hosts, the administrator and the clock take theirs in between.  The *)
(* machines and the jobs of a booking are in PodLifecycle and JobTasks.     *)
(***************************************************************************)
EXTENDS Integers, Sequences, FiniteSets

CONSTANTS
    Users,          \* users who book
    Guests,         \* users who are collaborators only
    Leads,          \* users whose address is in the INFO file of their project
    Designer,       \* the user who has designed a pod of two machines in the wizard
    MaxBookings,    \* bound on the attempts to book
    MaxTime,        \* bound of the clock
    MaxRare,        \* bound on edits of the administrator, failed quick bookings, deleted models
    Lengths,        \* lengths of bookings that users ask for
    MaxLength,      \* longest quick booking: 21 days
    Limit,          \* bookings a user may have at a time: 3
    None

People == Users \cup Guests
Ids == 1..MaxBookings
Bundles == 1..2 * MaxBookings

Pod == 0            \* the template from the wizard; those of quick bookings have their booking's id
Models == Ids \cup {Pod}
Optional(S) == S \cup {-1}
Null == -1          \* the NULL of a foreign key

Booking == [owner: Users, users: SUBSET People, start: Int, end: Int,
            resource: Optional(Bundles), template: Optional(Models), config: Optional(Models)]
Draft == [pk: Optional(Ids), start: Int, end: Int]

ASSUME RulesAssumption ==
    /\ Leads \subseteq Users /\ Designer \in Users /\ None \notin People
    /\ {MaxBookings, MaxTime, MaxRare, MaxLength, Limit} \subseteq Nat
    /\ Lengths \subseteq Int
    /\ None \notin Booking /\ None \notin Draft

VARIABLES
    now,            \* timezone.now()
    booking,        \* the booking rows; template is that of the row's resource
    next,           \* the next id
    templates,      \* template rows: their owner, or None
    configs,        \* templates that have their ConfigBundle
    draft,          \* the booking in a user's wizard, confirmed or not
    privileged,     \* users with booking_privledge
    granted,        \* history: users who ever had it
    edited,         \* history: bookings whose row or pod an administrator has edited
    rare            \* so far

models == <<templates, configs>>
admin == <<privileged, granted, edited, rare>>
vars == <<now, booking, next, models, draft, admin>>

Rows == {b \in Ids : booking[b] # None}
Owned(u) == {b \in Rows : booking[b].owner = u}
Current(b) == booking[b].end > now
Active(u) == {b \in Owned(u) : Current(b)}
Machines(m) == IF m = Pod THEN 2 ELSE 1
Held == {booking[o].resource : o \in Rows}

Spare == Bundles \ (Ids \cup Held)

\* The id of a new bundle is one that no row has; which one does not matter.
Fresh(b) == IF b \notin Held THEN {b} ELSE {r \in Spare : \A s \in Spare : r <= s}

Init ==
    /\ now = 0 /\ next = 1
    /\ booking = [b \in Ids |-> None]
    /\ templates = [m \in Models |-> IF m = Pod THEN Designer ELSE None]
    /\ configs = {Pod}
    /\ draft = [u \in Users |-> None]
    /\ privileged = {} /\ granted = {} /\ edited = {} /\ rare = 0

Tick ==
    /\ now < MaxTime
    /\ now' = now + 1
    /\ UNCHANGED <<booking, next, models, draft, admin>>

-----------------------------------------------------------------------------
(* Booking.save: bookings that end after this one starts and start before it ends. *)

ConflictsTouching(b, row) == {o \in Rows \ {b} :
    /\ booking[o].resource = row.resource
    /\ booking[o].end > row.start /\ booking[o].start < row.start}

Conflicts(b, row) == {o \in Rows \ {b} :
    /\ booking[o].resource = row.resource
    /\ booking[o].end > row.start /\ booking[o].start < row.end}

MaySave(b, row) == row.start < row.end /\ Conflicts(b, row) = {}

Save(b, row) == MaySave(b, row) /\ booking' = [booking EXCEPT ![b] = row]

\* deleteResourceBundle: the bundle goes, and every row that refers to it has NULL instead.
NoBundle(row, r) == IF row # None /\ row.resource = r
                      THEN [row EXCEPT !.resource = Null, !.template = Null] ELSE row
DeleteBundle(r) == [b \in Ids |-> NoBundle(booking[b], r)]

-----------------------------------------------------------------------------
(* Quick bookings. *)

\* What a user fills in.  The image may not be one of the chosen lab and host type; an
\* installer need not be one for its operating system ("other").
Form == [fits: BOOLEAN, own: BOOLEAN, installer: {"none", "supported", "other"},
         scenario: {"none", "good", "bad"}, hostname: BOOLEAN, length: Lengths \cup {0, MaxLength + 1}]

CheckInvariants(f) ==
    /\ f.installer = "supported" => f.scenario = "good"
    /\ f.fits /\ f.own
    /\ f.length >= 1 /\ f.length <= MaxLength

MayHaveFour(u) ==
    \/ u \in privileged
    \/ Cardinality(Active(u)) <= Limit

MayHaveMore(u) ==
    \/ u \in privileged
    \/ Cardinality(Active(u)) < Limit

Row(u, others, start, end, r, m) ==
    [owner |-> u, users |-> others \cup {u}, start |-> start, end |-> end,
     resource |-> r, template |-> m, config |-> m]

\* generate_grb to generate_hostopnfv, kept by a request that fails later.
Generate(u, withConfig) ==
    /\ templates' = [templates EXCEPT ![next] = u]
    /\ configs' = IF withConfig THEN configs \cup {next} ELSE configs
    /\ next' = next + 1

\* create_from_form.  Making the PDF or the job may still fail, which leaves this booking
\* without a job.
QuickCreate(u, f, others) ==
    /\ next \in Ids
    /\ CheckInvariants(f) /\ MayHaveMore(u) /\ f.hostname
    /\ f.installer # "none" => f.scenario # "none"
    /\ Generate(u, TRUE)
    /\ \E r \in Fresh(next) : Save(next, Row(u, others, now, now + f.length, r, next))
    /\ UNCHANGED <<now, draft, admin>>

\* A bad hostname is found when the template is saved, a missing scenario when the
\* configuration is, missing machines when the pod is made.
QuickFail(u, f) ==
    /\ rare < MaxRare
    /\ next \in Ids
    /\ CheckInvariants(f) /\ MayHaveMore(u)
    /\ Generate(u, f.hostname)
    /\ rare' = rare + 1
    /\ UNCHANGED <<now, booking, draft, privileged, granted, edited>>

-----------------------------------------------------------------------------
(* The booking wizard. *)

\* Booking_Meta.  Posted again it changes the same booking.
BookingMeta(u, length) ==
    /\ draft' = [draft EXCEPT ![u] =
          [pk |-> IF draft[u] = None THEN Null ELSE draft[u].pk,
           start |-> now, end |-> now + length]]
    /\ UNCHANGED <<now, booking, next, models, admin>>

\* The INFO file the user points to: none given, one that cannot be had (parse_url returns
\* None, and going through it raises), or one that names the leads.
BookingAllowed(u, m, info) ==
    \/ u \in privileged
    \/ /\ MayHaveMore(u)
       /\ Machines(m) >= 2 => info = "leads" /\ u \in Leads

NextIdSame(d) == next

\* A row that has no id yet gets one when it is saved.
NextId(d) == IF d.pk = Null THEN next + 1 ELSE next

\* make_booking, with the template, the configuration and the collaborators selected on the
\* way here, which may be gone by now.  Refused, it leaves the rows alone (and the machines
\* booked, see PodLifecycle).  When the PDF or the job cannot be made the wizard stays, and
\* its booking has got an id.
MakeBooking(u, m, others, info, fails) ==
    LET d == draft[u]
        b == IF d.pk = Null THEN next ELSE d.pk
    IN  /\ d # None /\ b \in Ids
        /\ templates[m] = u /\ m \in configs
        /\ BookingAllowed(u, m, info)
        /\ \E r \in Fresh(b) : Save(b, Row(u, others, d.start, d.end, r, m))
        /\ next' = NextId(d)
        /\ draft' = [draft EXCEPT ![u] = IF fails THEN [d EXCEPT !.pk = b] ELSE None]
        /\ UNCHANGED <<now, models, admin>>

-----------------------------------------------------------------------------
(* Changes of what there is. *)

\* booking_cancel_view.
Cancel(b) ==
    /\ b \in Rows /\ ~(booking[b].end < now)
    /\ Save(b, [booking[b] EXCEPT !.end = now])
    /\ UNCHANGED <<now, next, models, draft, admin>>

\* Booking.delete raises for an overlap with a booking that has no resource, and for a
\* booking that has none itself.
Delete(b) ==
    /\ b \in Rows /\ booking[b].resource # Null
    /\ MaySave(b, [booking[b] EXCEPT !.resource = Null])
    /\ booking' = [DeleteBundle(booking[b].resource) EXCEPT ![b] = None]
    /\ UNCHANGED <<now, next, models, draft, admin>>

\* free_hosts, once the job is done.
Release(b) ==
    /\ b \in Rows /\ booking[b].end < now /\ booking[b].resource # Null
    /\ booking' = DeleteBundle(booking[b].resource)
    /\ UNCHANGED <<now, next, models, draft, admin>>

\* The administrator's page of a booking, with any resource there is.
AdminEdit(b, start, end, from) ==
    /\ rare < MaxRare /\ {b, from} \subseteq Rows
    /\ Save(b, [booking[b] EXCEPT !.start = start, !.end = end,
                                  !.resource = booking[from].resource,
                                  !.template = booking[from].template])
    /\ edited' = edited \cup {b, from}
    /\ rare' = rare + 1
    /\ UNCHANGED <<now, next, models, draft, privileged, granted>>

SetPrivilege(u, has) ==
    /\ rare < MaxRare
    /\ privileged' = IF has THEN privileged \cup {u} ELSE privileged \ {u}
    /\ granted' = granted \cup privileged'
    /\ rare' = rare + 1
    /\ UNCHANGED <<now, booking, next, models, draft, edited>>

NoConfig(row, m) == IF row # None /\ row.config = m THEN [row EXCEPT !.config = Null] ELSE row
NoModel(row, m) == IF row # None /\ row.template = m
                     THEN [NoConfig(row, m) EXCEPT !.template = Null] ELSE NoConfig(row, m)

\* resource_delete_view; the configurations of the template go with it.
DeleteTemplateAny(m) ==
    /\ rare < MaxRare
    /\ templates[m] # None
    /\ templates' = [templates EXCEPT ![m] = None]
    /\ configs' = configs \ {m}
    /\ booking' = [b \in Ids |-> NoModel(booking[b], m)]
    /\ rare' = rare + 1
    /\ UNCHANGED <<now, next, draft, privileged, granted, edited>>

DeleteTemplate(m) ==
    /\ rare < MaxRare
    /\ templates[m] # None
    /\ ~\E b \in Rows : booking[b].template = m /\ Current(b)
    /\ templates' = [templates EXCEPT ![m] = None]
    /\ configs' = configs \ {m}
    /\ booking' = [b \in Ids |-> NoModel(booking[b], m)]
    /\ rare' = rare + 1
    /\ UNCHANGED <<now, next, draft, privileged, granted, edited>>

\* configuration_delete_view.
DeleteConfig(m) ==
    /\ rare < MaxRare
    /\ m \in configs
    /\ ~\E b \in Rows : booking[b].config = m /\ Current(b)
    /\ configs' = configs \ {m}
    /\ booking' = [b \in Ids |-> NoConfig(booking[b], m)]
    /\ rare' = rare + 1
    /\ UNCHANGED <<now, next, templates, draft, privileged, granted, edited>>

-----------------------------------------------------------------------------
\* Collaborators are chosen among the other users, none of them or any number.
Collaborators(u) == SUBSET (People \ {u})

Request(u) ==
    \E others \in Collaborators(u) :
        \/ \E f \in Form : QuickCreate(u, f, others) \/ QuickFail(u, f)
        \/ \E m \in Models, info \in {"none", "unknown", "leads"}, fails \in BOOLEAN :
              MakeBooking(u, m, others, info, fails)

Next ==
    \/ Tick
    \/ \E u \in Users : Request(u) \/ (\E length \in Lengths : BookingMeta(u, length)) \/ \E has \in BOOLEAN : SetPrivilege(u, has)
    \/ \E b \in Ids : Cancel(b) \/ Delete(b) \/ Release(b)
    \/ \E b, from \in Ids, start, end \in 0..MaxTime + 1 : AdminEdit(b, start, end, from)
    \/ \E m \in Models : DeleteTemplate(m) \/ DeleteConfig(m)

Spec == Init /\ [][Next]_vars

-----------------------------------------------------------------------------
(* getContinuousBookingTimeSeries. *)

CountedCurrent(span) == {b \in Rows : booking[b].start <= now /\ booking[b].end >= now}

Counted(span) == {b \in Rows : booking[b].start <= now /\ booking[b].end >= now - span}

\* The changes in the order they are collected.
Collected(span) ==
    LET upTo[k \in 0..MaxBookings] ==
            IF k = 0 THEN <<>>
            ELSE IF k \notin Counted(span) THEN upTo[k - 1]
            ELSE upTo[k - 1] \o <<[at |-> booking[k].start, delta |-> 1, b |-> k],
                                  [at |-> booking[k].end, delta |-> -1, b |-> k]>>
    IN  upTo[MaxBookings]

\* They are sorted by their time, and the sort is stable.
Before(seq, i) == {j \in DOMAIN seq : seq[j].at < seq[i].at \/ (seq[j].at = seq[i].at /\ j < i)}
Sorted(seq) == [k \in DOMAIN seq |-> seq[CHOOSE i \in DOMAIN seq : Cardinality(Before(seq, i)) = k - 1]]

Point(p, c) ==
    LET active == [u \in People |-> p.active[u] + IF u \in booking[c.b].users THEN c.delta ELSE 0]
    IN  [at |-> c.at, count |-> p.count + c.delta, active |-> active,
         users |-> Cardinality({u \in People : active[u] > 0})]

\* The points of the plot: a time, the bookings and the users then.
Series(span) ==
    LET start == [at |-> 0, count |-> 0, active |-> [u \in People |-> 0], users |-> 0]
        cs == Sorted(Collected(span))
        sum[k \in 0..Len(cs)] == IF k = 0 THEN start ELSE Point(sum[k - 1], cs[k])
    IN  [k \in 1..Len(cs) |-> sum[k]]

-----------------------------------------------------------------------------
(* Properties. *)

\* Types.
TypeOK ==
    /\ now \in Nat /\ next \in Nat \ {0} /\ rare \in Nat
    /\ booking \in [Ids -> Booking \cup {None}] /\ \A b \in Rows : b < next
    /\ templates \in [Models -> Users \cup {None}] /\ configs \subseteq Models
    /\ draft \in [Users -> Draft \cup {None}]
    /\ privileged \subseteq Users /\ granted \subseteq Users /\ edited \subseteq Ids

Period(b) == booking[b].start..(booking[b].end - 1)

\* "there is no overlapping booking": whoever saves which row last, at no time do two
\* bookings have the same pod, though save compares one row with the others and releases,
\* deletions and cancellations change rows without comparing them all.
PodsNotShared ==
    \A a, b \in Rows : a # b /\ booking[a].resource # Null
        /\ booking[a].resource = booking[b].resource
        => Period(a) \cap Period(b) = {}

\* A user without the privilege never has more than three bookings that are not over,
\* however quick bookings, wizards that were confirmed late or again, and cancellations
\* follow each other.
LimitKept ==
    \A u \in Users \ granted :
        Cardinality(Active(u) \ edited) <= Limit

\* A booking that is not over has the template and the configuration it was made from, of
\* which the cleanup and a new image still need the rows: a user can delete neither, nor
\* can a template take them along.
ModelsKept ==
    \A b \in Rows \ edited : Current(b) =>
        LET m == booking[b].config IN
        /\ m # Null /\ m \in configs /\ templates[m] # None
        /\ booking[b].resource # Null => booking[b].template = m

\* The statistics are right at every time of the span: the bookings that are left out are
\* over before it, and the order of changes at one time does not matter after the last.
ActiveAt(t) == {b \in Rows : booking[b].start <= t /\ t < booking[b].end}
StatisticsTrue ==
    \A span \in 0..MaxTime :
        LET s == Series(span) IN
        \A i \in DOMAIN s :
            /\ now - span <= s[i].at /\ s[i].at <= now
            /\ i = Len(s) \/ s[i + 1].at > s[i].at
            => /\ s[i].count = Cardinality(ActiveAt(s[i].at))
               /\ s[i].users = Cardinality(UNION {booking[b].users : b \in ActiveAt(s[i].at)})

-----------------------------------------------------------------------------
(* The inductive invariant behind the properties.                            *)

\* A wizard holds no id that has not been given.
InvDrafts == \A u \in Users : draft[u] # None => draft[u].pk < next

\* A booking no administrator has touched has a pod of its own, and until it is over it
\* has what it was made from.
InvOwn ==
    /\ privileged \subseteq granted
    /\ \A b \in Rows \ edited :
          /\ booking[b].resource # Null
             => \A o \in Rows \ {b} : booking[o].resource # booking[b].resource
          /\ Current(b) => booking[b].resource # Null

\* Bookings end after they start, whoever saves them.
InvPeriods == \A b \in Rows : booking[b].start < booking[b].end

IInv ==
    /\ TypeOK
    /\ InvDrafts
    /\ InvOwn
    /\ PodsNotShared
    /\ LimitKept
    /\ ModelsKept
    /\ InvPeriods
=============================================================================
