------------------------- MODULE BookingRules_proofs -------------------------
(***************************************************************************)
(* Proofs about BookingRules for any users, limit and lengths, any number  *)
(* of bookings and any number of edits by administrators.                  *)
(***************************************************************************)
EXTENDS BookingRules, FiniteSetTheorems, WellFoundedInduction, TLAPS

LEMMA Constants ==
  /\ Null \notin Bundles /\ Null \notin Models /\ Ids \subseteq Models /\ Ids \subseteq Bundles
  /\ None \notin Users /\ Pod \in Models /\ None \notin Booking /\ None \notin Draft
  /\ \A b \in Ids : b \in Nat \ {0} /\ Fresh(b) \subseteq Bundles \ Held
BY RulesAssumption DEF Null, Bundles, Models, Ids, Pod, Fresh, Spare, People

(* A row as a quick booking or the wizard makes it.                        *)
LEMMA RowFacts ==
  ASSUME NEW u \in Users, NEW others \in Collaborators(u), NEW start \in Int, NEW end \in Int,
         NEW r \in Optional(Bundles), NEW m \in Optional(Models)
  PROVE  LET row == Row(u, others, start, end, r, m) IN
         /\ row \in Booking /\ row.owner = u /\ row.start = start /\ row.end = end
         /\ row.resource = r /\ row.template = m /\ row.config = m
BY DEF Row, Booking, Collaborators, People

(* What saving a row does, and whose check it has passed.                  *)
LEMMA SaveFacts ==
  ASSUME TypeOK, NEW b \in Ids, NEW row \in Booking, Save(b, row)
  PROVE  /\ booking' \in [Ids -> Booking \cup {None}]
         /\ booking'[b] = row /\ \A o \in Ids \ {b} : booking'[o] = booking[o]
         /\ Rows' = Rows \cup {b}
         /\ row.start < row.end
         /\ \A o \in Rows \ {b} : booking[o].resource = row.resource
               => ~(booking[o].end > row.start /\ booking[o].start < row.end)
<1>1. None \notin Booking
  BY Constants
<1>. QED BY <1>1 DEF Save, MaySave, Conflicts, TypeOK, Rows

(* What taking things off the rows does.                                   *)
LEMMA BundleFacts ==
  ASSUME TypeOK, NEW r
  PROVE  /\ DeleteBundle(r) \in [Ids -> Booking \cup {None}]
         /\ \A b \in Ids : DeleteBundle(r)[b] =
               IF b \in Rows /\ booking[b].resource = r
               THEN [booking[b] EXCEPT !.resource = Null, !.template = Null] ELSE booking[b]
<1>1. ASSUME NEW b \in Ids, booking[b] # None
      PROVE  booking[b] \in Booking /\ [booking[b] EXCEPT !.resource = Null, !.template = Null] \in Booking
  <2>1. booking[b] \in Booking
    BY <1>1 DEF TypeOK
  <2>. QED BY <2>1 DEF Booking, Optional, Null
<1>. QED BY <1>1 DEF DeleteBundle, NoBundle, TypeOK, Rows

LEMMA ModelFacts ==
  ASSUME TypeOK, NEW m, NEW b \in Ids
  PROVE  /\ NoConfig(booking[b], m) \in Booking \cup {None}
         /\ NoModel(booking[b], m) \in Booking \cup {None}
         /\ booking[b] = None => NoConfig(booking[b], m) = None /\ NoModel(booking[b], m) = None
         /\ booking[b] # None =>
              /\ NoConfig(booking[b], m) = IF booking[b].config = m THEN [booking[b] EXCEPT !.config = Null]
                                           ELSE booking[b]
              /\ NoModel(booking[b], m) # None /\ NoConfig(booking[b], m) # None
              /\ NoModel(booking[b], m).owner = booking[b].owner
              /\ NoModel(booking[b], m).start = booking[b].start
              /\ NoModel(booking[b], m).end = booking[b].end
              /\ NoModel(booking[b], m).resource = booking[b].resource
              /\ booking[b].template # m /\ booking[b].config # m => NoModel(booking[b], m) = booking[b]
<1>1. CASE booking[b] = None
  BY <1>1 DEF NoModel, NoConfig
<1>2. CASE booking[b] # None
  <2>1. booking[b] \in Booking /\ None \notin Booking
    BY <1>2, Constants DEF TypeOK
  <2>. DEFINE c == IF booking[b].config = m THEN [booking[b] EXCEPT !.config = Null] ELSE booking[b]
  <2>2. NoConfig(booking[b], m) = c
    BY <1>2 DEF NoConfig
  <2>3. c \in Booking /\ c.owner = booking[b].owner /\ c.start = booking[b].start
        /\ c.end = booking[b].end /\ c.resource = booking[b].resource
    BY <2>1 DEF Booking, Optional, Null
  <2>. HIDE DEF c
  <2>4. /\ [c EXCEPT !.template = Null] \in Booking
        /\ [c EXCEPT !.template = Null].owner = c.owner /\ [c EXCEPT !.template = Null].start = c.start
        /\ [c EXCEPT !.template = Null].end = c.end
        /\ [c EXCEPT !.template = Null].resource = c.resource
    BY <2>3 DEF Booking, Optional, Null
  <2>5. NoModel(booking[b], m) = IF booking[b].template = m THEN [c EXCEPT !.template = Null] ELSE c
    BY <1>2, <2>2 DEF NoModel
  <2>. QED BY <1>2, <2>1, <2>2, <2>3, <2>4, <2>5 DEF c
<1>. QED BY <1>1, <1>2
-----------------------------------------------------------------------------
(* The kinds of steps. *)

(* A booking is made: of a free pod, from a template and a configuration   *)
(* there are, by a user who may have one more.                             *)
Made(u, b, row) ==
    /\ u \in Users /\ b \in Ids /\ row \in Booking
    /\ Save(b, row)
    /\ row.owner = u /\ row.resource \in Bundles \ Held
    /\ row.template = row.config /\ row.config \in configs' /\ templates'[row.config] # None
    /\ MayHaveMore(u)
    /\ configs \subseteq configs' /\ \A m \in Models : templates[m] # None => templates'[m] # None
    /\ UNCHANGED <<now, admin>>

(* Rows lose what they refer to, or go.                                    *)
Fades ==
    /\ booking' \in [Ids -> Booking \cup {None}]
    /\ \A b \in Ids : booking'[b] # None =>
          /\ booking[b] # None
          /\ booking'[b].owner = booking[b].owner
          /\ booking'[b].start = booking[b].start /\ booking'[b].end = booking[b].end
          /\ booking'[b].resource \in {booking[b].resource, Null}
    /\ now' \in Nat /\ now' >= now
    /\ privileged' \subseteq granted' /\ granted \subseteq granted' /\ edited \subseteq edited'

LEMMA QuickMade ==
  ASSUME TypeOK, NEW u \in Users, NEW f \in Form, NEW others \in Collaborators(u), QuickCreate(u, f, others)
  PROVE  \E row \in Booking : Made(u, next, row) /\ next' = next + 1 /\ UNCHANGED draft
<1>1. PICK r \in Fresh(next) : Save(next, Row(u, others, now, now + f.length, r, next))
  BY DEF QuickCreate
<1>2. next \in Ids /\ next \in Models /\ r \in Bundles \ Held /\ None \notin Users
  BY Constants DEF QuickCreate
<1>3. now \in Int /\ now + f.length \in Int
  <2>1. f.length \in Lengths \cup {0, MaxLength + 1}
    BY DEF Form
  <2>2. f.length \in Int
    <3>1. MaxLength \in Nat /\ Lengths \subseteq Int
      BY RulesAssumption
    <3>2. \A k \in Lengths \cup {0, MaxLength + 1} : k \in Int
      BY <3>1
    <3>. QED BY <2>1, <3>2, Zenon
  <2>3. now \in Nat
    BY DEF TypeOK
  <2>4. now \in Int /\ \A k \in Int : now + k \in Int
    BY <2>3
  <2>. QED BY <2>2, <2>4, Zenon
<1>4. LET row == Row(u, others, now, now + f.length, r, next) IN
      /\ row \in Booking /\ row.owner = u
      /\ row.resource = r /\ row.template = next /\ row.config = next
  BY <1>2, <1>3, RowFacts DEF Optional
<1>5. /\ configs' = configs \cup {next} /\ next' = next + 1
      /\ templates' = [templates EXCEPT ![next] = u]
  BY DEF QuickCreate, Generate
<1>6. templates'[next] # None /\ \A m \in Models : templates[m] # None => templates'[m] # None
  BY <1>2, <1>5 DEF TypeOK
<1>. QED BY <1>1, <1>2, <1>4, <1>5, <1>6 DEF QuickCreate, Made

LEMMA WizardMade ==
  ASSUME TypeOK, NEW u \in Users, NEW m \in Models, NEW others \in Collaborators(u), NEW info,
         NEW fails \in BOOLEAN, MakeBooking(u, m, others, info, fails)
  PROVE  \E row \in Booking, b \in Ids :
            /\ Made(u, b, row) /\ draft[u] # None
            /\ b = IF draft[u].pk = Null THEN next ELSE draft[u].pk
            /\ next' = IF draft[u].pk = Null THEN next + 1 ELSE next
            /\ draft' = [draft EXCEPT ![u] = IF fails THEN [draft[u] EXCEPT !.pk = b] ELSE None]
            /\ UNCHANGED models
<1>. DEFINE d == draft[u]
            b == IF d.pk = Null THEN next ELSE d.pk
<1>1. /\ d # None /\ b \in Ids /\ templates[m] = u /\ m \in configs /\ BookingAllowed(u, m, info)
      /\ \E r \in Fresh(b) : Save(b, Row(u, others, d.start, d.end, r, m))
      /\ next' = NextId(d)
      /\ draft' = [draft EXCEPT ![u] = IF fails THEN [d EXCEPT !.pk = b] ELSE None]
      /\ UNCHANGED <<now, models, admin>>
  BY DEF MakeBooking
<1>2. d \in Draft
  BY <1>1 DEF TypeOK
<1>. HIDE DEF b
<1>3. PICK r \in Fresh(b) : Save(b, Row(u, others, d.start, d.end, r, m))
  BY <1>1
<1>4. r \in Bundles \ Held /\ None \notin Users
  BY <1>1, Constants
<1>5. LET row == Row(u, others, d.start, d.end, r, m) IN
      /\ row \in Booking /\ row.owner = u
      /\ row.resource = r /\ row.template = m /\ row.config = m
  BY <1>2, <1>4, RowFacts DEF Optional, Draft
<1>6. MayHaveMore(u)
  BY <1>1 DEF BookingAllowed, MayHaveMore
<1>7. Made(u, b, Row(u, others, d.start, d.end, r, m))
  BY <1>1, <1>3, <1>4, <1>5, <1>6 DEF Made, models
<1>. QED BY <1>1, <1>5, <1>7 DEF NextId, b

(* What free_hosts, the web pages and the clock do.                        *)
LEMMA FadesStep ==
  ASSUME TypeOK, privileged \subseteq granted,
         \/ UNCHANGED vars \/ Tick
         \/ \E u \in Users, f \in Form : QuickFail(u, f)
         \/ \E u \in Users, length \in Lengths : BookingMeta(u, length)
         \/ \E u \in Users, has \in BOOLEAN : SetPrivilege(u, has)
         \/ \E b \in Ids : Delete(b) \/ Release(b)
         \/ \E m \in Models : DeleteTemplate(m) \/ DeleteConfig(m)
  PROVE  Fades
<1>1. now \in Nat /\ booking \in [Ids -> Booking \cup {None}]
  BY DEF TypeOK
<1>2. CASE UNCHANGED vars \/ Tick \/ (\E u \in Users, f \in Form : QuickFail(u, f))
           \/ (\E u \in Users, length \in Lengths : BookingMeta(u, length))
  BY <1>1, <1>2 DEF vars, Tick, QuickFail, BookingMeta, admin, Fades
<1>3. CASE \E u \in Users, has \in BOOLEAN : SetPrivilege(u, has)
  BY <1>1, <1>3 DEF SetPrivilege, Fades
<1>4. ASSUME NEW b \in Ids, Delete(b) \/ Release(b) PROVE Fades
  <2>1. PICK r : \A o \in Ids : booking'[o] = DeleteBundle(r)[o] \/ booking'[o] = None
    BY <1>4, BundleFacts DEF Delete, Release
  <2>2. booking' \in [Ids -> Booking \cup {None}]
    BY <1>4, BundleFacts DEF Delete, Release
  <2>3. ASSUME NEW o \in Ids, booking'[o] # None
        PROVE  /\ booking[o] # None
               /\ booking'[o].owner = booking[o].owner
               /\ booking'[o].start = booking[o].start /\ booking'[o].end = booking[o].end
               /\ booking'[o].resource \in {booking[o].resource, Null}
    <3>1. booking'[o] = IF o \in Rows /\ booking[o].resource = r
               THEN [booking[o] EXCEPT !.resource = Null, !.template = Null] ELSE booking[o]
      BY <2>1, <2>3, BundleFacts
    <3>2. booking[o] # None /\ booking[o] \in Booking
      BY <1>1, <2>3, <3>1 DEF Rows
    <3>. QED BY <3>1, <3>2 DEF Booking
  <2>. QED BY <1>1, <1>4, <2>2, <2>3 DEF Delete, Release, admin, Fades
<1>5. ASSUME NEW m \in Models, DeleteTemplate(m) \/ DeleteConfig(m) PROVE Fades
  <2>1. \/ booking' = [b \in Ids |-> NoModel(booking[b], m)]
        \/ booking' = [b \in Ids |-> NoConfig(booking[b], m)]
    BY <1>5 DEF DeleteTemplate, DeleteConfig
  <2>2. \A b \in Ids : booking[b] # None => booking[b] \in Booking
    BY <1>1
  <2>3. ASSUME NEW b \in Ids, booking'[b] # None
        PROVE  /\ booking'[b] \in Booking /\ booking[b] # None
               /\ booking'[b].owner = booking[b].owner
               /\ booking'[b].start = booking[b].start /\ booking'[b].end = booking[b].end
               /\ booking'[b].resource = booking[b].resource
    <3>1. booking'[b] = NoModel(booking[b], m) \/ booking'[b] = NoConfig(booking[b], m)
      <4>1. CASE booking' = [o \in Ids |-> NoModel(booking[o], m)]
        BY <4>1
      <4>2. CASE booking' = [o \in Ids |-> NoConfig(booking[o], m)]
        BY <4>2
      <4>. QED BY <2>1, <4>1, <4>2
    <3>2. booking[b] # None /\ booking'[b] \in Booking
      <4>1. /\ NoConfig(booking[b], m) \in Booking \cup {None}
            /\ NoModel(booking[b], m) \in Booking \cup {None}
            /\ booking[b] = None => NoConfig(booking[b], m) = None /\ NoModel(booking[b], m) = None
        BY ModelFacts
      <4>. QED BY <2>3, <3>1, <4>1
    <3>3. NoConfig(booking[b], m) \in {booking[b], [booking[b] EXCEPT !.config = Null]}
      BY <3>2, ModelFacts
    <3>4. booking[b] \in Booking
      BY <2>2, <3>2
    <3>5. /\ NoConfig(booking[b], m).owner = booking[b].owner
          /\ NoConfig(booking[b], m).start = booking[b].start
          /\ NoConfig(booking[b], m).end = booking[b].end
          /\ NoConfig(booking[b], m).resource = booking[b].resource
      BY <3>3, <3>4 DEF Booking
    <3>6. /\ NoModel(booking[b], m).owner = booking[b].owner
          /\ NoModel(booking[b], m).start = booking[b].start
          /\ NoModel(booking[b], m).end = booking[b].end
          /\ NoModel(booking[b], m).resource = booking[b].resource
      BY <3>2, ModelFacts
    <3>. QED BY <3>1, <3>2, <3>5, <3>6
  <2>4. booking' \in [Ids -> Booking \cup {None}]
    BY <2>1, <2>3
  <2>. QED BY <1>1, <1>5, <2>3, <2>4 DEF DeleteTemplate, DeleteConfig, Fades
<1>. QED BY <1>2, <1>3, <1>4, <1>5

(* A booking that is cancelled, or edited by an administrator.             *)
LEMMA CancelFacts ==
  ASSUME TypeOK, NEW b \in Ids, Cancel(b)
  PROVE  /\ b \in Rows /\ [booking[b] EXCEPT !.end = now] \in Booking
         /\ Save(b, [booking[b] EXCEPT !.end = now])
         /\ booking[b] \in Booking /\ now \in Nat
         /\ UNCHANGED <<now, next, models, draft, admin>>
<1>1. now \in Nat /\ booking[b] \in Booking /\ now \in Int
  <2>1. now \in Nat /\ booking[b] \in Booking
    BY DEF Cancel, Rows, TypeOK
  <2>. QED BY <2>1
<1>2. [booking[b] EXCEPT !.end = now] \in Booking
  BY <1>1 DEF Booking
<1>. QED BY <1>1, <1>2 DEF Cancel

LEMMA EditFacts ==
  ASSUME TypeOK, NEW b \in Ids, NEW from \in Ids, NEW start \in 0..MaxTime + 1, NEW end \in 0..MaxTime + 1,
         AdminEdit(b, start, end, from)
  PROVE  /\ {b, from} \subseteq Rows
         /\ \E row \in Booking :
               Save(b, row) /\ row.owner = booking[b].owner /\ row.resource = booking[from].resource
         /\ edited' = edited \cup {b, from} /\ rare' = rare + 1
         /\ UNCHANGED <<now, next, models, draft, privileged, granted>>
<1>1. booking[b] \in Booking /\ booking[from] \in Booking /\ {b, from} \subseteq Rows
  BY DEF AdminEdit, Rows, TypeOK
<1>2. start \in Int /\ end \in Int
  BY RulesAssumption
<1>3. booking[from].resource \in Optional(Bundles) /\ booking[from].template \in Optional(Models)
  BY <1>1 DEF Booking
<1>. DEFINE row == [booking[b] EXCEPT !.start = start, !.end = end,
                                      !.resource = booking[from].resource,
                                      !.template = booking[from].template]
<1>4. row \in Booking /\ row.owner = booking[b].owner /\ row.resource = booking[from].resource
  BY <1>1, <1>2, <1>3 DEF Booking
<1>5. Save(b, row)
  BY DEF AdminEdit
<1>. HIDE DEF row
<1>. QED BY <1>1, <1>4, <1>5 DEF AdminEdit

LEMMA Kinds ==
  ASSUME IInv, [Next]_vars
  PROVE  \/ Fades
         \/ \E u \in Users, b \in Ids, row \in Booking : Made(u, b, row)
         \/ \E b \in Ids : Cancel(b)
         \/ \E b, from \in Ids, start, end \in 0..MaxTime + 1 : AdminEdit(b, start, end, from)
<1>0. TypeOK /\ privileged \subseteq granted
  BY DEF IInv, InvOwn
<1>1. ASSUME NEW u \in Users, Request(u)
      PROVE  Fades \/ \E b \in Ids, row \in Booking : Made(u, b, row)
  <2>1. PICK others \in Collaborators(u) :
        \/ \E f \in Form : QuickCreate(u, f, others) \/ QuickFail(u, f)
        \/ \E m \in Models, info \in {"none", "unknown", "leads"}, fails \in BOOLEAN :
              MakeBooking(u, m, others, info, fails)
    BY <1>1 DEF Request
  <2>2. CASE \E f \in Form : QuickCreate(u, f, others)
    <3>1. PICK f \in Form : QuickCreate(u, f, others)
      BY <2>2
    <3>2. next \in Ids
      BY <3>1 DEF QuickCreate
    <3>. QED BY <1>0, <3>1, <3>2, QuickMade
  <2>3. CASE \E f \in Form : QuickFail(u, f)
    BY <1>0, <2>3, FadesStep
  <2>4. CASE \E m \in Models, info \in {"none", "unknown", "leads"}, fails \in BOOLEAN :
              MakeBooking(u, m, others, info, fails)
    BY <1>0, <2>4, WizardMade
  <2>. QED BY <2>1, <2>2, <2>3, <2>4
<1>2. CASE \/ UNCHANGED vars \/ Tick
           \/ \E u \in Users, length \in Lengths : BookingMeta(u, length)
           \/ \E u \in Users, has \in BOOLEAN : SetPrivilege(u, has)
           \/ \E b \in Ids : Delete(b) \/ Release(b)
           \/ \E m \in Models : DeleteTemplate(m) \/ DeleteConfig(m)
  BY <1>0, <1>2, FadesStep
<1>. QED BY <1>1, <1>2 DEF Next

-----------------------------------------------------------------------------
(* No pod is booked twice at a time. *)

LEMMA PodsAfterSave ==
  ASSUME TypeOK, PodsNotShared, NEW b \in Ids, NEW row \in Booking, Save(b, row)
  PROVE  PodsNotShared'
<1>1. /\ booking'[b] = row /\ \A o \in Ids \ {b} : booking'[o] = booking[o]
      /\ Rows' = Rows \cup {b} /\ Rows \subseteq Ids
      /\ \A o \in Rows \ {b} : booking[o].resource = row.resource
            => ~(booking[o].end > row.start /\ booking[o].start < row.end)
  BY SaveFacts DEF Rows
<1>2. \A o \in Rows : booking[o] \in Booking
  BY DEF TypeOK, Rows
<1>3. ASSUME NEW o \in Rows \ {b}, booking[o].resource = row.resource
      PROVE  (booking[o].start..(booking[o].end - 1)) \cap (row.start..(row.end - 1)) = {}
  <2>1. booking[o].start \in Int /\ booking[o].end \in Int /\ row.start \in Int /\ row.end \in Int
    BY <1>2 DEF Booking
  <2>. QED BY <1>1, <1>3, <2>1
<1>. QED BY <1>1, <1>3 DEF PodsNotShared, Period

LEMMA PodsStep ==
  ASSUME IInv, [Next]_vars
  PROVE  PodsNotShared'
<1>0. TypeOK /\ PodsNotShared
  BY DEF IInv
<1>1. ASSUME Fades PROVE PodsNotShared'
  BY <1>0, <1>1 DEF Fades, PodsNotShared, Period, Rows
<1>2. ASSUME NEW u \in Users, NEW b \in Ids, NEW row \in Booking, Made(u, b, row) PROVE PodsNotShared'
  BY <1>0, <1>2, PodsAfterSave DEF Made
<1>3. ASSUME NEW b \in Ids, Cancel(b) PROVE PodsNotShared'
  BY <1>0, <1>3, CancelFacts, PodsAfterSave
<1>4. ASSUME NEW b \in Ids, NEW from \in Ids, NEW start \in 0..MaxTime + 1, NEW end \in 0..MaxTime + 1,
             AdminEdit(b, start, end, from)
      PROVE  PodsNotShared'
  BY <1>0, <1>4, EditFacts, PodsAfterSave
<1>. QED BY <1>1, <1>2, <1>3, <1>4, Kinds

-----------------------------------------------------------------------------
(* The limit of bookings of a user. *)

LEMMA CountFacts ==
  ASSUME NEW S \in SUBSET Ids
  PROVE  /\ Cardinality(S) \in Nat
         /\ \A T \in SUBSET S : Cardinality(T) <= Cardinality(S)
         /\ \A b \in Ids : Cardinality(S \cup {b}) <= Cardinality(S) + 1
<1>1. IsFiniteSet(Ids)
  BY RulesAssumption, FS_Interval DEF Ids
<1>2. IsFiniteSet(S) /\ Cardinality(S) \in Nat
  BY <1>1, FS_Subset, FS_CardinalityType
<1>3. ASSUME NEW T \in SUBSET S PROVE Cardinality(T) <= Cardinality(S)
  BY <1>2, FS_Subset
<1>4. ASSUME NEW b \in Ids PROVE Cardinality(S \cup {b}) <= Cardinality(S) + 1
  <2>1. Cardinality(S \cup {b}) = IF b \in S THEN Cardinality(S) ELSE Cardinality(S) + 1
    BY <1>2, FS_AddElement
  <2>. QED BY <1>2, <2>1
<1>. QED BY <1>2, <1>3, <1>4

LEMMA LimitStep ==
  ASSUME IInv, [Next]_vars
  PROVE  LimitKept'
<1>0. /\ TypeOK /\ LimitKept /\ Limit \in Nat /\ privileged \subseteq granted
      /\ \A u : Active(u) \subseteq Ids /\ Active(u)' \subseteq Ids
      /\ now \in Nat
  <2>1. \A u : Active(u) \subseteq Ids /\ Active(u)' \subseteq Ids
    BY DEF Active, Owned, Rows
  <2>2. Limit \in Nat
    BY RulesAssumption
  <2>3. TypeOK /\ LimitKept /\ privileged \subseteq granted
    BY DEF IInv, InvOwn
  <2>4. now \in Nat
    BY <2>3 DEF TypeOK
  <2>. QED BY <2>1, <2>2, <2>3, <2>4
<1>1. ASSUME granted \subseteq granted',
             \A u \in Users : Active(u)' \ edited' \subseteq Active(u) \ edited
      PROVE  LimitKept'
  <2>. SUFFICES ASSUME NEW u \in Users \ granted'
                PROVE  Cardinality(Active(u)' \ edited') <= Limit
    BY DEF LimitKept
  <2>1. Active(u) \ edited \in SUBSET Ids /\ Active(u)' \ edited' \in SUBSET (Active(u) \ edited)
    BY <1>0, <1>1
  <2>2. Cardinality(Active(u) \ edited) <= Limit
    BY <1>0, <1>1 DEF LimitKept
  <2>3. Cardinality(Active(u)' \ edited') \in Nat /\ Cardinality(Active(u) \ edited) \in Nat
    BY <2>1, CountFacts
  <2>4. Cardinality(Active(u)' \ edited') <= Cardinality(Active(u) \ edited)
    BY <2>1, CountFacts
  <2>. QED BY <1>0, <2>2, <2>3, <2>4
<1>2. \A o \in Rows : booking[o] \in Booking /\ booking[o].end \in Int
  BY DEF IInv, TypeOK, Rows, Booking
<1>3. ASSUME Fades PROVE LimitKept'
  <2>1. \A u \in Users : Active(u)' \ edited' \subseteq Active(u) \ edited
    BY <1>0, <1>2, <1>3 DEF Fades, Active, Owned, Rows, Current
  <2>. QED BY <1>1, <1>3, <2>1 DEF Fades
<1>4. ASSUME NEW u \in Users, NEW b \in Ids, NEW row \in Booking, Made(u, b, row) PROVE LimitKept'
  <2>1. /\ Save(b, row) /\ row.owner = u /\ MayHaveMore(u) /\ UNCHANGED <<now, admin>>
    BY <1>4 DEF Made
  <2>2. /\ booking'[b] = row /\ \A o \in Ids \ {b} : booking'[o] = booking[o]
        /\ Rows' = Rows \cup {b} /\ Rows \subseteq Ids
    BY <1>0, <2>1, SaveFacts DEF Rows
  <2>3. \A v \in Users : Active(v)' \subseteq Active(v) \cup IF v = u THEN {b} ELSE {}
    BY <2>1, <2>2 DEF Active, Owned, Current
  <2>. SUFFICES ASSUME NEW v \in Users \ granted
                PROVE  Cardinality(Active(v)' \ edited) <= Limit
    BY <2>1 DEF LimitKept, admin
  <2>4. CASE v # u
    <3>1. Active(v) \ edited \in SUBSET Ids /\ Active(v)' \ edited \in SUBSET (Active(v) \ edited)
      BY <1>0, <2>3, <2>4
    <3>2. Cardinality(Active(v) \ edited) <= Limit
      BY <1>0 DEF LimitKept
    <3>3. Cardinality(Active(v)' \ edited) \in Nat /\ Cardinality(Active(v) \ edited) \in Nat
      BY <3>1, CountFacts
    <3>4. Cardinality(Active(v)' \ edited) <= Cardinality(Active(v) \ edited)
      BY <3>1, CountFacts
    <3>. QED BY <1>0, <3>2, <3>3, <3>4
  <2>5. CASE v = u
    <3>1. Cardinality(Active(v)) < Limit
      BY <1>0, <2>1, <2>5 DEF MayHaveMore
    <3>2. Active(v) \in SUBSET Ids /\ Active(v) \cup {b} \in SUBSET Ids
          /\ Active(v)' \ edited \in SUBSET (Active(v) \cup {b})
      BY <1>0, <2>3, <2>5
    <3>3. Cardinality(Active(v)' \ edited) <= Cardinality(Active(v) \cup {b})
          /\ Cardinality(Active(v) \cup {b}) <= Cardinality(Active(v)) + 1
      BY <3>2, CountFacts
    <3>4. Cardinality(Active(v)' \ edited) \in Nat /\ Cardinality(Active(v)) \in Nat
          /\ Cardinality(Active(v) \cup {b}) \in Nat
      BY <3>2, CountFacts
    <3>. QED BY <1>0, <3>1, <3>3, <3>4
  <2>. QED BY <2>4, <2>5
<1>5. ASSUME NEW b \in Ids, Cancel(b) PROVE LimitKept'
  <2>1. /\ booking'[b] = [booking[b] EXCEPT !.end = now] /\ \A o \in Ids \ {b} : booking'[o] = booking[o]
        /\ Rows' = Rows \cup {b} /\ b \in Rows /\ booking[b] \in Booking
        /\ UNCHANGED <<now, admin>>
    BY <1>0, <1>5, CancelFacts, SaveFacts
  <2>2. booking'[b].end = now
    BY <2>1 DEF Booking
  <2>3. ASSUME NEW u \in Users, NEW o \in Active(u)' PROVE o \in Active(u)
    <3>1. o \in Rows' /\ booking'[o].owner = u /\ booking'[o].end > now'
      BY <2>3 DEF Active, Owned, Current
    <3>2. ~(now > now) /\ now' = now
      BY <1>0, <2>1
    <3>3. o # b
      BY <2>2, <3>1, <3>2
    <3>4. o \in Ids
      BY <3>1 DEF Rows
    <3>5. booking'[o] = booking[o] /\ o \in Rows
      BY <2>1, <3>1, <3>3, <3>4
    <3>. QED BY <3>1, <3>2, <3>5 DEF Active, Owned, Current
  <2>. QED BY <1>1, <2>1, <2>3 DEF admin
<1>6. ASSUME NEW b \in Ids, NEW from \in Ids, NEW start \in 0..MaxTime + 1, NEW end \in 0..MaxTime + 1,
             AdminEdit(b, start, end, from)
      PROVE  LimitKept'
  <2>1. /\ \A o \in Ids \ {b} : booking'[o] = booking[o]
        /\ Rows' = Rows \cup {b} /\ b \in edited' /\ edited \subseteq edited'
        /\ UNCHANGED <<now, granted>>
    BY <1>0, <1>6, EditFacts, SaveFacts
  <2>2. ASSUME NEW u \in Users, NEW o \in Active(u)' \ edited' PROVE o \in Active(u) \ edited
    <3>1. o \in Rows' /\ booking'[o].owner = u /\ booking'[o].end > now'
      BY <2>2 DEF Active, Owned, Current
    <3>2. o # b /\ o \in Ids /\ booking'[o] = booking[o]
      BY <2>1, <2>2, <3>1 DEF Rows
    <3>. QED BY <2>1, <2>2, <3>1, <3>2 DEF Active, Owned, Rows, Current
  <2>. QED BY <1>1, <2>1, <2>2
<1>. QED BY <1>3, <1>4, <1>5, <1>6, Kinds

-----------------------------------------------------------------------------
(* Types, and the ids the wizards hold. *)

LEMMA BaseInit == Init => TypeOK /\ InvDrafts
<1>. SUFFICES ASSUME Init PROVE TypeOK /\ InvDrafts
  OBVIOUS
<1>1. Rows = {} /\ Pod \in Models /\ Designer \in Users /\ None \notin Users
  BY Constants, RulesAssumption DEF Init, Rows
<1>2. booking \in [Ids -> Booking \cup {None}] /\ templates \in [Models -> Users \cup {None}]
      /\ draft \in [Users -> Draft \cup {None}]
  BY <1>1 DEF Init
<1>. QED BY <1>1, <1>2 DEF Init, TypeOK, InvDrafts

(* A step that leaves the bookings with the ids they have.                 *)
LEMMA BaseKeep ==
  ASSUME TypeOK, InvDrafts, now' \in Nat, rare' \in Nat, next' \in Nat, next' >= next,
         booking' \in [Ids -> Booking \cup {None}], \A b \in Rows' : b \in Rows \/ b < next',
         templates' \in [Models -> Users \cup {None}], configs' \subseteq Models,
         draft' = draft \/ (draft' \in [Users -> Draft \cup {None}] /\ InvDrafts'),
         privileged' \subseteq Users, granted' \subseteq Users, edited' \subseteq Ids
  PROVE  TypeOK' /\ InvDrafts'
<1>1. next \in Nat \ {0} /\ \A b \in Rows : b < next
  BY DEF TypeOK
<1>2. \A b \in Rows' : b < next'
  BY <1>1, Constants DEF Rows
<1>3. ASSUME draft' = draft PROVE InvDrafts' /\ draft' \in [Users -> Draft \cup {None}]
  <2>1. draft \in [Users -> Draft \cup {None}]
    BY DEF TypeOK
  <2>2. \A u \in Users : draft[u] # None => draft[u].pk \in Int
    BY <2>1, Constants DEF Draft, Optional, Ids
  <2>. QED BY <1>1, <1>3, <2>1, <2>2 DEF InvDrafts
<1>. QED BY <1>1, <1>2, <1>3 DEF TypeOK

LEMMA BaseStep ==
  ASSUME IInv, [Next]_vars
  PROVE  TypeOK' /\ InvDrafts'
<1>0. /\ TypeOK /\ InvDrafts /\ privileged \subseteq granted
      /\ now \in Nat /\ rare \in Nat /\ next \in Nat \ {0}
      /\ booking \in [Ids -> Booking \cup {None}] /\ templates \in [Models -> Users \cup {None}]
      /\ configs \subseteq Models /\ draft \in [Users -> Draft \cup {None}]
      /\ privileged \subseteq Users /\ granted \subseteq Users /\ edited \subseteq Ids
  BY DEF IInv, TypeOK, InvOwn
<1>1. CASE Tick \/ UNCHANGED vars
  BY <1>0, <1>1, BaseKeep DEF Tick, vars, models, admin, Rows
<1>2. ASSUME NEW u \in Users, NEW others \in Collaborators(u), NEW f \in Form, QuickCreate(u, f, others)
      PROVE  TypeOK' /\ InvDrafts'
  <2>1. PICK row \in Booking : Made(u, next, row) /\ next' = next + 1 /\ UNCHANGED draft
    BY <1>0, <1>2, QuickMade
  <2>2. next \in Ids /\ next \in Models /\ configs' = configs \cup {next}
        /\ templates' = [templates EXCEPT ![next] = u]
    BY <1>2, Constants DEF QuickCreate, Generate
  <2>3. booking' \in [Ids -> Booking \cup {None}] /\ Rows' = Rows \cup {next}
    BY <1>0, <2>1, <2>2, SaveFacts DEF Made
  <2>. QED BY <1>0, <2>1, <2>2, <2>3, BaseKeep DEF Made, admin
<1>3. ASSUME NEW u \in Users, NEW f \in Form, QuickFail(u, f) PROVE TypeOK' /\ InvDrafts'
  <2>1. next \in Models /\ next' = next + 1 /\ UNCHANGED <<now, booking, draft, privileged, granted, edited>>
        /\ templates' = [templates EXCEPT ![next] = u] /\ rare' = rare + 1
        /\ configs' = (IF f.hostname THEN configs \cup {next} ELSE configs)
    BY <1>3, Constants DEF QuickFail, Generate
  <2>. QED BY <1>0, <2>1, BaseKeep DEF Rows
<1>4. ASSUME NEW u \in Users, NEW m \in Models, NEW others \in Collaborators(u),
             NEW info \in {"none", "unknown", "leads"}, NEW fails \in BOOLEAN,
             MakeBooking(u, m, others, info, fails)
      PROVE  TypeOK' /\ InvDrafts'
  <2>1. PICK row \in Booking, b \in Ids :
            /\ Made(u, b, row) /\ draft[u] # None
            /\ b = IF draft[u].pk = Null THEN next ELSE draft[u].pk
            /\ next' = IF draft[u].pk = Null THEN next + 1 ELSE next
            /\ draft' = [draft EXCEPT ![u] = IF fails THEN [draft[u] EXCEPT !.pk = b] ELSE None]
            /\ UNCHANGED models
    BY <1>0, <1>4, WizardMade
  <2>2. b < next' /\ draft[u] \in Draft
    BY <1>0, <2>1 DEF InvDrafts
  <2>3. booking' \in [Ids -> Booking \cup {None}] /\ Rows' = Rows \cup {b}
    BY <1>0, <2>1, SaveFacts DEF Made
  <2>4. [draft[u] EXCEPT !.pk = b] \in Draft /\ [draft[u] EXCEPT !.pk = b].pk = b
    BY <2>1, <2>2 DEF Draft, Optional
  <2>5. draft' \in [Users -> Draft \cup {None}]
    BY <1>0, <2>1, <2>4
  <2>6. InvDrafts'
    <3>1. \A v \in Users : draft[v] # None => draft[v].pk \in Int /\ draft[v].pk < next
      BY <1>0, Constants DEF InvDrafts, Draft, Optional, Ids, Null
    <3>2. next' >= next /\ next' \in Nat
      BY <1>0, <2>1
    <3>. QED BY <1>0, <2>1, <2>2, <2>4, <3>1, <3>2 DEF InvDrafts
  <2>. QED BY <1>0, <2>1, <2>2, <2>3, <2>5, <2>6, BaseKeep DEF Made, admin, models
<1>5. ASSUME NEW u \in Users, NEW length \in Lengths, BookingMeta(u, length)
      PROVE  TypeOK' /\ InvDrafts'
  <2>1. now \in Int /\ now + length \in Int
    BY <1>0, RulesAssumption
  <2>. DEFINE pk == IF draft[u] = None THEN Null ELSE draft[u].pk
  <2>2. pk \in Optional(Ids) /\ pk < next
    BY <1>0 DEF InvDrafts, Draft, Optional, Null
  <2>3. draft' = [draft EXCEPT ![u] = [pk |-> pk, start |-> now, end |-> now + length]]
        /\ UNCHANGED <<now, booking, next, models, admin>>
    BY <1>5 DEF BookingMeta
  <2>. HIDE DEF pk
  <2>4. draft' \in [Users -> Draft \cup {None}]
    BY <1>0, <2>1, <2>2, <2>3 DEF Draft
  <2>5. InvDrafts'
    BY <1>0, <2>2, <2>3 DEF InvDrafts
  <2>. QED BY <1>0, <2>3, <2>4, <2>5, BaseKeep DEF models, admin, Rows
<1>6. ASSUME NEW u \in Users, NEW has \in BOOLEAN, SetPrivilege(u, has) PROVE TypeOK' /\ InvDrafts'
  BY <1>0, <1>6, BaseKeep DEF SetPrivilege, models, Rows
<1>7. ASSUME NEW b \in Ids, Cancel(b) PROVE TypeOK' /\ InvDrafts'
  <2>1. /\ b \in Rows /\ Save(b, [booking[b] EXCEPT !.end = now])
        /\ [booking[b] EXCEPT !.end = now] \in Booking
        /\ UNCHANGED <<now, next, models, draft, admin>>
    BY <1>0, <1>7, CancelFacts
  <2>2. booking' \in [Ids -> Booking \cup {None}] /\ Rows' = Rows \cup {b}
    BY <1>0, <2>1, SaveFacts
  <2>3. Rows' = Rows
    BY <2>1, <2>2
  <2>. QED BY <1>0, <2>1, <2>2, <2>3, BaseKeep DEF models, admin
<1>8. ASSUME NEW b \in Ids, Delete(b) \/ Release(b) PROVE TypeOK' /\ InvDrafts'
  <2>1. Fades
    BY <1>0, <1>8, FadesStep
  <2>2. booking' \in [Ids -> Booking \cup {None}] /\ Rows' \subseteq Rows
    BY <2>1 DEF Fades, Rows
  <2>. QED BY <1>0, <1>8, <2>2, BaseKeep DEF Delete, Release, models, admin
<1>9. ASSUME NEW m \in Models, DeleteTemplate(m) \/ DeleteConfig(m) PROVE TypeOK' /\ InvDrafts'
  <2>1. Fades
    BY <1>0, <1>9, FadesStep
  <2>2. booking' \in [Ids -> Booking \cup {None}] /\ Rows' \subseteq Rows
    BY <2>1 DEF Fades, Rows
  <2>3. templates' \in [Models -> Users \cup {None}] /\ configs' \subseteq Models
    BY <1>0, <1>9 DEF DeleteTemplate, DeleteConfig
  <2>. QED BY <1>0, <1>9, <2>2, <2>3, BaseKeep DEF DeleteTemplate, DeleteConfig
<1>10. ASSUME NEW b \in Ids, NEW from \in Ids, NEW start \in 0..MaxTime + 1, NEW end \in 0..MaxTime + 1,
              AdminEdit(b, start, end, from)
       PROVE  TypeOK' /\ InvDrafts'
  <2>1. booking' \in [Ids -> Booking \cup {None}] /\ Rows' = Rows
    <3>1. b \in Rows /\ \E row \in Booking : Save(b, row)
      BY <1>0, <1>10, EditFacts
    <3>2. booking' \in [Ids -> Booking \cup {None}] /\ Rows' = Rows \cup {b}
      BY <1>0, <3>1, SaveFacts
    <3>. QED BY <3>1, <3>2
  <2>2. edited' \subseteq Ids
    BY <1>0, <1>10, EditFacts DEF Rows
  <2>. QED BY <1>0, <1>10, <2>1, <2>2, EditFacts, BaseKeep DEF models
<1>11. ASSUME NEW u \in Users, Request(u) PROVE TypeOK' /\ InvDrafts'
  BY <1>2, <1>3, <1>4, <1>11 DEF Request
<1>. QED BY <1>1, <1>5, <1>6, <1>7, <1>8, <1>9, <1>10, <1>11 DEF Next

-----------------------------------------------------------------------------
(* What the bookings refer to. *)

(* A booking that is not over and that no administrator has touched is left *)
(* as it is by what takes pods, templates and configurations away.          *)
LEMMA CurrentKept ==
  ASSUME IInv, Fades, [Next]_vars,
         ~\E u \in Users, b \in Ids, row \in Booking : Made(u, b, row),
         ~\E b \in Ids : Cancel(b),
         ~\E b, from \in Ids, start, end \in 0..MaxTime + 1 : AdminEdit(b, start, end, from),
         NEW o \in Rows' \ edited', Current(o)'
  PROVE  /\ o \in Rows \ edited /\ Current(o) /\ booking'[o] = booking[o]
         /\ booking[o].config \in configs' /\ templates'[booking[o].config] # None
<1>. DEFINE m == booking[o].config
<1>0. /\ TypeOK /\ now \in Nat /\ booking \in [Ids -> Booking \cup {None}]
      /\ templates \in [Models -> Users \cup {None}] /\ configs \subseteq Models
  BY DEF IInv, TypeOK
<1>1. o \in Ids /\ o \in Rows /\ o \notin edited /\ booking'[o].end = booking[o].end
      /\ booking[o] \in Booking
  BY <1>0 DEF Fades, Rows
<1>2. Current(o)
  <2>1. booking[o].end \in Int
    BY <1>1 DEF Booking
  <2>. QED BY <1>0, <1>1, <2>1 DEF Current, Fades
<1>3. /\ booking[o].resource # Null /\ booking[o].template = m
      /\ m \in configs /\ m \in Models /\ templates[m] # None
      /\ \A b \in Rows \ {o} : booking[b].resource # booking[o].resource
  BY <1>0, <1>1, <1>2 DEF IInv, InvOwn, ModelsKept
<1>4. CASE \/ UNCHANGED vars \/ Tick
           \/ \E u \in Users, length \in Lengths : BookingMeta(u, length)
           \/ \E u \in Users, has \in BOOLEAN : SetPrivilege(u, has)
  BY <1>1, <1>2, <1>3, <1>4 DEF vars, Tick, BookingMeta, SetPrivilege, models
<1>5. ASSUME NEW b \in Ids, Delete(b) \/ Release(b)
      PROVE  booking'[o] = booking[o] /\ UNCHANGED models
  <2>1. b \in Rows /\ UNCHANGED models
    BY <1>5 DEF Delete, Release
  <2>2. booking[b].end < now => b # o
    BY <1>1, <1>2, <1>0 DEF Current, Booking
  <2>3. b # o
    <3>1. CASE Delete(b)
      <4>1. DeleteBundle(booking[b].resource) \in [Ids -> Booking \cup {None}]
        BY <1>0, BundleFacts
      <4>2. booking'[b] = None /\ booking'[o] # None
        BY <3>1, <4>1 DEF Delete, Rows
      <4>. QED BY <4>2
    <3>. QED BY <1>5, <2>2, <3>1 DEF Release
  <2>4. booking'[o] = DeleteBundle(booking[b].resource)[o]
    <3>1. CASE Delete(b)
      <4>1. DeleteBundle(booking[b].resource) \in [Ids -> Booking \cup {None}]
        BY <1>0, BundleFacts
      <4>. QED BY <1>1, <2>3, <3>1, <4>1 DEF Delete
    <3>. QED BY <1>5, <3>1 DEF Release
  <2>. QED BY <1>0, <1>1, <1>3, <2>1, <2>3, <2>4, BundleFacts
<1>6. ASSUME NEW x \in Models, DeleteTemplate(x) \/ DeleteConfig(x)
      PROVE  booking'[o] = booking[o] /\ m \in configs' /\ templates'[m] # None
  <2>1. x # m
    BY <1>1, <1>2, <1>3, <1>6 DEF DeleteTemplate, DeleteConfig
  <2>2. NoModel(booking[o], x) = booking[o] /\ NoConfig(booking[o], x) = booking[o]
    BY <1>0, <1>1, <1>3, <2>1, ModelFacts DEF Rows
  <2>. QED BY <1>0, <1>1, <1>3, <1>6, <2>1, <2>2 DEF DeleteTemplate, DeleteConfig
<1>7. ASSUME NEW u \in Users, Request(u)
      PROVE  booking'[o] = booking[o] /\ m \in configs' /\ templates'[m] # None
  <2>1. PICK others \in Collaborators(u) :
        \/ \E f \in Form : QuickCreate(u, f, others) \/ QuickFail(u, f)
        \/ \E k \in Models, info \in {"none", "unknown", "leads"}, fails \in BOOLEAN :
              MakeBooking(u, k, others, info, fails)
    BY <1>7 DEF Request
  <2>2. ~\E f \in Form : QuickCreate(u, f, others)
    <3>1. \A f \in Form : QuickCreate(u, f, others) => next \in Ids
      BY DEF QuickCreate
    <3>. QED BY <1>0, <3>1, QuickMade
  <2>3. ~\E k \in Models, info \in {"none", "unknown", "leads"}, fails \in BOOLEAN :
              MakeBooking(u, k, others, info, fails)
    BY <1>0, WizardMade
  <2>4. PICK f \in Form : QuickFail(u, f)
    BY <2>1, <2>2, <2>3
  <2>5. booking' = booking /\ configs \subseteq configs' /\ templates' = [templates EXCEPT ![next] = u]
    BY <2>4 DEF QuickFail, Generate
  <2>6. None \notin Users
    BY Constants
  <2>. QED BY <1>0, <1>3, <2>5, <2>6
<1>. QED BY <1>1, <1>2, <1>3, <1>4, <1>5, <1>6, <1>7 DEF Next, models

LEMMA OwnStep ==
  ASSUME IInv, [Next]_vars
  PROVE  InvOwn' /\ ModelsKept'
<1>0. /\ TypeOK /\ booking \in [Ids -> Booking \cup {None}] /\ now \in Nat
      /\ templates \in [Models -> Users \cup {None}]
      /\ privileged \subseteq granted /\ Null \notin Bundles /\ Null \notin Models
      /\ configs \subseteq Models
      /\ \A b \in Rows \ edited :
            /\ booking[b].resource # Null
               => \A o \in Rows \ {b} : booking[o].resource # booking[b].resource
            /\ Current(b) => booking[b].resource # Null
      /\ \A b \in Rows \ edited : Current(b) =>
            /\ booking[b].config # Null /\ booking[b].config \in configs
            /\ templates[booking[b].config] # None
            /\ booking[b].resource # Null => booking[b].template = booking[b].config
  BY Constants DEF IInv, InvOwn, ModelsKept, TypeOK
<1>1. ASSUME NEW u \in Users, NEW b \in Ids, NEW row \in Booking, Made(u, b, row)
      PROVE  InvOwn' /\ ModelsKept'
  <2>1. /\ booking'[b] = row /\ \A o \in Ids \ {b} : booking'[o] = booking[o]
        /\ Rows' = Rows \cup {b} /\ Rows \subseteq Ids
        /\ \A o \in Rows : booking[o].resource # row.resource
        /\ row.resource \in Bundles /\ row.template = row.config
        /\ row.config \in configs' /\ templates'[row.config] # None
        /\ configs \subseteq configs' /\ \A m \in Models : templates[m] # None => templates'[m] # None
        /\ UNCHANGED <<now, privileged, granted, edited>>
    BY <1>0, <1>1, SaveFacts DEF Made, Rows, Held, admin
  <2>2. row.config # Null
    BY <1>0, <2>1, BaseStep DEF TypeOK
  <2>3. \A o \in Rows' \ {b} : o \in Rows /\ booking'[o] = booking[o] /\ (Current(o)' <=> Current(o))
    BY <2>1 DEF Current
  <2>4. InvOwn'
    BY <1>0, <2>1, <2>3 DEF InvOwn
  <2>5. ModelsKept'
    BY <1>0, <2>1, <2>2, <2>3 DEF ModelsKept
  <2>. QED BY <2>4, <2>5
<1>2. ASSUME NEW b \in Ids, Cancel(b) PROVE InvOwn' /\ ModelsKept'
  <2>1. /\ booking'[b] = [booking[b] EXCEPT !.end = now] /\ \A o \in Ids \ {b} : booking'[o] = booking[o]
        /\ Rows' = Rows \cup {b} /\ b \in Rows /\ booking[b] \in Booking /\ Rows \subseteq Ids
        /\ UNCHANGED <<now, models, admin>>
    BY <1>0, <1>2, CancelFacts, SaveFacts DEF Rows
  <2>2. booking'[b].end = now /\ booking'[b].resource = booking[b].resource /\ ~(now > now)
    BY <1>0, <2>1 DEF Booking
  <2>3. ~Current(b)' /\ \A o \in Rows \ {b} : Current(o)' <=> Current(o)
    <3>1. ~Current(b)'
      BY <2>1, <2>2 DEF Current
    <3>2. \A o \in Rows \ {b} : booking'[o] = booking[o]
      BY <2>1
    <3>3. \A o \in Rows \ {b} : Current(o)' <=> Current(o)
      BY <2>1, <3>2 DEF Current
    <3>. QED BY <3>1, <3>3
  <2>4. InvOwn'
    <3>1. Rows' = Rows /\ \A o \in Rows : booking'[o].resource = booking[o].resource
      BY <2>1, <2>2
    <3>2. privileged' = privileged /\ granted' = granted /\ edited' = edited
      BY <2>1 DEF admin
    <3>3. \A o \in Rows : Current(o)' => Current(o)
      BY <2>3
    <3>. QED BY <1>0, <3>1, <3>2, <3>3 DEF InvOwn
  <2>5. ModelsKept'
    BY <1>0, <2>1, <2>3 DEF ModelsKept, admin, models
  <2>. QED BY <2>4, <2>5
<1>3. ASSUME NEW b \in Ids, NEW from \in Ids, NEW start \in 0..MaxTime + 1, NEW end \in 0..MaxTime + 1,
             AdminEdit(b, start, end, from)
      PROVE  InvOwn' /\ ModelsKept'
  <2>1. /\ booking'[b].resource = booking[from].resource /\ \A o \in Ids \ {b} : booking'[o] = booking[o]
        /\ Rows' = Rows \cup {b} /\ b \in Rows /\ from \in Rows /\ Rows \subseteq Ids
        /\ edited' = edited \cup {b, from} /\ UNCHANGED <<now, models, privileged, granted>>
    BY <1>0, <1>3, EditFacts, SaveFacts DEF Rows
  <2>2. \A o \in Rows' \ edited' : /\ o \in Rows \ edited /\ o # b /\ o # from
                                   /\ booking'[o] = booking[o] /\ (Current(o)' <=> Current(o))
    BY <2>1 DEF Current
  <2>3. InvOwn'
    BY <1>0, <2>1, <2>2 DEF InvOwn
  <2>4. ModelsKept'
    BY <1>0, <2>1, <2>2 DEF ModelsKept, models
  <2>. QED BY <2>3, <2>4
<1>4. ASSUME Fades,
             ~\E u \in Users, b \in Ids, row \in Booking : Made(u, b, row),
             ~\E b \in Ids : Cancel(b),
             ~\E b, from \in Ids, start, end \in 0..MaxTime + 1 : AdminEdit(b, start, end, from)
      PROVE  InvOwn' /\ ModelsKept'
  <2>1. \A o \in Rows' \ edited' : Current(o)' =>
            /\ o \in Rows \ edited /\ Current(o) /\ booking'[o] = booking[o]
            /\ booking[o].config \in configs' /\ templates'[booking[o].config] # None
    BY <1>4, CurrentKept
  <2>2. Rows' \subseteq Rows /\ privileged' \subseteq granted' /\ edited \subseteq edited'
        /\ \A o \in Rows' : booking'[o].resource \in {booking[o].resource, Null}
    BY <1>4 DEF Fades, Rows
  <2>3. InvOwn'
    <3>1. ASSUME NEW b \in Rows' \ edited', booking'[b].resource # Null, NEW o \in Rows' \ {b}
          PROVE  booking'[o].resource # booking'[b].resource
      BY <1>0, <2>2, <3>1
    <3>. QED BY <1>0, <2>1, <2>2, <3>1 DEF InvOwn
  <2>4. ModelsKept'
    BY <1>0, <2>1 DEF ModelsKept
  <2>. QED BY <2>3, <2>4
<1>. QED BY <1>1, <1>2, <1>3, <1>4, Kinds

-----------------------------------------------------------------------------
(* Bookings end after they start, and the statistics count them right.     *)

LEMMA PeriodsAfterSave ==
  ASSUME TypeOK, InvPeriods, NEW b \in Ids, NEW row \in Booking, Save(b, row)
  PROVE  InvPeriods'
<1>1. /\ booking'[b] = row /\ row.start < row.end
      /\ Rows' = Rows \cup {b} /\ Rows \subseteq Ids
      /\ \A o \in Ids \ {b} : booking'[o] = booking[o]
  BY SaveFacts DEF Rows
<1>. QED BY <1>1 DEF InvPeriods

LEMMA PeriodsStep ==
  ASSUME IInv, [Next]_vars
  PROVE  InvPeriods'
<1>0. TypeOK /\ InvPeriods
  BY DEF IInv
<1>1. ASSUME Fades PROVE InvPeriods'
  BY <1>0, <1>1 DEF Fades, InvPeriods, Rows
<1>2. ASSUME NEW u \in Users, NEW b \in Ids, NEW row \in Booking, Made(u, b, row) PROVE InvPeriods'
  BY <1>0, <1>2, PeriodsAfterSave DEF Made
<1>3. ASSUME NEW b \in Ids, Cancel(b) PROVE InvPeriods'
  BY <1>0, <1>3, CancelFacts, PeriodsAfterSave
<1>4. ASSUME NEW b \in Ids, NEW from \in Ids, NEW start \in 0..MaxTime + 1, NEW end \in 0..MaxTime + 1,
             AdminEdit(b, start, end, from)
      PROVE  InvPeriods'
  BY <1>0, <1>4, EditFacts, PeriodsAfterSave
<1>. QED BY <1>1, <1>2, <1>3, <1>4, Kinds

-----------------------------------------------------------------------------
(* A set of numbers has a least one.                                       *)
LEMMA Least ==
  ASSUME NEW T \in SUBSET Nat, T # {}
  PROVE  \E k \in T : \A j \in T : k <= j
<1>1. PICK k \in T : \A j \in T : <<j, k>> \notin OpToRel(<, Nat)
  BY NatLessThanWellFounded, WFMin
<1>2. \A j \in T : ~(j < k)
  BY <1>1 DEF OpToRel
<1>. QED BY <1>2

(* The sums of the points before the first m changes.                     *)
Empty == [at |-> 0, count |-> 0, active |-> [u \in People |-> 0], users |-> 0]
Sums(f, cs, m) == f = [k \in 0..m |-> IF k = 0 THEN Empty ELSE Point(f[k - 1], cs[k])]

LEMMA SumsExist ==
  ASSUME NEW cs, NEW n \in Nat
  PROVE  \E f : Sums(f, cs, n)
<1>. DEFINE T == {m \in 0..n : ~\E f : Sums(f, cs, m)}
<1>1. 0 \notin T
  <2>1. Sums([k \in 0..0 |-> Empty], cs, 0)
    BY DEF Sums
  <2>. QED BY <2>1
<1>2. ASSUME NEW m \in T, \A j \in T : m <= j PROVE FALSE
  <2>1. m \in 1..n /\ m - 1 \in 0..n /\ m - 1 \notin T
    BY <1>1, <1>2
  <2>2. PICK f : Sums(f, cs, m - 1)
    BY <2>1
  <2>. DEFINE g == [k \in 0..m |-> IF k = m THEN Point(f[m - 1], cs[m]) ELSE f[k]]
  <2>3. ASSUME NEW k \in 0..m PROVE g[k] = IF k = 0 THEN Empty ELSE Point(g[k - 1], cs[k])
    <3>1. CASE k = m
      <4>1. g[m] = Point(f[m - 1], cs[m]) /\ g[m - 1] = f[m - 1] /\ m # 0
        BY <2>1
      <4>. HIDE DEF g
      <4>. QED BY <3>1, <4>1
    <3>2. CASE k # m
      <4>1. k \in 0..(m - 1) /\ g[k] = f[k] /\ (k # 0 => g[k - 1] = f[k - 1])
        BY <2>1, <3>2
      <4>. HIDE DEF g
      <4>. QED BY <2>2, <4>1 DEF Sums
    <3>. QED BY <3>1, <3>2
  <2>4. g = [k \in 0..m |-> g[k]]
    OBVIOUS
  <2>5. Sums(g, cs, m)
    <3>. HIDE DEF g
    <3>. QED BY <2>3, <2>4 DEF Sums
  <2>. QED BY <2>5
<1>3. T \in SUBSET Nat /\ n \in 0..n
  OBVIOUS
<1>4. T = {}
  <2>. HIDE DEF T
  <2>. QED BY <1>2, <1>3, Least
<1>. QED BY <1>3, <1>4

(* The plot is such sums.                                                  *)
LEMMA SeriesSums ==
  ASSUME NEW span, NEW cs, cs = Sorted(Collected(span)), Len(cs) \in Nat
  PROVE  \E sum : Sums(sum, cs, Len(cs)) /\ Series(span) = [k \in 1..Len(cs) |-> sum[k]]
<1>. DEFINE sum == CHOOSE f : Sums(f, cs, Len(cs))
<1>1. Sums(sum, cs, Len(cs))
  BY SumsExist
<1>2. Series(span) = [k \in 1..Len(cs) |-> sum[k]]
  BY DEF Series, Sums, Empty
<1>. QED BY <1>1, <1>2

-----------------------------------------------------------------------------
(* A list of the starts and ends of the bookings B, each once.             *)
Entry(b, d) == [at |-> IF d = 1 THEN booking[b].start ELSE booking[b].end, delta |-> d, b |-> b]

Signs == {1, -1}
Entries(B) == [at : Int, delta : Signs, b : B]

(* seq has them all, each in one place.                                    *)
Lists(seq, B) ==
  /\ seq \in Seq(Entries(B))
  /\ \A i \in 1..Len(seq) : seq[i] = Entry(seq[i].b, seq[i].delta)
  /\ \A i, j \in 1..Len(seq) : seq[i] = seq[j] => i = j
  /\ \A b \in B, d \in Signs : \E i \in 1..Len(seq) : seq[i] = Entry(b, d)

(* One more booking adds two entries.                                      *)
LEMMA ListsMore ==
  ASSUME NEW B, NEW b, b \notin B, NEW seq, Lists(seq, B),
         booking[b].start \in Int, booking[b].end \in Int
  PROVE  Lists(seq \o <<Entry(b, 1), Entry(b, -1)>>, B \cup {b})
<1>. DEFINE E == Entries(B \cup {b})
            n == Len(seq)
            more == seq \o <<Entry(b, 1), Entry(b, -1)>>
<1>0. /\ seq \in Seq(Entries(B))
      /\ \A i \in 1..n : seq[i] = Entry(seq[i].b, seq[i].delta)
      /\ \A i, j \in 1..n : seq[i] = seq[j] => i = j
      /\ \A c \in B, d \in Signs : \E i \in 1..n : seq[i] = Entry(c, d)
  BY DEF Lists
<1>1. /\ n \in Nat /\ \A i \in 1..n : seq[i] \in Entries(B)
      /\ 1 \in Signs /\ -1 \in Signs /\ \A d \in Signs : d = 1 \/ d = -1
  <2>1. n \in Nat /\ \A i \in 1..n : seq[i] \in Entries(B)
    BY <1>0
  <2>. QED BY <2>1 DEF Signs
<1>2. /\ Entry(b, 1) \in E /\ Entry(b, -1) \in E /\ Entry(b, 1) # Entry(b, -1)
      /\ Entry(b, 1).b = b /\ Entry(b, -1).b = b /\ Entry(b, 1).delta = 1 /\ Entry(b, -1).delta = -1
  BY <1>1 DEF Entry, Entries
<1>3. seq \in Seq(E)
  <2>1. \A i \in 1..n : seq[i] \in E
    BY <1>1 DEF Entries
  <2>. HIDE DEF E
  <2>. QED BY <1>0, <1>1, <2>1
<1>4. /\ more \in Seq(E) /\ Len(more) = n + 2
      /\ \A i \in 1..n : more[i] = seq[i]
      /\ more[n + 1] = Entry(b, 1) /\ more[n + 2] = Entry(b, -1)
  <2>. HIDE DEF E
  <2>1. <<Entry(b, 1), Entry(b, -1)>> \in Seq(E)
    BY <1>2
  <2>. QED BY <1>3, <2>1
<1>5. \A i \in 1..n : seq[i] # Entry(b, 1) /\ seq[i] # Entry(b, -1)
  BY <1>1, <1>2 DEF Entries
<1>. HIDE DEF more
<1>6. /\ \A i \in 1..Len(more) : i \in 1..n \/ i = n + 1 \/ i = n + 2
      /\ \A i \in 1..n : i \in 1..Len(more)
      /\ n + 1 \in 1..Len(more) /\ n + 2 \in 1..Len(more)
  BY <1>1, <1>4
<1>7. ASSUME NEW i \in 1..Len(more), NEW j \in 1..Len(more), more[i] = more[j] PROVE i = j
  <2>1. CASE i \in 1..n /\ j \in 1..n
    <3>1. seq[i] = seq[j]
      BY <1>4, <1>7, <2>1
    <3>. QED BY <1>0, <2>1, <3>1
  <2>2. CASE i \notin 1..n \/ j \notin 1..n
    BY <1>2, <1>4, <1>5, <1>6, <1>7, <2>2
  <2>. QED BY <2>1, <2>2
<1>8. ASSUME NEW i \in 1..Len(more) PROVE more[i] = Entry(more[i].b, more[i].delta)
  <2>1. CASE i \in 1..n
    BY <1>0, <1>4, <2>1
  <2>2. CASE i = n + 1 \/ i = n + 2
    BY <1>2, <1>4, <2>2
  <2>. QED BY <1>6, <2>1, <2>2
<1>9. ASSUME NEW c \in B \cup {b}, NEW d \in Signs
      PROVE  \E i \in 1..Len(more) : more[i] = Entry(c, d)
  <2>1. CASE c = b
    BY <1>1, <1>4, <1>6, <2>1
  <2>2. CASE c \in B
    <3>1. PICK i \in 1..n : seq[i] = Entry(c, d)
      BY <1>0, <2>2
    <3>. QED BY <1>4, <1>6, <3>1
  <2>. QED BY <2>1, <2>2
<1>10. Lists(more, B \cup {b})
  BY <1>4, <1>7, <1>8, <1>9 DEF Lists
<1>. QED BY <1>10 DEF more

(* What is collected of the first m bookings.                              *)
UpTo(span, f, m) ==
  f = [k \in 0..m |-> IF k = 0 THEN <<>>
                      ELSE IF k \notin Counted(span) THEN f[k - 1]
                      ELSE f[k - 1] \o <<[at |-> booking[k].start, delta |-> 1, b |-> k],
                                         [at |-> booking[k].end, delta |-> -1, b |-> k]>>]

LEMMA UpToExists ==
  ASSUME NEW span, NEW n \in Nat
  PROVE  \E f : UpTo(span, f, n)
<1>. DEFINE More(q, k) == IF k \notin Counted(span) THEN q
                          ELSE q \o <<[at |-> booking[k].start, delta |-> 1, b |-> k],
                                      [at |-> booking[k].end, delta |-> -1, b |-> k]>>
            T == {m \in 0..n : ~\E f : UpTo(span, f, m)}
<1>0. ASSUME NEW f, NEW m \in Nat
      PROVE  UpTo(span, f, m) <=> f = [k \in 0..m |-> IF k = 0 THEN <<>> ELSE More(f[k - 1], k)]
  BY DEF UpTo
<1>. HIDE DEF More
<1>1. 0 \notin T
  <2>1. [k \in 0..0 |-> <<>>] = [k \in 0..0 |-> IF k = 0 THEN <<>> ELSE More([i \in 0..0 |-> <<>>][k - 1], k)]
    OBVIOUS
  <2>2. UpTo(span, [k \in 0..0 |-> <<>>], 0)
    BY <1>0, <2>1
  <2>. QED BY <2>2
<1>2. ASSUME NEW m \in T, \A j \in T : m <= j PROVE FALSE
  <2>1. m \in 1..n /\ m - 1 \in 0..n /\ m - 1 \notin T
    BY <1>1, <1>2
  <2>2. PICK f : UpTo(span, f, m - 1)
    BY <2>1
  <2>3. f = [k \in 0..(m - 1) |-> IF k = 0 THEN <<>> ELSE More(f[k - 1], k)]
    BY <1>0, <2>1, <2>2
  <2>. DEFINE g == [k \in 0..m |-> IF k = m THEN More(f[m - 1], m) ELSE f[k]]
  <2>4. ASSUME NEW k \in 0..m PROVE g[k] = IF k = 0 THEN <<>> ELSE More(g[k - 1], k)
    <3>1. CASE k = m
      <4>1. g[m] = More(f[m - 1], m) /\ g[m - 1] = f[m - 1] /\ m # 0
        BY <2>1
      <4>. HIDE DEF g
      <4>. QED BY <3>1, <4>1
    <3>2. CASE k # m
      <4>1. k \in 0..(m - 1) /\ g[k] = f[k] /\ (k # 0 => g[k - 1] = f[k - 1])
        BY <2>1, <3>2
      <4>. HIDE DEF g
      <4>. QED BY <2>3, <4>1
    <3>. QED BY <3>1, <3>2
  <2>5. g = [k \in 0..m |-> g[k]]
    OBVIOUS
  <2>6. UpTo(span, g, m)
    <3>. HIDE DEF g
    <3>. QED BY <1>0, <2>1, <2>4, <2>5
  <2>. QED BY <2>1, <2>6
<1>3. T \in SUBSET Nat /\ n \in 0..n
  OBVIOUS
<1>4. T = {}
  <2>. HIDE DEF T
  <2>. QED BY <1>2, <1>3, Least
<1>. QED BY <1>3, <1>4

(* What is collected: the starts and ends of the bookings that count.      *)
LEMMA CollectedLists ==
  ASSUME TypeOK, NEW span
  PROVE  Lists(Collected(span), Counted(span))
<1>. DEFINE n == MaxBookings
            f == CHOOSE g : UpTo(span, g, n)
            C(k) == Counted(span) \cap 1..k
            T == {k \in 0..n : ~Lists(f[k], C(k))}
<1>1. n \in Nat /\ Counted(span) \subseteq 1..n
  BY RulesAssumption DEF Counted, Rows, Ids
<1>2. UpTo(span, f, n)
  BY <1>1, UpToExists
<1>3. Collected(span) = f[n]
  BY DEF Collected, UpTo
<1>. HIDE DEF f
<1>a. ASSUME NEW k \in 1..n
      PROVE  f[k] = IF k \notin Counted(span) THEN f[k - 1]
                    ELSE f[k - 1] \o <<Entry(k, 1), Entry(k, -1)>>
  <2>. DEFINE More(q, j) == IF j \notin Counted(span) THEN q
                            ELSE q \o <<[at |-> booking[j].start, delta |-> 1, b |-> j],
                                        [at |-> booking[j].end, delta |-> -1, b |-> j]>>
  <2>1. f = [j \in 0..n |-> IF j = 0 THEN <<>> ELSE More(f[j - 1], j)]
    BY <1>2 DEF UpTo
  <2>2. More(f[k - 1], k) = IF k \notin Counted(span) THEN f[k - 1]
                            ELSE f[k - 1] \o <<Entry(k, 1), Entry(k, -1)>>
    BY DEF Entry
  <2>3. k \in 0..n /\ k # 0
    BY <1>1
  <2>. HIDE DEF More
  <2>4. f[k] = More(f[k - 1], k)
    BY <2>1, <2>3
  <2>. QED BY <2>2, <2>4
<1>4. 0 \notin T
  <2>1. f[0] = <<>> /\ C(0) = {}
    BY <1>1, <1>2 DEF UpTo
  <2>2. Lists(<<>>, {})
    <3>1. <<>> \in Seq(Entries({})) /\ 1..Len(<<>>) = {}
      OBVIOUS
    <3>. QED BY <3>1 DEF Lists
  <2>. QED BY <2>1, <2>2
<1>5. ASSUME NEW k \in T, \A j \in T : k <= j PROVE FALSE
  <2>1. k \in 0..n /\ k # 0
    BY <1>4, <1>5
  <2>. HIDE DEF T
  <2>2. k \in 1..n /\ k - 1 \in 0..n /\ k - 1 \notin T
    BY <1>1, <1>5, <2>1
  <2>3. Lists(f[k - 1], C(k - 1)) /\ ~Lists(f[k], C(k))
    BY <1>5, <2>2 DEF T
  <2>. HIDE DEF n
  <2>4. CASE k \notin Counted(span)
    <3>1. f[k] = f[k - 1]
      BY <1>a, <2>2, <2>4
    <3>2. C(k) = C(k - 1)
      BY <1>1, <2>2, <2>4
    <3>. QED BY <2>3, <3>1, <3>2
  <2>5. CASE k \in Counted(span)
    <3>1. f[k] = f[k - 1] \o <<Entry(k, 1), Entry(k, -1)>>
      BY <1>a, <2>2, <2>5
    <3>2. C(k) = C(k - 1) \cup {k} /\ k \notin C(k - 1)
      BY <1>1, <2>2, <2>5
    <3>3. booking[k].start \in Int /\ booking[k].end \in Int
      BY <2>5 DEF TypeOK, Counted, Rows, Booking
    <3>4. Lists(f[k - 1] \o <<Entry(k, 1), Entry(k, -1)>>, C(k - 1) \cup {k})
      BY <2>3, <3>2, <3>3, ListsMore
    <3>. HIDE DEF C
    <3>. QED BY <2>3, <3>1, <3>2, <3>4
  <2>. QED BY <2>4, <2>5
<1>6. T \in SUBSET Nat /\ n \in 0..n
  BY <1>1
<1>7. T = {}
  <2>. HIDE DEF T
  <2>. QED BY <1>5, <1>6, Least
<1>8. C(n) = Counted(span)
  BY <1>1
<1>. QED BY <1>3, <1>6, <1>7, <1>8

-----------------------------------------------------------------------------
(* Sorting puts each entry behind as many as are before it: the sorted     *)
(* list is a permutation, in the order of the times.                       *)
LEMMA SortPlaces ==
  ASSUME NEW E, NEW seq \in Seq(E), \A i \in 1..Len(seq) : seq[i].at \in Int
  PROVE  \E p \in [1..Len(seq) -> 1..Len(seq)] :
           /\ Sorted(seq) = [k \in 1..Len(seq) |-> seq[p[k]]]
           /\ \A j, k \in 1..Len(seq) : p[j] = p[k] => j = k
           /\ \A i \in 1..Len(seq) : \E k \in 1..Len(seq) : p[k] = i
           /\ \A j, k \in 1..Len(seq) : j < k => seq[p[j]].at <= seq[p[k]].at
<1>. DEFINE n == Len(seq)
            N == 1..n
            B(i) == Before(seq, i)
            C(i) == Cardinality(B(i))
<1>1. n \in Nat /\ DOMAIN seq = N /\ IsFiniteSet(N) /\ Cardinality(N) = n
  <2>1. n \in Nat /\ DOMAIN seq = N
    OBVIOUS
  <2>2. 1 \in Int /\ n \in Int /\ (1 > n => n = 0)
    BY <2>1
  <2>3. IsFiniteSet(1..n) /\ Cardinality(1..n) = IF 1 > n THEN 0 ELSE n - 1 + 1
    BY <2>2, FS_Interval
  <2>. HIDE DEF n
  <2>4. (IF 1 > n THEN 0 ELSE n - 1 + 1) = n
    BY <2>1, <2>2
  <2>. QED BY <2>1, <2>3, <2>4
<1>2. \A i \in N : \A j : j \in B(i) <=> j \in N /\ (seq[j].at < seq[i].at \/ (seq[j].at = seq[i].at /\ j < i))
  BY <1>1 DEF Before
<1>3. \A i \in N : B(i) \subseteq N /\ i \notin B(i)
  BY <1>1, <1>2
<1>4. \A i, j \in N : i # j => i \in B(j) \/ j \in B(i)
  BY <1>1, <1>2
<1>5. \A i, j \in N : i \in B(j) => B(i) \subseteq B(j)
  BY <1>1, <1>2
<1>6. \A i, j \in N : i \in B(j) => seq[i].at <= seq[j].at
  BY <1>1, <1>2
<1>. HIDE DEF B
<1>7. ASSUME NEW i \in N PROVE IsFiniteSet(B(i)) /\ C(i) \in 0..(n - 1)
  <2>1. IsFiniteSet(B(i)) /\ C(i) <= n /\ C(i) # n
    BY <1>1, <1>3, FS_Subset
  <2>2. C(i) \in Nat
    BY <2>1, FS_CardinalityType
  <2>. QED BY <1>1, <2>1, <2>2
<1>8. ASSUME NEW i \in N, NEW j \in N, i \in B(j) PROVE C(i) < C(j)
  <2>1. B(i) \in SUBSET B(j) /\ B(i) # B(j)
    BY <1>3, <1>5, <1>8
  <2>2. C(i) <= C(j) /\ C(i) # C(j)
    BY <1>7, <2>1, FS_Subset
  <2>. QED BY <1>1, <1>7, <2>2
<1>9. \A i, j \in N : C(i) = C(j) => i = j
  BY <1>1, <1>4, <1>7, <1>8
<1>10. \A m \in 0..(n - 1) : \E i \in N : C(i) = m
  <2>. DEFINE r == [i \in N |-> C(i)]
  <2>1. r \in [N -> 0..(n - 1)]
    BY <1>7
  <2>a. \A i, j \in N : r[i] = r[j] => i = j
    BY <1>9
  <2>. HIDE DEF r
  <2>2. r \in Injection(N, 0..(n - 1))
    BY <2>1, <2>a DEF Injection, IsInjective
  <2>3. IsFiniteSet(0..(n - 1)) /\ Cardinality(0..(n - 1)) = n
    <3>1. 0 \in Int /\ n - 1 \in Int
      BY <1>1
    <3>2. IsFiniteSet(0..(n - 1)) /\ Cardinality(0..(n - 1)) = IF 0 > n - 1 THEN 0 ELSE (n - 1) - 0 + 1
      BY <3>1, FS_Interval
    <3>. QED BY <1>1, <3>2
  <2>4. r \in Surjection(N, 0..(n - 1))
    BY <1>1, <2>2, <2>3, FS_Injection
  <2>5. \A m \in 0..(n - 1) : \E i \in N : r[i] = m
    BY <2>4 DEF Surjection
  <2>. QED BY <2>5 DEF r
<1>. DEFINE p == [k \in N |-> CHOOSE i \in N : C(i) = k - 1]
<1>11. ASSUME NEW k \in N PROVE p[k] \in N /\ C(p[k]) = k - 1
  <2>1. k - 1 \in 0..(n - 1)
    BY <1>1
  <2>2. \E i \in N : C(i) = k - 1
    BY <1>10, <2>1
  <2>. HIDE DEF C
  <2>. QED BY <2>2
<1>12. Sorted(seq) = [k \in N |-> seq[p[k]]]
  BY <1>1 DEF Sorted, B
<1>. HIDE DEF p
<1>13. \A j, k \in N : p[j] = p[k] => j = k
  BY <1>1, <1>11
<1>14. ASSUME NEW i \in N PROVE \E k \in N : p[k] = i
  <2>1. C(i) + 1 \in N
    BY <1>1, <1>7
  <2>2. C(p[C(i) + 1]) = C(i) /\ p[C(i) + 1] \in N
    BY <1>7, <1>11, <2>1
  <2>. QED BY <1>9, <2>1, <2>2
<1>15. ASSUME NEW j \in N, NEW k \in N, j < k PROVE seq[p[j]].at <= seq[p[k]].at
  <2>1. p[j] \in N /\ p[k] \in N /\ C(p[j]) < C(p[k])
    BY <1>1, <1>11, <1>15
  <2>2. p[k] \notin B(p[j]) /\ p[j] # p[k]
    BY <1>1, <1>7, <1>8, <2>1
  <2>. QED BY <1>4, <1>6, <2>1, <2>2
<1>16. p \in [N -> N]
  BY <1>11 DEF p
<1>. QED BY <1>12, <1>13, <1>14, <1>15, <1>16

(* The sorted list has the same entries, in the order of their times.      *)
LEMMA SortedLists ==
  ASSUME NEW B, NEW seq, Lists(seq, B)
  PROVE  /\ Lists(Sorted(seq), B)
         /\ \A j, k \in 1..Len(Sorted(seq)) : j < k => Sorted(seq)[j].at <= Sorted(seq)[k].at
<1>. DEFINE n == Len(seq)
<1>1. /\ seq \in Seq(Entries(B)) /\ n \in Nat
      /\ \A i \in 1..n : seq[i] = Entry(seq[i].b, seq[i].delta)
      /\ \A i, j \in 1..n : seq[i] = seq[j] => i = j
      /\ \A b \in B, d \in Signs : \E i \in 1..n : seq[i] = Entry(b, d)
  BY DEF Lists
<1>2. \A i \in 1..n : seq[i] \in Entries(B)
  BY <1>1
<1>3. \A i \in 1..n : seq[i].at \in Int
  BY <1>2 DEF Entries
<1>4. PICK p \in [1..n -> 1..n] :
           /\ Sorted(seq) = [k \in 1..n |-> seq[p[k]]]
           /\ \A j, k \in 1..n : p[j] = p[k] => j = k
           /\ \A i \in 1..n : \E k \in 1..n : p[k] = i
           /\ \A j, k \in 1..n : j < k => seq[p[j]].at <= seq[p[k]].at
  BY <1>1, <1>3, SortPlaces
<1>. DEFINE s == Sorted(seq)
<1>5. s \in Seq(Entries(B)) /\ Len(s) = n /\ \A k \in 1..n : s[k] = seq[p[k]] /\ p[k] \in 1..n
  <2>1. \A k \in 1..n : p[k] \in 1..n
    OBVIOUS
  <2>2. \A k \in 1..n : s[k] = seq[p[k]]
    BY <1>4
  <2>3. s = [k \in 1..n |-> seq[p[k]]]
    BY <1>4
  <2>. HIDE DEF s
  <2>4. s \in [1..n -> Entries(B)]
    BY <1>2, <2>1, <2>3
  <2>5. s \in Seq(Entries(B)) /\ DOMAIN s = 1..n
    BY <1>1, <2>4
  <2>6. Len(s) = n
    BY <1>1, <2>5
  <2>. QED BY <2>1, <2>2, <2>5, <2>6
<1>. HIDE DEF s
<1>6. \A b \in B, d \in Signs : \E k \in 1..n : s[k] = Entry(b, d)
  <2>. SUFFICES ASSUME NEW b \in B, NEW d \in Signs PROVE \E k \in 1..n : s[k] = Entry(b, d)
    OBVIOUS
  <2>1. PICK i \in 1..n : seq[i] = Entry(b, d)
    BY <1>1
  <2>2. PICK k \in 1..n : p[k] = i
    BY <1>4
  <2>. QED BY <1>5, <2>1, <2>2
<1>7. \A j, k \in 1..n : s[j] = s[k] => j = k
  BY <1>1, <1>4, <1>5
<1>8. \A k \in 1..n : s[k] = Entry(s[k].b, s[k].delta)
  BY <1>1, <1>5
<1>9. Lists(s, B)
  BY <1>5, <1>6, <1>7, <1>8 DEF Lists
<1>10. \A j, k \in 1..Len(s) : j < k => s[j].at <= s[k].at
  <2>. SUFFICES ASSUME NEW j \in 1..n, NEW k \in 1..n, j < k PROVE s[j].at <= s[k].at
    BY <1>5
  <2>1. seq[p[j]].at <= seq[p[k]].at
    BY <1>4
  <2>. QED BY <1>5, <2>1
<1>. QED BY <1>9, <1>10 DEF s

-----------------------------------------------------------------------------
(* The sums over a list.  Of the bookings S, so many have begun at the k-th *)
(* entry more than are over.                                               *)
Met(cs, B, k, d) == {b \in B : \E i \in 1..k : cs[i] = Entry(b, d)}
Balance(cs, B, k, S) == Cardinality(Met(cs, B, k, 1) \cap S) - Cardinality(Met(cs, B, k, -1) \cap S)

LEMMA EntryOne ==
  ASSUME NEW b, NEW c, NEW d, NEW e, Entry(b, d) = Entry(c, e)
  PROVE  b = c /\ d = e
<1>1. Entry(b, d).b = b /\ Entry(c, e).b = c /\ Entry(b, d).delta = d /\ Entry(c, e).delta = e
  BY DEF Entry
<1>. QED BY <1>1
Change(c, S) == IF c.b \in S THEN c.delta ELSE 0

LEMMA BalanceNone ==
  ASSUME NEW B, NEW cs, NEW S
  PROVE  Balance(cs, B, 0, S) = 0
<1>1. Met(cs, B, 0, 1) \cap S = {} /\ Met(cs, B, 0, -1) \cap S = {}
  BY DEF Met
<1>. QED BY <1>1, FS_EmptySet DEF Balance

(* An entry changes the balance by what it says.                           *)
LEMMA BalanceStep ==
  ASSUME NEW B, IsFiniteSet(B), NEW cs, Lists(cs, B), NEW S, NEW k \in 1..Len(cs)
  PROVE  Balance(cs, B, k, S) = Balance(cs, B, k - 1, S) + Change(cs[k], S)
<1>. DEFINE n == Len(cs)
            M(j, d) == Met(cs, B, j, d)
            C(j, d) == Cardinality(M(j, d) \cap S)
<1>1. /\ n \in Nat
      /\ \A i \in 1..n : cs[i] = Entry(cs[i].b, cs[i].delta) /\ cs[i].b \in B /\ cs[i].delta \in Signs
      /\ \A i, j \in 1..n : cs[i] = cs[j] => i = j
  <2>1. cs \in Seq(Entries(B))
    BY DEF Lists
  <2>2. n \in Nat /\ \A i \in 1..n : cs[i] \in Entries(B)
    BY <2>1
  <2>3. \A i \in 1..n : cs[i].b \in B /\ cs[i].delta \in Signs
    BY <2>2 DEF Entries
  <2>. QED BY <2>2, <2>3 DEF Lists
<1>2. ASSUME NEW j, NEW d PROVE IsFiniteSet(M(j, d) \cap S) /\ C(j, d) \in Nat
  <2>1. M(j, d) \cap S \in SUBSET B
    BY DEF Met
  <2>. QED BY <2>1, FS_Subset, FS_CardinalityType
<1>4. ASSUME NEW d \in Signs
      PROVE  C(k, d) = C(k - 1, d) + IF d = cs[k].delta /\ cs[k].b \in S THEN 1 ELSE 0
  <2>. DEFINE b == cs[k].b
  <2>0. /\ k - 1 \in 0..n /\ k \in 1..k
        /\ \A i : i \in 1..k <=> i \in 1..(k - 1) \/ i = k
        /\ \A i \in 1..(k - 1) : i \in 1..n /\ i # k
    BY <1>1
  <2>1. cs[k] = Entry(b, cs[k].delta) /\ b \in B
    BY <1>1
  <2>2. CASE d = cs[k].delta
    <3>1. M(k, d) = M(k - 1, d) \cup {b}
      <4>1. \A c \in B : c \in M(k, d) <=> c \in M(k - 1, d) \/ cs[k] = Entry(c, d)
        BY <2>0 DEF Met
      <4>2. \A c : cs[k] = Entry(c, d) <=> c = b
        BY <2>1, <2>2, EntryOne
      <4>3. M(k, d) \subseteq B /\ M(k - 1, d) \subseteq B
        BY DEF Met
      <4>. HIDE DEF M
      <4>. QED BY <2>1, <4>1, <4>2, <4>3
    <3>2. b \notin M(k - 1, d)
      <4>1. \A i \in 1..(k - 1) : cs[i] # cs[k]
        BY <1>1, <2>0
      <4>. QED BY <2>1, <2>2, <4>1 DEF Met
    <3>. HIDE DEF M
    <3>3. CASE b \in S
      <4>1. M(k, d) \cap S = (M(k - 1, d) \cap S) \cup {b} /\ b \notin M(k - 1, d) \cap S
        BY <3>1, <3>2, <3>3
      <4>2. C(k, d) = C(k - 1, d) + 1
        BY <1>2, <4>1, FS_AddElement
      <4>. QED BY <2>2, <3>3, <4>2
    <3>4. CASE b \notin S
      <4>1. M(k, d) \cap S = M(k - 1, d) \cap S
        BY <3>1, <3>4
      <4>2. C(k, d) = C(k - 1, d) /\ C(k - 1, d) \in Nat
        BY <1>2, <4>1
      <4>. HIDE DEF C
      <4>. QED BY <3>4, <4>2
    <3>. QED BY <3>3, <3>4
  <2>3. CASE d # cs[k].delta
    <3>1. \A c : cs[k] # Entry(c, d)
      BY <2>1, <2>3, EntryOne
    <3>2. M(k, d) = M(k - 1, d)
      BY <2>0, <3>1 DEF Met
    <3>3. C(k, d) = C(k - 1, d) /\ C(k - 1, d) \in Nat
      BY <1>2, <3>2
    <3>. HIDE DEF C
    <3>. QED BY <2>3, <3>3
  <2>. QED BY <2>2, <2>3
<1>5. /\ \A j, d : C(j, d) \in Nat
      /\ \A j : Balance(cs, B, j, S) = C(j, 1) - C(j, -1)
  BY <1>2 DEF Balance
<1>6. cs[k].delta = 1 \/ cs[k].delta = -1
  BY <1>1 DEF Signs
<1>7. /\ C(k, 1) = C(k - 1, 1) + IF 1 = cs[k].delta /\ cs[k].b \in S THEN 1 ELSE 0
      /\ C(k, -1) = C(k - 1, -1) + IF -1 = cs[k].delta /\ cs[k].b \in S THEN 1 ELSE 0
  BY <1>4 DEF Signs
<1>. HIDE DEF C
<1>8. /\ C(k, 1) \in Nat /\ C(k, -1) \in Nat /\ C(k - 1, 1) \in Nat /\ C(k - 1, -1) \in Nat
      /\ Balance(cs, B, k, S) = C(k, 1) - C(k, -1)
      /\ Balance(cs, B, k - 1, S) = C(k - 1, 1) - C(k - 1, -1)
  BY <1>5
<1>9. CASE cs[k].b \in S
  BY <1>6, <1>7, <1>8, <1>9 DEF Change
<1>10. CASE cs[k].b \notin S
  BY <1>6, <1>7, <1>8, <1>10 DEF Change
<1>. QED BY <1>9, <1>10

(* What a point says.                                                      *)
Of(B, u) == {b \in B : u \in booking[b].users}

Says(p, cs, B, k) ==
  /\ p.count = Balance(cs, B, k, B)
  /\ p.active = [u \in People |-> Balance(cs, B, k, Of(B, u))]
  /\ k > 0 => /\ p.at = cs[k].at
              /\ p.users = Cardinality({u \in People : p.active[u] > 0})

(* Every sum says the balances at its entry.                               *)
LEMMA SumsSay ==
  ASSUME NEW B, IsFiniteSet(B), NEW cs, Lists(cs, B), NEW f, Sums(f, cs, Len(cs))
  PROVE  \A k \in 0..Len(cs) : Says(f[k], cs, B, k)
<1>. DEFINE n == Len(cs)
            T == {k \in 0..n : ~Says(f[k], cs, B, k)}
<1>1. n \in Nat /\ \A i \in 1..n : cs[i].b \in B
  <2>1. cs \in Seq(Entries(B))
    BY DEF Lists
  <2>2. n \in Nat /\ \A i \in 1..n : cs[i] \in Entries(B)
    BY <2>1
  <2>. QED BY <2>2 DEF Entries
<1>2. /\ f[0] = Empty
      /\ \A k \in 1..n : f[k] = Point(f[k - 1], cs[k])
  BY <1>1 DEF Sums
<1>7. ASSUME NEW S, NEW k \in 1..n
      PROVE  Balance(cs, B, k, S) = Balance(cs, B, k - 1, S) + IF cs[k].b \in S THEN cs[k].delta ELSE 0
  BY BalanceStep DEF Change
<1>3. 0 \notin T
  <2>1. \A S : Balance(cs, B, 0, S) = 0
    BY BalanceNone
  <2>2. Says(Empty, cs, B, 0)
    BY <2>1 DEF Says, Empty
  <2>. QED BY <1>2, <2>2
<1>4. ASSUME NEW k \in T, \A j \in T : k <= j PROVE FALSE
  <2>1. k \in 0..n /\ k # 0
    BY <1>3, <1>4
  <2>. HIDE DEF T
  <2>2. k \in 1..n /\ k - 1 \in 0..n /\ k - 1 \notin T
    BY <1>1, <1>4, <2>1
  <2>3. Says(f[k - 1], cs, B, k - 1) /\ ~Says(f[k], cs, B, k)
    BY <1>4, <2>2 DEF T
  <2>. DEFINE c == cs[k]
              p == f[k - 1]
              active == [u \in People |-> p.active[u] + IF u \in booking[c.b].users THEN c.delta ELSE 0]
  <2>4. f[k] = [at |-> c.at, count |-> p.count + c.delta, active |-> active,
                users |-> Cardinality({u \in People : active[u] > 0})]
    BY <1>2, <2>2 DEF Point
  <2>5. c.b \in B /\ \A u : c.b \in Of(B, u) <=> u \in booking[c.b].users
    BY <1>1, <2>2 DEF Of
  <2>6. /\ p.count = Balance(cs, B, k - 1, B)
        /\ p.active = [u \in People |-> Balance(cs, B, k - 1, Of(B, u))]
    BY <2>3 DEF Says
  <2>7. \A S : Balance(cs, B, k, S) = Balance(cs, B, k - 1, S) + IF c.b \in S THEN c.delta ELSE 0
    BY <1>7, <2>2
  <2>8. p.count + c.delta = Balance(cs, B, k, B)
    BY <2>5, <2>6, <2>7
  <2>9. active = [u \in People |-> Balance(cs, B, k, Of(B, u))]
    BY <2>5, <2>6, <2>7
  <2>. HIDE DEF active
  <2>10. /\ f[k].at = c.at /\ f[k].count = p.count + c.delta /\ f[k].active = active
         /\ f[k].users = Cardinality({u \in People : active[u] > 0})
    BY <2>4
  <2>11. Says(f[k], cs, B, k)
    BY <2>8, <2>9, <2>10 DEF Says
  <2>. QED BY <2>3, <2>11
<1>5. T \in SUBSET Nat
  BY <1>1
<1>6. T = {}
  <2>. HIDE DEF T
  <2>. QED BY <1>4, <1>5, Least
<1>. QED BY <1>6

-----------------------------------------------------------------------------
(* The last point of a time has the bookings that have begun by then and   *)
(* are not over; those that do not count are over before the plot starts.  *)
LEMMA SeriesTrue ==
  ASSUME TypeOK, InvPeriods
  PROVE  StatisticsTrue
<1>. SUFFICES ASSUME NEW span \in 0..MaxTime, NEW i \in DOMAIN Series(span),
                     now - span <= Series(span)[i].at, Series(span)[i].at <= now,
                     i = Len(Series(span)) \/ Series(span)[i + 1].at > Series(span)[i].at
              PROVE  /\ Series(span)[i].count = Cardinality(ActiveAt(Series(span)[i].at))
                     /\ Series(span)[i].users
                          = Cardinality(UNION {booking[b].users : b \in ActiveAt(Series(span)[i].at)})
  BY DEF StatisticsTrue
<1>. DEFINE B == Counted(span)
            cs == Sorted(Collected(span))
            n == Len(cs)
            s == Series(span)
            t == s[i].at
<1>1. /\ Lists(cs, B)
      /\ \A j, k \in 1..n : j < k => cs[j].at <= cs[k].at
  BY CollectedLists, SortedLists
<1>2. n \in Nat /\ \A j \in 1..n : cs[j].at \in Int
  <2>1. cs \in Seq(Entries(B))
    BY <1>1 DEF Lists
  <2>. HIDE DEF cs
  <2>2. n \in Nat /\ \A j \in 1..n : cs[j] \in Entries(B)
    BY <2>1
  <2>. QED BY <2>2 DEF Entries
<1>3. PICK sum : Sums(sum, cs, n) /\ s = [k \in 1..n |-> sum[k]]
  BY <1>2, SeriesSums
<1>4. IsFiniteSet(B) /\ B \subseteq Rows /\ now \in Int /\ span \in Int
  <2>1. B \in SUBSET Ids /\ B \subseteq Rows
    BY DEF Counted, Rows
  <2>2. IsFiniteSet(Ids)
    BY RulesAssumption, FS_Interval DEF Ids
  <2>. QED BY <2>1, <2>2, FS_Subset DEF TypeOK
<1>. HIDE DEF cs, B, s
<1>5. \A k \in 0..n : Says(sum[k], cs, B, k)
  BY <1>1, <1>3, <1>4, SumsSay
<1>6. /\ i \in 1..n /\ Len(s) = n
      /\ \A k \in 1..n : s[k] = sum[k] /\ s[k].at = cs[k].at /\ Says(s[k], cs, B, k)
  <2>1. DOMAIN s = 1..n
    BY <1>3
  <2>2. i \in 1..n /\ \A k \in 1..n : s[k] = sum[k] /\ k \in 0..n /\ k > 0
    BY <1>2, <1>3, <2>1 DEF s
  <2>3. Len(s) = n
    BY <1>2, <1>3
  <2>4. ASSUME NEW k \in 1..n PROVE s[k] = sum[k] /\ s[k].at = cs[k].at /\ Says(s[k], cs, B, k)
    <3>1. s[k] = sum[k] /\ k > 0 /\ Says(s[k], cs, B, k)
      BY <1>5, <2>2
    <3>2. s[k].at = cs[k].at
      BY <3>1 DEF Says
    <3>. QED BY <3>1, <3>2
  <2>. QED BY <2>2, <2>3, <2>4
<1>7. /\ t \in Int /\ now - span <= t /\ t <= now
      /\ i # n => cs[i + 1].at > t
      /\ t = cs[i].at
  <2>1. i # n => i + 1 \in 1..n
    BY <1>2, <1>6
  <2>2. now - span <= t /\ t <= now /\ (i # n => s[i + 1].at > t)
    BY <1>6 DEF s
  <2>. QED BY <1>2, <1>6, <2>1, <2>2
<1>. HIDE DEF t
<1>8. \A j \in 1..n : cs[j].at <= t <=> j <= i
  <2>. SUFFICES ASSUME NEW j \in 1..n PROVE cs[j].at <= t <=> j <= i
    OBVIOUS
  <2>1. CASE j <= i
    BY <1>1, <1>2, <1>6, <1>7, <2>1
  <2>2. CASE j > i
    <3>1. i # n /\ i + 1 \in 1..n /\ (j = i + 1 \/ i + 1 < j)
      BY <1>2, <1>6, <2>2
    <3>2. cs[i + 1].at <= cs[j].at
      BY <1>1, <1>2, <3>1
    <3>. QED BY <1>2, <1>6, <1>7, <2>2, <3>1, <3>2
  <2>. QED BY <1>6, <2>1, <2>2
<1>9. ASSUME NEW b \in B, NEW d \in Signs
      PROVE  b \in Met(cs, B, i, d) <=> Entry(b, d).at <= t
  <2>1. PICK j \in 1..n : cs[j] = Entry(b, d)
    BY <1>1 DEF Lists
  <2>2. Entry(b, d).at <= t => j \in 1..i
    BY <1>6, <1>8, <2>1
  <2>3. ASSUME NEW k \in 1..i, cs[k] = Entry(b, d) PROVE Entry(b, d).at <= t
    <3>1. k \in 1..n /\ k <= i
      BY <1>2, <1>6
    <3>. QED BY <1>8, <2>3, <3>1
  <2>. QED BY <2>1, <2>2, <2>3 DEF Met
<1>10. /\ \A b \in B : b \in Met(cs, B, i, 1) <=> booking[b].start <= t
       /\ \A b \in B : b \in Met(cs, B, i, -1) <=> booking[b].end <= t
       /\ Met(cs, B, i, 1) \subseteq B /\ Met(cs, B, i, -1) \subseteq B
  <2>1. \A b \in B : Entry(b, 1).at = booking[b].start /\ Entry(b, -1).at = booking[b].end
    BY DEF Entry
  <2>2. 1 \in Signs /\ -1 \in Signs
    BY DEF Signs
  <2>3. Met(cs, B, i, 1) \subseteq B /\ Met(cs, B, i, -1) \subseteq B
    BY DEF Met
  <2>. QED BY <1>9, <2>1, <2>2, <2>3
<1>11. \A b \in Rows : /\ booking[b].start \in Int /\ booking[b].end \in Int
                       /\ booking[b].start < booking[b].end
                       /\ booking[b].users \subseteq People
                       /\ b \in B <=> booking[b].start <= now /\ booking[b].end >= now - span
  <2>. SUFFICES ASSUME NEW b \in Rows
                PROVE /\ booking[b].start \in Int /\ booking[b].end \in Int
                      /\ booking[b].start < booking[b].end
                      /\ booking[b].users \subseteq People
                      /\ b \in B <=> booking[b].start <= now /\ booking[b].end >= now - span
    OBVIOUS
  <2>1. booking[b] \in Booking
    BY DEF TypeOK, Rows
  <2>2. booking[b].start \in Int /\ booking[b].end \in Int /\ booking[b].users \in SUBSET People
    BY <2>1 DEF Booking
  <2>3. b \in B <=> booking[b].start <= now /\ booking[b].end >= now - span
    BY DEF B, Counted
  <2>. QED BY <2>2, <2>3 DEF InvPeriods
<1>12. /\ \A b : b \in ActiveAt(t) <=> b \in Met(cs, B, i, 1) /\ b \notin Met(cs, B, i, -1)
       /\ Met(cs, B, i, -1) \subseteq Met(cs, B, i, 1)
       /\ ActiveAt(t) \subseteq B
  <2>1. \A b \in B : b \in Met(cs, B, i, -1) => b \in Met(cs, B, i, 1)
    BY <1>4, <1>7, <1>10, <1>11
  <2>2. \A b \in Rows : booking[b].start <= t /\ t < booking[b].end => b \in B
    BY <1>4, <1>7, <1>11
  <2>3. \A b \in B : booking[b].start <= t /\ t < booking[b].end
                     <=> b \in Met(cs, B, i, 1) /\ b \notin Met(cs, B, i, -1)
    BY <1>4, <1>7, <1>10, <1>11
  <2>. QED BY <1>4, <1>10, <2>1, <2>2, <2>3 DEF ActiveAt
<1>13. ASSUME NEW S PROVE Balance(cs, B, i, S) = Cardinality(ActiveAt(t) \cap S)
  <2>. DEFINE P == Met(cs, B, i, 1) \cap S
              Q == Met(cs, B, i, -1) \cap S
  <2>1. ActiveAt(t) \cap S = P \ Q /\ P \cap Q = Q /\ P \in SUBSET B
    BY <1>10, <1>12
  <2>2. Balance(cs, B, i, S) = Cardinality(P) - Cardinality(Q)
    BY DEF Balance
  <2>. HIDE DEF P, Q
  <2>3. IsFiniteSet(P)
    BY <1>4, <2>1, FS_Subset
  <2>4. Cardinality(P \ Q) = Cardinality(P) - Cardinality(P \cap Q)
    BY <2>3, FS_Difference
  <2>. QED BY <2>1, <2>2, <2>4
<1>14. s[i].count = Cardinality(ActiveAt(t))
  <2>1. ActiveAt(t) \cap B = ActiveAt(t)
    BY <1>12
  <2>. QED BY <1>6, <1>13, <2>1 DEF Says
<1>15. ASSUME NEW u \in People
       PROVE  s[i].active[u] > 0 <=> u \in UNION {booking[b].users : b \in ActiveAt(t)}
  <2>. DEFINE A == ActiveAt(t) \cap Of(B, u)
  <2>1. s[i].active[u] = Cardinality(A)
    BY <1>6, <1>13 DEF Says
  <2>2. IsFiniteSet(A)
    <3>1. A \in SUBSET B
      BY <1>12
    <3>. QED BY <1>4, <3>1, FS_Subset
  <2>3. A # {} <=> u \in UNION {booking[b].users : b \in ActiveAt(t)}
    BY <1>12 DEF Of
  <2>. HIDE DEF A
  <2>4. Cardinality(A) \in Nat /\ (Cardinality(A) = 0 <=> A = {})
    BY <2>2, FS_CardinalityType, FS_EmptySet
  <2>. QED BY <2>1, <2>3, <2>4
<1>16. {u \in People : s[i].active[u] > 0} = UNION {booking[b].users : b \in ActiveAt(t)}
  <2>1. UNION {booking[b].users : b \in ActiveAt(t)} \subseteq People
    BY <1>4, <1>11, <1>12
  <2>. QED BY <1>15, <2>1
<1>17. s[i].users = Cardinality({u \in People : s[i].active[u] > 0})
  <2>1. i > 0
    BY <1>2, <1>6
  <2>2. Says(s[i], cs, B, i)
    BY <1>6
  <2>. QED BY <2>1, <2>2, Zenon DEF Says
<1>. QED BY <1>14, <1>16, <1>17 DEF s, t

-----------------------------------------------------------------------------
(* The results. *)

(* The invariant holds of every history of requests, releases and edits.   *)
THEOREM RulesInvariant == Spec => []IInv
<1>1. Init => IInv
  <2>. SUFFICES ASSUME Init PROVE IInv
    OBVIOUS
  <2>1. Rows = {} /\ privileged = {}
    BY DEF Init, Rows
  <2>2. \A u \in Users : Active(u) \ edited = {}
    BY <2>1 DEF Active, Owned
  <2>3. LimitKept
    BY <2>2, FS_EmptySet, RulesAssumption DEF LimitKept
  <2>. QED BY <2>1, <2>3, BaseInit DEF IInv, InvOwn, PodsNotShared, ModelsKept, InvPeriods
<1>2. IInv /\ [Next]_vars => IInv'
  BY BaseStep, OwnStep, PodsStep, LimitStep, PeriodsStep DEF IInv
<1>. QED BY <1>1, <1>2, PTL DEF Spec

(* Type correctness.                                                       *)
THEOREM RulesTypes == Spec => []TypeOK
<1>1. IInv => TypeOK
  BY DEF IInv
<1>. QED BY <1>1, RulesInvariant, PTL

(* Booking.save's check of the one row that is saved keeps all bookings of *)
(* a pod apart, whatever is cancelled, deleted, released or edited.        *)
THEOREM PodsApart == Spec => []PodsNotShared
<1>1. IInv => PodsNotShared
  BY DEF IInv
<1>. QED BY <1>1, RulesInvariant, PTL

(* The limit of bookings holds for any limit and any mix of quick bookings *)
(* and wizards.                                                            *)
THEOREM LimitHolds == Spec => []LimitKept
<1>1. IInv => LimitKept
  BY DEF IInv
<1>. QED BY <1>1, RulesInvariant, PTL

(* No user takes the template or configuration of a booking that is not    *)
(* over away.                                                              *)
THEOREM ModelsStay == Spec => []ModelsKept
<1>1. IInv => ModelsKept
  BY DEF IInv
<1>. QED BY <1>1, RulesInvariant, PTL

(* The statistics of any span say what was booked, at the last point of    *)
(* every time of it: how many bookings there were and of how many users.   *)
THEOREM StatisticsRight == Spec => []StatisticsTrue
<1>1. IInv => StatisticsTrue
  BY SeriesTrue DEF IInv
<1>. QED BY <1>1, RulesInvariant, PTL
=============================================================================
