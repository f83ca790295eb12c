------------------------ MODULE PodLifecycle_proofs ------------------------
(* Proofs that the safety properties of PodLifecycle hold for all sets of  *)
(* hosts, bookings and task runs.                                          *)
EXTENDS PodLifecycle, TLAPS

(* The rows, requests and runs only ever hold values of their types.       *)
LEMMA TypeInit == Init => TypeOK
BY NoneAssumption DEF Init, TypeOK, IdleWeb, IdlePoll, IdleFree, Webs, Polls, Frees, Statuses, Deltas

(* Records of runs stay records of runs when one field changes.            *)
LEMMA PollTypes ==
  ASSUME NEW r \in Polls, NEW S \in SUBSET Bookings, NEW M \in SUBSET (Kinds \X Hosts)
  PROVE  /\ IdlePoll \in Polls
         /\ [r EXCEPT !.todo = S] \in Polls
         /\ [r EXCEPT !.cur = None] \in Polls
         /\ [r EXCEPT !.rels = M] \in Polls
BY DEF Polls, IdlePoll

(* Fields of the record of a free_hosts run.                               *)
LEMMA FreeTypes ==
  ASSUME NEW r \in Frees, NEW S \in SUBSET Bookings, NEW M \in SUBSET Hosts
  PROVE  /\ IdleFree \in Frees
         /\ [r EXCEPT !.todo = S] \in Frees
         /\ [r EXCEPT !.cur = None] \in Frees
         /\ [r EXCEPT !.hosts = M] \in Frees
BY DEF Frees, IdleFree

LEMMA TypeStep == TypeOK /\ [Next]_vars => TypeOK'
<1>. SUFFICES ASSUME TypeOK, [Next]_vars PROVE TypeOK'
  OBVIOUS
<1>. USE NoneAssumption, PodSizesAssumption, OutcomesAssumption, CrashesAssumption
     DEF TypeOK, rowVars, taskVars, labVars, histVars
<1>1. ASSUME NEW b \in Bookings, NEW n \in PodSizes, StartBooking(b, n) PROVE TypeOK'
  BY <1>1 DEF StartBooking, IdleWeb, Webs
<1>2. ASSUME NEW h \in Hosts, AcquireHost(h) PROVE TypeOK'
  BY <1>2 DEF AcquireHost, Webs
<1>3. ASSUME AttachHost PROVE TypeOK'
  <2>1. web' \in Webs /\ web'.op = "acquire" /\ web'.b = web.b
    <3>1. web.need - 1 \in Nat
      BY <1>3 DEF AttachHost, Webs
    <3>. QED BY <1>3, <3>1 DEF AttachHost, Webs
  <2>2. web.h \in Hosts /\ web.b \in Bookings
    BY <1>3 DEF AttachHost
  <2>. QED BY <1>3, <2>1, <2>2 DEF AttachHost
<1>4. ASSUME FailAcquire PROVE TypeOK'
  BY <1>4 DEF FailAcquire, IdleWeb, Webs
<1>5. ASSUME FailBooking PROVE TypeOK'
  BY <1>5 DEF FailBooking, IdleWeb, Webs
<1>6. ASSUME NEW made \in {"none", "open"}, NEW hw \in SUBSET Hosts, NEW net \in SUBSET Hosts,
             FinishBooking(made, hw, net)
      PROVE TypeOK'
  BY <1>6 DEF FinishBooking, IdleWeb, Webs, Statuses
<1>7. ASSUME NEW b \in Bookings, EndBooking(b) PROVE TypeOK'
  BY <1>7 DEF EndBooking
<1>8. ASSUME NEW b \in Bookings, DeleteBooking(b) PROVE TypeOK'
  BY <1>8 DEF DeleteBooking, IdleWeb, Webs, PodOf
<1>9. ASSUME NEW b \in Bookings, DeleteReleased(b) PROVE TypeOK'
  BY <1>9 DEF DeleteReleased
<1>10. ASSUME NEW h \in Hosts, WebReleaseHost(h) PROVE TypeOK'
  BY <1>10 DEF WebReleaseHost, ReleaseHost, Webs
<1>11. ASSUME WebDeleteBundle PROVE TypeOK'
  BY <1>11 DEF WebDeleteBundle, DeleteBundle, Webs
<1>12. ASSUME DeleteBookingRow PROVE TypeOK'
  BY <1>12 DEF DeleteBookingRow, IdleWeb, Webs, Statuses
<1>13. ASSUME NEW b \in Bookings, NEW h \in Hosts, StartReimage(b, h) PROVE TypeOK'
  BY <1>13 DEF StartReimage, IdleWeb, Webs
<1>14. ASSUME FinishReimage PROVE TypeOK'
  <2>1. <<web.b, "hardware", web.h>> \in Tasks /\ <<web.b, "network", web.h>> \in Tasks
    BY <1>14 DEF FinishReimage, Tasks, Kinds
  <2>2. status' \in [Tasks -> Statuses] /\ delta' \in [Tasks -> Deltas]
    BY <1>14, <2>1 DEF FinishReimage, Statuses, Deltas
  <2>3. web' \in Webs /\ web'.op = "idle" /\ raced' \subseteq Bookings
    BY <1>14 DEF FinishReimage, IdleWeb, Webs
  <2>. QED BY <1>14, <2>2, <2>3 DEF FinishReimage
<1>15. ASSUME NEW h \in Hosts, StartUpdateHost(h) PROVE TypeOK'
  <2>1. bundle[h] \in Bookings \cup {None}
    OBVIOUS
  <2>. DEFINE was == h \in booked
  <2>2. was \in BOOLEAN
    OBVIOUS
  <2>3. web' = [op |-> "update", b |-> bundle[h], h |-> h, todo |-> {}, need |-> 0,
                wasBooked |-> was]
    BY <1>15 DEF StartUpdateHost, IdleWeb
  <2>. HIDE DEF was
  <2>4. web' \in Webs /\ web'.op = "update" /\ web'.h \in Hosts
    BY <2>1, <2>2, <2>3 DEF Webs
  <2>. QED BY <1>15, <2>4 DEF StartUpdateHost
<1>16. ASSUME FinishUpdateHost PROVE TypeOK'
  BY <1>16 DEF FinishUpdateHost, IdleWeb, Webs
<1>17. ASSUME WebCrash PROVE TypeOK'
  BY <1>17 DEF WebCrash, IdleWeb, Webs
<1>18. ASSUME NEW p \in Pollers, StartPoll(p) PROVE TypeOK'
  <2>1. [poll[p] EXCEPT !.todo = {b \in Bookings : NeedsCleanup(b)}] \in Polls
    BY PollTypes
  <2>. QED BY <1>18, <2>1 DEF StartPoll
<1>19. ASSUME NEW p \in Pollers, NEW b \in Bookings, PickCleanup(p, b) PROVE TypeOK'
  <2>1. RelationsOf(b) \in SUBSET (Kinds \X Hosts)
    BY DEF RelationsOf
  <2>2. /\ IdlePoll \in Polls
        /\ [poll[p] EXCEPT !.todo = @ \ {b}] \in Polls
        /\ [todo |-> poll[p].todo \ {b}, cur |-> b, rels |-> RelationsOf(b)] \in Polls
    <3>1. poll[p] \in Polls
      OBVIOUS
    <3>2. poll[p].todo \ {b} \in SUBSET Bookings
      BY <3>1 DEF Polls
    <3>. QED BY <2>1, <3>1, <3>2 DEF Polls, IdlePoll
  <2>3. poll' \in [Pollers -> Polls]
    <3>1. \E r \in Polls : poll' = [poll EXCEPT ![p] = r]
      BY <1>19, <2>2 DEF PickCleanup
    <3>. QED BY <3>1
  <2>. QED BY <1>19, <2>3 DEF PickCleanup
<1>20. ASSUME NEW p \in Pollers, NEW k \in Kinds, NEW h \in Hosts, CleanupRelation(p, k, h)
       PROVE TypeOK'
  <2>1. IdlePoll \in Polls
    BY DEF Polls, IdlePoll
  <2>2. [poll[p] EXCEPT !.rels = @ \ {<<k, h>>}] \in Polls
    <3>1. poll[p] \in Polls
      OBVIOUS
    <3>2. poll[p].rels \ {<<k, h>>} \in SUBSET (Kinds \X Hosts)
      BY <3>1 DEF Polls
    <3>. QED BY <3>1, <3>2 DEF Polls
  <2>. DEFINE t == <<poll[p].cur, k, h>>
  <2>3. CASE status[t] = "absent"
    <3>1. poll' = [poll EXCEPT ![p] = IdlePoll] /\ UNCHANGED <<status, delta>>
      BY <1>20, <2>3 DEF CleanupRelation
    <3>2. poll' \in [Pollers -> Polls]
      BY <2>1, <3>1
    <3>. QED BY <1>20, <3>1, <3>2 DEF CleanupRelation
  <2>4. CASE status[t] # "absent"
    <3>1. /\ poll' = [poll EXCEPT ![p] = [poll[p] EXCEPT !.rels = @ \ {<<k, h>>}]]
          /\ status' = [status EXCEPT ![t] = "NEW"]
          /\ delta' = [delta EXCEPT ![t] = "cleanup"]
      BY <1>20, <2>4 DEF CleanupRelation
    <3>2. poll' \in [Pollers -> Polls]
      BY <2>2, <3>1
    <3>3. status' \in [Tasks -> Statuses] /\ delta' \in [Tasks -> Deltas]
      BY <3>1 DEF Statuses, Deltas
    <3>. QED BY <1>20, <3>2, <3>3 DEF CleanupRelation
  <2>. QED BY <2>3, <2>4
<1>21. ASSUME NEW p \in Pollers, CompleteJob(p) PROVE TypeOK'
  <2>1. IdlePoll \in Polls /\ [poll[p] EXCEPT !.cur = None] \in Polls
    BY PollTypes
  <2>2. poll' \in [Pollers -> Polls]
    <3>1. \E r \in Polls : poll' = [poll EXCEPT ![p] = r]
      BY <1>21, <2>1 DEF CompleteJob
    <3>. QED BY <3>1
  <2>3. job' \in [Bookings -> {"none", "open", "complete"}]
    BY <1>21 DEF CompleteJob
  <2>. QED BY <1>21, <2>2, <2>3 DEF CompleteJob
<1>22. ASSUME NEW p \in Pollers, PollCrash(p) PROVE TypeOK'
  BY <1>22 DEF PollCrash, IdlePoll, Polls
<1>23. ASSUME NEW f \in Freers, StartFree(f) PROVE TypeOK'
  <2>1. [free[f] EXCEPT !.todo = {b \in Bookings : NeedsFreeing(b)}] \in Frees
    BY FreeTypes
  <2>. QED BY <1>23, <2>1 DEF StartFree
<1>24. ASSUME NEW f \in Freers, NEW b \in Bookings, PickFree(f, b) PROVE TypeOK'
  BY <1>24 DEF PickFree, IdleFree, Frees, PodOf
<1>25. ASSUME NEW f \in Freers, NEW h \in Hosts, FreeHost(f, h) PROVE TypeOK'
  <2>1. [free[f] EXCEPT !.hosts = @ \ {h}] \in Frees
    BY DEF Frees
  <2>. QED BY <1>25, <2>1 DEF FreeHost, ReleaseHost
<1>26. ASSUME NEW f \in Freers, FreeBundle(f) PROVE TypeOK'
  <2>1. [free[f] EXCEPT !.cur = None] \in Frees
    BY DEF Frees
  <2>. QED BY <1>26, <2>1 DEF FreeBundle, DeleteBundle
<1>27. ASSUME NEW f \in Freers, FreeCrash(f) PROVE TypeOK'
  BY <1>27 DEF FreeCrash, IdleFree, Frees
<1>28. ASSUME NEW t \in Tasks, FetchTask(t) PROVE TypeOK'
  BY <1>28 DEF FetchTask, Statuses
<1>29. ASSUME NEW w \in hand, NEW s \in LabOutcomes, ReportTask(w, s) PROVE TypeOK'
  BY <1>29 DEF ReportTask, Statuses, Tasks
<1>30. CASE UNCHANGED vars
  BY <1>30 DEF vars
<1>. QED
  BY <1>1, <1>2, <1>3, <1>4, <1>5, <1>6, <1>7, <1>8, <1>9, <1>10, <1>11, <1>12, <1>13,
     <1>14, <1>15, <1>16, <1>17, <1>18, <1>19, <1>20, <1>21, <1>22, <1>23, <1>24, <1>25,
     <1>26, <1>27, <1>28, <1>29, <1>30
     DEF Next, WebRequest, WebProgress, PollStep, FreeStep, LabStep, Crash

----------------------------------------------------------------------------
(* Saved rows: a bundled host is booked.                                   *)
LEMMA RowsStep == TypeOK /\ InvRows /\ [Next]_vars => InvRows'
<1>. SUFFICES ASSUME TypeOK, InvRows, [Next]_vars PROVE InvRows'
  OBVIOUS
<1>. USE NoneAssumption DEF InvRows, BundledHostsBooked, rowVars, taskVars, labVars, histVars
<1>1. ASSUME NEW h \in Hosts, AcquireHost(h) PROVE InvRows'
  BY <1>1 DEF AcquireHost, TypeOK, Webs
<1>2. ASSUME AttachHost PROVE InvRows'
  BY <1>2 DEF AttachHost, TypeOK, Webs
<1>3. ASSUME FailAcquire PROVE InvRows'
  BY <1>3 DEF FailAcquire, IdleWeb, PodOf, TypeOK
<1>4. ASSUME NEW b \in Bookings, DeleteReleased(b) PROVE InvRows'
  BY <1>4 DEF DeleteReleased, WebIdle, PodOf, TypeOK
<1>5. ASSUME NEW h \in Hosts, WebReleaseHost(h) PROVE InvRows'
  BY <1>5 DEF WebReleaseHost, ReleaseHost, TypeOK, Webs
<1>6. ASSUME WebDeleteBundle PROVE InvRows'
  BY <1>6 DEF WebDeleteBundle, DeleteBundle, TypeOK, Webs
<1>7. ASSUME NEW h \in Hosts, StartUpdateHost(h) PROVE InvRows'
  BY <1>7 DEF StartUpdateHost, IdleWeb, TypeOK, Webs
<1>8. ASSUME FinishUpdateHost PROVE InvRows'
  BY <1>8 DEF FinishUpdateHost, IdleWeb, TypeOK, Webs
<1>9. ASSUME NEW f \in Freers, NEW h \in Hosts, FreeHost(f, h) PROVE InvRows'
  BY <1>9 DEF FreeHost, ReleaseHost, TypeOK
<1>10. ASSUME NEW f \in Freers, FreeBundle(f) PROVE InvRows'
  BY <1>10 DEF FreeBundle, DeleteBundle, TypeOK
<1>11. ASSUME NEW b \in Bookings,
              \/ \E n \in PodSizes : StartBooking(b, n)
              \/ EndBooking(b) \/ DeleteBooking(b)
              \/ \E h \in Hosts : StartReimage(b, h)
       PROVE InvRows'
  BY <1>11 DEF StartBooking, EndBooking, DeleteBooking, StartReimage, IdleWeb
<1>12. ASSUME NEW made, NEW hw, NEW net, FinishBooking(made, hw, net) PROVE InvRows'
  BY <1>12 DEF FinishBooking, IdleWeb
<1>13. CASE FailBooking \/ DeleteBookingRow \/ FinishReimage \/ WebCrash
  BY <1>13 DEF FailBooking, DeleteBookingRow, FinishReimage, WebCrash, IdleWeb
<1>14. ASSUME NEW p \in Pollers, PollStep(p) \/ PollCrash(p) PROVE InvRows'
  BY <1>14 DEF PollStep, PollCrash, StartPoll, PickCleanup, CleanupRelation, CompleteJob
<1>15. ASSUME NEW f \in Freers,
              StartFree(f) \/ (\E b \in Bookings : PickFree(f, b)) \/ FreeCrash(f)
       PROVE InvRows'
  BY <1>15 DEF StartFree, PickFree, FreeCrash
<1>16. CASE LabStep
  BY <1>16 DEF LabStep, FetchTask, ReportTask
<1>17. CASE UNCHANGED vars
  BY <1>17 DEF vars
<1>. QED
  BY <1>1, <1>2, <1>3, <1>4, <1>5, <1>6, <1>7, <1>8, <1>9, <1>10, <1>11, <1>12, <1>13,
     <1>14, <1>15, <1>16, <1>17
     DEF Next, WebRequest, WebProgress, FreeStep, Crash

----------------------------------------------------------------------------
(* After its query a run of free_hosts only shortens its list.             *)
LEMMA FreeListsShrink ==
  ASSUME TypeOK, NEW f \in Freers,
         \/ \E b \in Bookings : PickFree(f, b)
         \/ \E h \in Hosts : FreeHost(f, h)
         \/ FreeBundle(f)
         \/ FreeCrash(f)
  PROVE  \A g \in Freers : Listed(free'[g]) \subseteq Listed(free[g])
<1>. USE DEF Listed, IdleFree, TypeOK, Frees
<1>1. ASSUME NEW b \in Bookings, PickFree(f, b)
      PROVE \A g \in Freers : Listed(free'[g]) \subseteq Listed(free[g])
  BY <1>1 DEF PickFree
<1>2. ASSUME NEW h \in Hosts, FreeHost(f, h)
      PROVE \A g \in Freers : Listed(free'[g]) \subseteq Listed(free[g])
  BY <1>2 DEF FreeHost
<1>3. CASE FreeBundle(f)
  BY <1>3 DEF FreeBundle
<1>4. CASE FreeCrash(f)
  BY <1>4 DEF FreeCrash
<1>. QED BY <1>1, <1>2, <1>3, <1>4

----------------------------------------------------------------------------
(* Cleanup waits for the end of a booking.                                 *)
LEMMA UntouchedStep == TypeOK /\ InvUntouched /\ [Next]_vars => InvUntouched'
<1>. SUFFICES ASSUME TypeOK, InvUntouched, [Next]_vars PROVE InvUntouched'
  OBVIOUS
<1>. USE NoneAssumption DEF InvUntouched, Untouched, Listed, rowVars, taskVars, labVars, histVars
<1>1. ASSUME NEW b \in Bookings, NEW n \in PodSizes, StartBooking(b, n) PROVE InvUntouched'
  BY <1>1 DEF StartBooking, IdleWeb
<1>2. CASE FailAcquire \/ FailBooking
  BY <1>2 DEF FailAcquire, FailBooking, IdleWeb, TypeOK
<1>3. ASSUME NEW made \in {"none", "open"}, NEW hw, NEW net, FinishBooking(made, hw, net)
      PROVE InvUntouched'
  BY <1>3 DEF FinishBooking, IdleWeb, TypeOK
<1>4. ASSUME NEW b \in Bookings, EndBooking(b) PROVE InvUntouched'
  BY <1>4 DEF EndBooking, TypeOK
<1>5. CASE DeleteBookingRow
  BY <1>5 DEF DeleteBookingRow, IdleWeb, TypeOK
<1>6. CASE FinishReimage
  BY <1>6 DEF FinishReimage, IdleWeb, TypeOK
<1>7. ASSUME NEW p \in Pollers, StartPoll(p) PROVE InvUntouched'
  BY <1>7 DEF StartPoll, NeedsCleanup, TypeOK, Polls
<1>8. ASSUME NEW p \in Pollers, NEW b \in Bookings, PickCleanup(p, b) PROVE InvUntouched'
  BY <1>8 DEF PickCleanup, IdlePoll, TypeOK, Polls
<1>9. ASSUME NEW p \in Pollers, NEW k \in Kinds, NEW h \in Hosts, CleanupRelation(p, k, h)
      PROVE InvUntouched'
  <2>1. poll[p] \in Polls /\ poll[p].cur \in Bookings /\ poll[p].cur \in Listed(poll[p])
    BY <1>9 DEF CleanupRelation, TypeOK, Polls
  <2>2. phase[poll[p].cur] \in {"ended", "deleted"}
    BY <2>1
  <2>3. \A q \in Pollers : Listed(poll'[q]) \subseteq Listed(poll[q])
    <3>1. \A q \in Pollers : \/ poll'[q].todo = poll[q].todo /\ poll'[q].cur = poll[q].cur
                            \/ poll'[q] = IdlePoll
      BY <1>9, <2>1 DEF CleanupRelation, TypeOK, Polls
    <3>. QED BY <3>1 DEF IdlePoll
  <2>4. \A b \in Bookings, l \in Kinds, g \in Hosts :
          b # poll[p].cur => delta'[<<b, l, g>>] = delta[<<b, l, g>>]
    BY <1>9, <2>1 DEF CleanupRelation, TypeOK, Tasks
  <2>5. UNCHANGED <<web, phase, job, hand, free>>
    BY <1>9 DEF CleanupRelation
  <2>. QED BY <2>2, <2>3, <2>4, <2>5
<1>10. ASSUME NEW p \in Pollers, CompleteJob(p) \/ PollCrash(p) PROVE InvUntouched'
  BY <1>10 DEF CompleteJob, PollCrash, IdlePoll, TypeOK, Polls
<1>11. ASSUME NEW f \in Freers, StartFree(f) PROVE InvUntouched'
  BY <1>11 DEF StartFree, NeedsFreeing, TypeOK, Frees
<1>12. ASSUME NEW f \in Freers, NEW b \in Bookings, PickFree(f, b) PROVE InvUntouched'
  <2>1. \A g \in Freers : Listed(free'[g]) \subseteq Listed(free[g])
    BY <1>12, FreeListsShrink
  <2>. QED BY <1>12, <2>1 DEF PickFree
<1>13. ASSUME NEW f \in Freers, (\E h \in Hosts : FreeHost(f, h)) \/ FreeBundle(f) \/ FreeCrash(f)
       PROVE InvUntouched'
  <2>1. \A g \in Freers : Listed(free'[g]) \subseteq Listed(free[g])
    BY <1>13, FreeListsShrink
  <2>. QED BY <1>13, <2>1 DEF FreeHost, FreeBundle, FreeCrash
<1>14. ASSUME NEW t \in Tasks, FetchTask(t) PROVE InvUntouched'
  BY <1>14 DEF FetchTask, WebIdle, TypeOK, Tasks
<1>15. ASSUME NEW w \in hand, NEW s \in LabOutcomes, ReportTask(w, s) PROVE InvUntouched'
  BY <1>15 DEF ReportTask
<1>16. ASSUME UNCHANGED <<phase, job, delta, hand, poll, free>>,
              \/ web'.op \notin {"acquire", "attach"}
              \/ web.op \in {"acquire", "attach"} /\ web'.b = web.b
       PROVE InvUntouched'
  BY <1>16
<1>17. ASSUME NEW h \in Hosts, AcquireHost(h) \/ WebReleaseHost(h) \/ StartUpdateHost(h)
       PROVE InvUntouched'
  <2>1. CASE AcquireHost(h)
    BY <1>16, <2>1 DEF AcquireHost, TypeOK, Webs
  <2>2. CASE WebReleaseHost(h)
    BY <1>16, <2>2 DEF WebReleaseHost, TypeOK, Webs
  <2>3. CASE StartUpdateHost(h)
    BY <1>16, <2>3 DEF StartUpdateHost, IdleWeb
  <2>. QED BY <1>17, <2>1, <2>2, <2>3
<1>18. ASSUME NEW b \in Bookings,
              DeleteBooking(b) \/ DeleteReleased(b) \/ (\E h \in Hosts : StartReimage(b, h))
       PROVE InvUntouched'
  <2>1. CASE DeleteBooking(b)
    BY <1>16, <2>1 DEF DeleteBooking, IdleWeb
  <2>2. CASE DeleteReleased(b)
    BY <1>16, <2>2 DEF DeleteReleased, WebIdle
  <2>3. CASE \E h \in Hosts : StartReimage(b, h)
    BY <1>16, <2>3 DEF StartReimage, IdleWeb
  <2>. QED BY <1>18, <2>1, <2>2, <2>3
<1>19. CASE AttachHost
  BY <1>16, <1>19 DEF AttachHost, TypeOK, Webs
<1>20. CASE WebDeleteBundle
  BY <1>16, <1>20 DEF WebDeleteBundle, TypeOK, Webs
<1>21. CASE FinishUpdateHost
  BY <1>16, <1>21 DEF FinishUpdateHost, IdleWeb
<1>22. CASE WebCrash
  BY <1>16, <1>22 DEF WebCrash, IdleWeb
<1>23. CASE UNCHANGED vars
  BY <1>23 DEF vars
<1>. QED
  BY <1>1, <1>2, <1>3, <1>4, <1>5, <1>6, <1>7, <1>8, <1>9, <1>10, <1>11, <1>12, <1>13,
     <1>14, <1>15, <1>17, <1>18, <1>19, <1>20, <1>21, <1>22, <1>23
     DEF Next, WebRequest, WebProgress, PollStep, FreeStep, LabStep, Crash

----------------------------------------------------------------------------
(* Jobs, their relations and the lab's orders.                             *)
LEMMA TasksStep == TypeOK /\ InvUntouched /\ InvTasks /\ [Next]_vars => InvTasks'
<1>. SUFFICES ASSUME TypeOK, InvUntouched, InvTasks, [Next]_vars PROVE InvTasks'
  OBVIOUS
<1>. USE NoneAssumption DEF InvTasks, rowVars, taskVars, labVars, histVars
<1>1. ASSUME NEW made \in {"none", "open"}, NEW hw \in SUBSET Hosts, NEW net \in SUBSET Hosts,
             FinishBooking(made, hw, net)
      PROVE InvTasks'
  <2>1. web.b \in Bookings /\ phase[web.b] = "unused" /\ job[web.b] = "none"
    BY <1>1 DEF FinishBooking, InvUntouched, TypeOK
  <2>2. made = "none" => hw = {} /\ net = {}
    BY <1>1 DEF FinishBooking
  <2>3. ASSUME NEW t \in Tasks, status'[t] # status[t]
        PROVE t[1] = web.b /\ made # "none" /\ status'[t] = "NEW"
    BY <1>1, <2>2, <2>3 DEF FinishBooking
  <2>. QED BY <1>1, <2>1, <2>3 DEF FinishBooking, IdleWeb, TypeOK, Tasks
<1>2. CASE DeleteBookingRow
  BY <1>2 DEF DeleteBookingRow, IdleWeb, TypeOK, Tasks
<1>3. CASE FinishReimage
  <2>1. web.b \in Bookings /\ web.h \in Hosts
    BY <1>3 DEF FinishReimage, TypeOK
  <2>2. job[web.b] # "none"
    BY <1>3, <2>1 DEF FinishReimage, Kinds
  <2>. DEFINE u == <<web.b, "hardware", web.h>>
              v == <<web.b, "network", web.h>>
  <2>3. u \in Tasks /\ v \in Tasks /\ u[1] = web.b /\ v[1] = web.b
    BY <2>1 DEF Tasks, Kinds
  <2>4. status' = [status EXCEPT ![u] = "NEW", ![v] = "NEW"] /\ web'.op = "idle"
        /\ UNCHANGED <<phase, job, hand>>
    BY <1>3 DEF FinishReimage, IdleWeb
  <2>. HIDE DEF u, v
  <2>5. \A t \in Tasks : status'[t] = status[t] \/ (t[1] = web.b /\ status'[t] = "NEW")
    BY <2>3, <2>4 DEF TypeOK
  <2>6. ASSUME NEW b \in Bookings, NEW k \in Kinds, NEW h \in Hosts, job[b] = "none"
        PROVE status'[<<b, k, h>>] = "absent"
    BY <2>2, <2>5, <2>6 DEF Tasks
  <2>7. ASSUME NEW w \in hand PROVE status'[w.task] \in {"absent", "NEW", "CURRENT"}
    BY <2>5 DEF TypeOK
  <2>. QED BY <2>4, <2>6, <2>7
<1>4. ASSUME NEW p \in Pollers, NEW k \in Kinds, NEW h \in Hosts, CleanupRelation(p, k, h)
      PROVE InvTasks'
  <2>. DEFINE u == <<poll[p].cur, k, h>>
  <2>1. u \in Tasks
    BY <1>4 DEF CleanupRelation, TypeOK, Polls, Tasks
  <2>2. CASE status[u] = "absent"
    BY <1>4, <2>2 DEF CleanupRelation
  <2>3. CASE status[u] # "absent"
    <3>1. status' = [status EXCEPT ![u] = "NEW"] /\ UNCHANGED <<phase, job, web, hand>>
      BY <1>4, <2>3 DEF CleanupRelation
    <3>2. job[u[1]] # "none"
      BY <2>1, <2>3 DEF Tasks
    <3>. QED BY <2>1, <3>1, <3>2 DEF TypeOK, Tasks
  <2>. QED BY <2>2, <2>3
<1>5. ASSUME NEW p \in Pollers, CompleteJob(p) PROVE InvTasks'
  BY <1>5 DEF CompleteJob, TypeOK, Polls
<1>6. ASSUME NEW t \in Tasks, FetchTask(t) PROVE InvTasks'
  BY <1>6 DEF FetchTask, WebIdle, TypeOK, Tasks
<1>7. ASSUME NEW w \in hand, NEW s \in LabOutcomes, ReportTask(w, s) PROVE InvTasks'
  BY <1>7 DEF ReportTask, WebIdle, TypeOK, Tasks
<1>8. ASSUME NEW b \in Bookings, NEW h \in Hosts, StartReimage(b, h) PROVE InvTasks'
  BY <1>8 DEF StartReimage, Relations, IdleWeb, Kinds
<1>9. ASSUME NEW b \in Bookings, NEW n \in PodSizes, StartBooking(b, n) PROVE InvTasks'
  BY <1>9 DEF StartBooking, IdleWeb
<1>10. CASE FailAcquire \/ FailBooking
  BY <1>10 DEF FailAcquire, FailBooking, IdleWeb, TypeOK
<1>11. ASSUME NEW b \in Bookings, EndBooking(b) PROVE InvTasks'
  BY <1>11 DEF EndBooking, TypeOK
<1>12. ASSUME UNCHANGED <<phase, job, status, hand>>, web'.op # "reimage" \/ UNCHANGED web
       PROVE InvTasks'
  BY <1>12
<1>13. ASSUME NEW h \in Hosts, AcquireHost(h) \/ WebReleaseHost(h) \/ StartUpdateHost(h)
       PROVE InvTasks'
  <2>1. UNCHANGED <<phase, job, status, hand>> /\ web'.op # "reimage"
    <3>1. CASE AcquireHost(h)
      BY <3>1 DEF AcquireHost, TypeOK, Webs
    <3>2. CASE WebReleaseHost(h)
      BY <3>2 DEF WebReleaseHost, TypeOK, Webs
    <3>3. CASE StartUpdateHost(h)
      BY <3>3 DEF StartUpdateHost, IdleWeb
    <3>. QED BY <1>13, <3>1, <3>2, <3>3
  <2>. QED BY <1>12, <2>1
<1>14. ASSUME NEW b \in Bookings, DeleteBooking(b) \/ DeleteReleased(b) PROVE InvTasks'
  BY <1>12, <1>14 DEF DeleteBooking, DeleteReleased, IdleWeb
<1>15. CASE AttachHost \/ WebDeleteBundle \/ FinishUpdateHost \/ WebCrash
  <2>1. UNCHANGED <<phase, job, status, hand>> /\ web'.op # "reimage"
    <3>1. CASE AttachHost
      BY <3>1 DEF AttachHost, TypeOK, Webs
    <3>2. CASE WebDeleteBundle
      BY <3>2 DEF WebDeleteBundle, TypeOK, Webs
    <3>3. CASE FinishUpdateHost \/ WebCrash
      BY <3>3 DEF FinishUpdateHost, WebCrash, IdleWeb
    <3>. QED BY <1>15, <3>1, <3>2, <3>3
  <2>. QED BY <1>12, <2>1
<1>16. ASSUME NEW p \in Pollers,
              StartPoll(p) \/ (\E b \in Bookings : PickCleanup(p, b)) \/ PollCrash(p)
       PROVE InvTasks'
  BY <1>12, <1>16 DEF StartPoll, PickCleanup, PollCrash
<1>17. ASSUME NEW f \in Freers, FreeStep(f) \/ FreeCrash(f) PROVE InvTasks'
  BY <1>12, <1>17 DEF FreeStep, StartFree, PickFree, FreeHost, FreeBundle, FreeCrash
<1>18. CASE UNCHANGED vars
  BY <1>12, <1>18 DEF vars
<1>. QED
  BY <1>1, <1>2, <1>3, <1>4, <1>5, <1>6, <1>7, <1>8, <1>9, <1>10, <1>11, <1>13,
     <1>14, <1>15, <1>16, <1>17, <1>18
     DEF Next, WebRequest, WebProgress, PollStep, LabStep, Crash

----------------------------------------------------------------------------
(* Overlapping runs of booking_poll.                                       *)
LEMMA PollsStep == TypeOK /\ InvUntouched /\ InvPolls /\ [Next]_vars => InvPolls'
<1>. SUFFICES ASSUME TypeOK, InvUntouched, InvPolls, [Next]_vars PROVE InvPolls'
  OBVIOUS
<1>. USE NoneAssumption DEF InvPolls, Listed, rowVars, taskVars, labVars, histVars
<1>1. ASSUME NEW made \in {"none", "open"}, NEW hw, NEW net, FinishBooking(made, hw, net)
      PROVE InvPolls'
  <2>1. web.b \in Bookings /\ Untouched(web.b)
    BY <1>1 DEF FinishBooking, InvUntouched, TypeOK
  <2>. QED BY <1>1, <2>1 DEF FinishBooking, Untouched, TypeOK
<1>2. CASE DeleteBookingRow
  BY <1>2 DEF DeleteBookingRow, TypeOK
<1>3. ASSUME UNCHANGED <<job, poll, free>>, raced \subseteq raced' PROVE InvPolls'
  BY <1>3
<1>4. CASE FinishReimage
  BY <1>3, <1>4 DEF FinishReimage
<1>5. ASSUME NEW p \in Pollers, StartPoll(p) PROVE InvPolls'
  <2>1. \A q \in Pollers : poll'[q].cur = poll[q].cur
    BY <1>5 DEF StartPoll, IdlePoll, TypeOK, Polls
  <2>. QED BY <1>5, <2>1 DEF StartPoll
<1>6. ASSUME NEW p \in Pollers, NEW b \in Bookings, PickCleanup(p, b) PROVE InvPolls'
  <2>1. \A q \in Pollers : poll'[q].cur \in {poll[q].cur, None} \/ (q = p /\ poll'[q].cur = b)
    BY <1>6 DEF PickCleanup, IdlePoll, TypeOK, Polls
  <2>2. UNCHANGED <<job, free>> /\ raced \subseteq raced'
    BY <1>6 DEF PickCleanup
  <2>3. CASE poll'[p].cur = b
    <3>1. job[b] = "open"
      BY <1>6, <2>3 DEF PickCleanup, IdlePoll, TypeOK, Polls
    <3>2. \A q \in Pollers : poll[q].cur = b => b \in raced'
      BY <1>6, <3>1 DEF PickCleanup
    <3>. QED BY <2>1, <2>2, <2>3, <3>1, <3>2
  <2>4. CASE poll'[p].cur # b
    BY <2>1, <2>2, <2>4
  <2>. QED BY <2>3, <2>4
<1>7. ASSUME NEW p \in Pollers, NEW k \in Kinds, NEW h \in Hosts, CleanupRelation(p, k, h)
      PROVE InvPolls'
  <2>1. \A q \in Pollers : poll'[q].cur \in {poll[q].cur, None}
    BY <1>7 DEF CleanupRelation, IdlePoll, TypeOK, Polls
  <2>. QED BY <1>7, <2>1 DEF CleanupRelation
<1>8. ASSUME NEW p \in Pollers, CompleteJob(p) PROVE InvPolls'
  <2>1. /\ \A q \in Pollers : q # p => poll'[q] = poll[q]
        /\ poll'[p].cur = None
    BY <1>8 DEF CompleteJob, IdlePoll, TypeOK, Polls
  <2>2. \A b \in Bookings : job'[b] = job[b] \/ (b = poll[p].cur /\ job'[b] = "complete")
    BY <1>8 DEF CompleteJob, TypeOK
  <2>3. \A q \in Pollers : poll[q].cur \in Bookings \cup {None}
    BY DEF TypeOK, Polls
  <2>4. \A f \in Freers : Listed(free[f]) \subseteq Bookings
    BY DEF TypeOK, Frees
  <2>. QED BY <1>8, <2>1, <2>2, <2>3, <2>4 DEF CompleteJob
<1>9. ASSUME NEW p \in Pollers, PollCrash(p) PROVE InvPolls'
  BY <1>9 DEF PollCrash, IdlePoll, TypeOK, Polls
<1>10. ASSUME NEW f \in Freers, StartFree(f) PROVE InvPolls'
  BY <1>10 DEF StartFree, NeedsFreeing, IdleFree, TypeOK, Frees
<1>11. ASSUME UNCHANGED <<job, poll, raced>>,
              \A g \in Freers : Listed(free'[g]) \subseteq Listed(free[g])
       PROVE InvPolls'
  BY <1>11
<1>12. ASSUME NEW f \in Freers, NEW b \in Bookings, PickFree(f, b) PROVE InvPolls'
  <2>1. \A g \in Freers : Listed(free'[g]) \subseteq Listed(free[g])
    BY <1>12, FreeListsShrink
  <2>. QED BY <1>11, <1>12, <2>1 DEF PickFree
<1>13. ASSUME NEW f \in Freers, (\E h \in Hosts : FreeHost(f, h)) \/ FreeBundle(f) \/ FreeCrash(f)
       PROVE InvPolls'
  <2>1. \A g \in Freers : Listed(free'[g]) \subseteq Listed(free[g])
    BY <1>13, FreeListsShrink
  <2>. QED BY <1>11, <1>13, <2>1 DEF FreeHost, FreeBundle, FreeCrash
<1>14. CASE LabStep
  BY <1>3, <1>14 DEF LabStep, FetchTask, ReportTask
<1>15. CASE WebRequest
  BY <1>3, <1>15 DEF WebRequest, StartBooking, DeleteBooking, DeleteReleased, StartReimage,
                     StartUpdateHost
<1>16. ASSUME NEW h \in Hosts, AcquireHost(h) \/ WebReleaseHost(h) PROVE InvPolls'
  BY <1>3, <1>16 DEF AcquireHost, WebReleaseHost
<1>17. CASE AttachHost \/ FailAcquire \/ FailBooking \/ WebDeleteBundle \/ FinishUpdateHost
            \/ WebCrash
  BY <1>3, <1>17 DEF AttachHost, FailAcquire, FailBooking, WebDeleteBundle, FinishUpdateHost,
                     WebCrash
<1>18. ASSUME NEW b \in Bookings, EndBooking(b) PROVE InvPolls'
  BY <1>3, <1>18 DEF EndBooking
<1>19. CASE UNCHANGED vars
  BY <1>3, <1>19 DEF vars
<1>. QED
  BY <1>1, <1>2, <1>4, <1>5, <1>6, <1>7, <1>8, <1>9, <1>10, <1>12, <1>13, <1>14, <1>15,
     <1>16, <1>17, <1>18, <1>19
     DEF Next, WebProgress, PollStep, FreeStep, Crash

----------------------------------------------------------------------------
(* Rows held loaded by a release.                                          *)
LEMMA ReleasesStep ==
  TypeOK /\ InvUntouched /\ InvRows /\ InvReleases /\ [Next]_vars => InvReleases'
<1>. SUFFICES ASSUME TypeOK, InvUntouched, InvRows, InvReleases, [Next]_vars
              PROVE  InvReleases'
  OBVIOUS
<1>. USE NoneAssumption DEF InvReleases, rowVars, taskVars, labVars, histVars
<1>0. /\ web.todo \subseteq Hosts /\ \A f \in Freers : free[f].hosts \subseteq Hosts
      /\ web.op \in {"release", "deleteRow"} => web.b \in Bookings
  BY DEF TypeOK, Webs, Frees
<1>1. ASSUME UNCHANGED <<free, resource>>, contended \subseteq contended',
             \A h \in Hosts : bundle'[h] = bundle[h] \/ h \in contended',
             \A b \in Bookings : phase'[b] = phase[b] \/ phase'[b] = "ended",
             web'.op \notin {"release", "deleteRow"} \/ UNCHANGED web
      PROVE InvReleases'
  BY <1>0, <1>1
<1>2. CASE AttachHost
  <2>1. web.b \in Bookings /\ web.h \in Hosts /\ bundle[web.h] = None /\ Untouched(web.b)
    BY <1>2 DEF AttachHost, InvUntouched, InvRows, TypeOK
  <2>2. web'.op = "acquire" /\ UNCHANGED <<free, resource, phase, contended>>
    BY <1>2 DEF AttachHost, TypeOK, Webs
  <2>3. \A h \in Hosts : bundle'[h] = bundle[h] \/ (h = web.h /\ bundle'[h] = web.b)
    BY <1>2 DEF AttachHost, TypeOK
  <2>4. \A f \in Freers : free[f].cur # web.b
    BY <2>1 DEF Untouched, Listed
  <2>5. ASSUME NEW f \in Freers, web.h \in free[f].hosts PROVE web.h \in contended
    <3>1. free[f].cur # None
      BY <2>5
    <3>. QED BY <2>1, <2>5, <3>1
  <2>. QED BY <1>0, <2>1, <2>2, <2>3, <2>4, <2>5
<1>3. CASE FailAcquire
  <2>1. web.b \in Bookings /\ Untouched(web.b)
    BY <1>3 DEF FailAcquire, InvUntouched, TypeOK
  <2>2. \A f \in Freers : free[f].cur # web.b
    BY <2>1 DEF Untouched, Listed
  <2>3. web'.op = "idle" /\ UNCHANGED <<free, resource, contended>>
    BY <1>3 DEF FailAcquire, IdleWeb
  <2>4. \A h \in Hosts : bundle'[h] = bundle[h] \/ (bundle[h] = web.b /\ bundle'[h] = None)
    BY <1>3, <2>1 DEF FailAcquire, PodOf, InvRows, TypeOK
  <2>. QED BY <1>0, <2>2, <2>3, <2>4
<1>4. ASSUME NEW b \in Bookings, DeleteBooking(b) PROVE InvReleases'
  <2>1. /\ web'.op = "release" /\ web'.b = b /\ web'.todo = PodOf(b)
        /\ resource' = resource \ {b} /\ UNCHANGED <<bundle, phase, free>>
        /\ contended' = contended \cup (PodOf(b) \cap LoadedByFree)
    BY <1>4 DEF DeleteBooking, IdleWeb
  <2>2. phase[b] \in {"active", "ended"}
    BY <1>4 DEF DeleteBooking
  <2>3. \A f \in Freers : free[f].hosts \cap PodOf(b) \subseteq contended'
    BY <2>1 DEF LoadedByFree
  <2>. QED BY <2>1, <2>2, <2>3 DEF PodOf
<1>5. ASSUME NEW h \in Hosts, WebReleaseHost(h) PROVE InvReleases'
  <2>1. /\ web.op = "release" /\ h \in web.todo /\ web.b \in Bookings
        /\ web'.op = "release" /\ web'.b = web.b /\ web'.todo = web.todo \ {h}
        /\ UNCHANGED <<resource, phase, free, contended>>
    BY <1>5 DEF WebReleaseHost, TypeOK, Webs
  <2>2. \A g \in Hosts : bundle'[g] = IF g = h THEN None ELSE bundle[g]
    BY <1>5 DEF WebReleaseHost, ReleaseHost, TypeOK
  <2>. QED BY <1>0, <2>1, <2>2
<1>6. CASE WebDeleteBundle
  <2>1. /\ web.op = "release" /\ web.todo = {} /\ web'.op = "deleteRow"
        /\ web'.b = web.b /\ resource' = resource \ {web.b}
        /\ UNCHANGED <<phase, free, contended>>
    BY <1>6 DEF WebDeleteBundle, DeleteBundle, TypeOK, Webs
  <2>2. \A h \in Hosts : bundle'[h] = IF bundle[h] = web.b THEN None ELSE bundle[h]
    BY <1>6 DEF WebDeleteBundle, DeleteBundle
  <2>. QED BY <1>0, <2>1, <2>2
<1>7. ASSUME NEW f \in Freers, NEW b \in Bookings, PickFree(f, b) PROVE InvReleases'
  <2>1. CASE b \in bundles
    <3>1. /\ free' = [free EXCEPT ![f] = [todo |-> free[f].todo \ {b}, cur |-> b,
                                         hosts |-> PodOf(b)]]
          /\ contended' = contended \cup (PodOf(b) \cap (LoadedByFree \cup LoadedByWeb))
          /\ UNCHANGED <<bundle, resource, phase, web>>
      BY <1>7, <2>1 DEF PickFree
    <3>2. /\ free'[f].cur = b /\ free'[f].hosts = PodOf(b)
          /\ \A g \in Freers : g # f => free'[g] = free[g]
      BY <3>1 DEF TypeOK
    <3>3. /\ \A g \in Freers : free[g].hosts \cap PodOf(b) \subseteq contended'
          /\ web.op = "release" => PodOf(b) \cap web.todo \subseteq contended'
      BY <3>1 DEF LoadedByFree, LoadedByWeb
    <3>. QED BY <3>1, <3>2, <3>3 DEF PodOf
  <2>2. CASE b \notin bundles
    <3>1. UNCHANGED <<bundle, resource, phase, web, contended>>
      BY <1>7, <2>2 DEF PickFree
    <3>2. /\ free'[f] = IdleFree /\ \A g \in Freers : g # f => free'[g] = free[g]
      BY <1>7, <2>2 DEF PickFree, TypeOK
    <3>. QED BY <3>1, <3>2 DEF IdleFree
  <2>. QED BY <2>1, <2>2
<1>8. ASSUME NEW f \in Freers, NEW h \in Hosts, FreeHost(f, h) PROVE InvReleases'
  <2>1. /\ h \in free[f].hosts /\ free[f].cur # None
        /\ UNCHANGED <<web, resource, phase, contended>>
    BY <1>8 DEF FreeHost
  <2>2. \A g \in Hosts : bundle'[g] = IF g = h THEN None ELSE bundle[g]
    BY <1>8 DEF FreeHost, ReleaseHost, TypeOK
  <2>3. /\ free'[f].cur = free[f].cur /\ free'[f].hosts = free[f].hosts \ {h}
        /\ \A g \in Freers : g # f => free'[g] = free[g]
    BY <1>8 DEF FreeHost, TypeOK, Frees
  <2>. QED BY <1>0, <2>1, <2>2, <2>3
<1>9. ASSUME NEW f \in Freers, FreeBundle(f) PROVE InvReleases'
  <2>1. /\ free[f].cur # None /\ free[f].hosts = {}
        /\ resource' \subseteq resource /\ UNCHANGED <<web, phase, contended>>
    BY <1>9 DEF FreeBundle, DeleteBundle
  <2>2. \A h \in Hosts : bundle'[h] = IF bundle[h] = free[f].cur THEN None ELSE bundle[h]
    BY <1>9 DEF FreeBundle, DeleteBundle
  <2>3. /\ free'[f].cur = None /\ free'[f].hosts = {}
        /\ \A g \in Freers : g # f => free'[g] = free[g]
    BY <1>9 DEF FreeBundle, TypeOK, Frees
  <2>. QED BY <1>0, <2>1, <2>2, <2>3
<1>10. ASSUME NEW f \in Freers, StartFree(f) \/ FreeCrash(f) PROVE InvReleases'
  <2>1. /\ free'[f].cur = None /\ free'[f].hosts = {}
        /\ \A g \in Freers : g # f => free'[g] = free[g]
    <3>1. CASE StartFree(f)
      BY <3>1 DEF StartFree, IdleFree, TypeOK, Frees
    <3>2. CASE FreeCrash(f)
      BY <3>2 DEF FreeCrash, IdleFree, TypeOK, Frees
    <3>. QED BY <1>10, <3>1, <3>2
  <2>2. UNCHANGED <<web, bundle, resource, phase, contended>>
    BY <1>10 DEF StartFree, FreeCrash
  <2>. QED BY <2>1, <2>2
<1>11. CASE FinishUpdateHost
  <2>1. /\ web'.op = "idle" /\ UNCHANGED <<free, resource, phase>>
        /\ contended \subseteq contended'
    BY <1>11 DEF FinishUpdateHost, IdleWeb
  <2>2. \A h \in Hosts : bundle'[h] = bundle[h] \/ h \in contended'
    BY <1>11 DEF FinishUpdateHost, TypeOK
  <2>. QED BY <1>1, <2>1, <2>2
<1>12. ASSUME NEW made, NEW hw, NEW net, FinishBooking(made, hw, net) PROVE InvReleases'
  BY <1>12 DEF FinishBooking, IdleWeb
<1>13. CASE DeleteBookingRow
  BY <1>13 DEF DeleteBookingRow, IdleWeb
<1>14. CASE FailBooking \/ FinishReimage \/ WebCrash
  BY <1>14 DEF FailBooking, FinishReimage, WebCrash, IdleWeb
<1>15. ASSUME NEW b \in Bookings, EndBooking(b) PROVE InvReleases'
  BY <1>1, <1>15 DEF EndBooking, TypeOK
<1>16. ASSUME NEW b \in Bookings, NEW n, StartBooking(b, n) PROVE InvReleases'
  BY <1>1, <1>16 DEF StartBooking, IdleWeb
<1>17. ASSUME NEW b \in Bookings, DeleteReleased(b) PROVE InvReleases'
  BY <1>1, <1>17 DEF DeleteReleased
<1>18. ASSUME NEW b \in Bookings, NEW h \in Hosts, StartReimage(b, h) PROVE InvReleases'
  BY <1>1, <1>18 DEF StartReimage, IdleWeb
<1>19. ASSUME NEW h \in Hosts, StartUpdateHost(h) PROVE InvReleases'
  BY <1>1, <1>19 DEF StartUpdateHost, IdleWeb
<1>20. ASSUME NEW h \in Hosts, AcquireHost(h) PROVE InvReleases'
  BY <1>1, <1>20 DEF AcquireHost, TypeOK, Webs
<1>21. ASSUME NEW p \in Pollers, PollStep(p) \/ PollCrash(p) PROVE InvReleases'
  BY <1>1, <1>21 DEF PollStep, PollCrash, StartPoll, PickCleanup, CleanupRelation, CompleteJob
<1>22. CASE LabStep
  BY <1>1, <1>22 DEF LabStep, FetchTask, ReportTask
<1>23. CASE UNCHANGED vars
  BY <1>1, <1>23 DEF vars
<1>. QED
  BY <1>2, <1>3, <1>4, <1>5, <1>6, <1>7, <1>8, <1>9, <1>10, <1>11, <1>12, <1>13, <1>14,
     <1>15, <1>16, <1>17, <1>18, <1>19, <1>20, <1>21, <1>22, <1>23
     DEF Next, WebRequest, WebProgress, FreeStep, Crash

----------------------------------------------------------------------------
(* An active booking keeps its machines.                                   *)
LEMMA KeepHostsStep ==
  /\ TypeOK /\ InvUntouched /\ InvRows /\ InvTasks /\ InvReleases
  /\ ActiveBookingsKeepHosts /\ [Next]_vars
  => ActiveBookingsKeepHosts'
<1>. SUFFICES ASSUME TypeOK, InvUntouched, InvRows, InvTasks, InvReleases,
                     ActiveBookingsKeepHosts, [Next]_vars
              PROVE  ActiveBookingsKeepHosts'
  OBVIOUS
<1>. USE NoneAssumption
     DEF ActiveBookingsKeepHosts, Relations, rowVars, taskVars, labVars, histVars
<1>1. ASSUME contended \subseteq contended', resource' \subseteq resource,
             \A b \in Bookings : phase'[b] = "active" => phase[b] = "active",
             \A b \in Bookings, h \in Hosts :
               status'[<<b, "hardware", h>>] # "absent" => status[<<b, "hardware", h>>] # "absent",
             \A h \in Hosts :
               \/ bundle'[h] = bundle[h]
               \/ h \in contended'
               \/ bundle[h] = None
               \/ phase[bundle[h]] # "active"
               \/ bundle[h] \notin resource
      PROVE ActiveBookingsKeepHosts'
  BY <1>1
<1>2. ASSUME NEW made \in {"none", "open"}, NEW hw \in SUBSET Hosts, NEW net \in SUBSET Hosts,
             FinishBooking(made, hw, net)
      PROVE ActiveBookingsKeepHosts'
  <2>1. /\ web.b \in Bookings /\ job[web.b] = "none"
        /\ \A h \in Hosts : status[<<web.b, "hardware", h>>] = "absent"
    BY <1>2 DEF FinishBooking, InvUntouched, InvTasks, TypeOK, Kinds
  <2>2. /\ hw \subseteq PodOf(web.b) /\ UNCHANGED <<bundle, contended>>
        /\ resource' = resource \cup {web.b}
        /\ \A b \in Bookings : b # web.b => phase'[b] = phase[b]
    BY <1>2 DEF FinishBooking, TypeOK
  <2>3. ASSUME NEW b \in Bookings, NEW h \in Hosts
        PROVE status'[<<b, "hardware", h>>] =
                IF b = web.b /\ h \in hw THEN "NEW" ELSE status[<<b, "hardware", h>>]
    BY <1>2 DEF FinishBooking, Tasks, Kinds
  <2>. QED BY <2>1, <2>2, <2>3 DEF PodOf
<1>3. CASE AttachHost
  BY <1>1, <1>3 DEF AttachHost, InvRows, TypeOK
<1>4. CASE FailAcquire
  <2>1. /\ phase[web.b] = "unused" /\ web.b \in Bookings
        /\ web.h = None \/ bundle[web.h] = None
    BY <1>4 DEF FailAcquire, InvUntouched, InvRows, TypeOK
  <2>. QED BY <1>1, <1>4, <2>1 DEF FailAcquire, PodOf, TypeOK
<1>5. ASSUME NEW h \in Hosts, WebReleaseHost(h) PROVE ActiveBookingsKeepHosts'
  <2>1. bundle[h] \notin resource \/ h \in contended
    BY <1>5 DEF WebReleaseHost, InvReleases
  <2>. QED BY <1>1, <1>5, <2>1 DEF WebReleaseHost, ReleaseHost, TypeOK
<1>6. CASE WebDeleteBundle
  <2>1. web.b \notin resource
    BY <1>6 DEF WebDeleteBundle, InvReleases
  <2>. QED BY <1>1, <1>6, <2>1 DEF WebDeleteBundle, DeleteBundle
<1>7. ASSUME NEW f \in Freers, NEW h \in Hosts, FreeHost(f, h) PROVE ActiveBookingsKeepHosts'
  <2>1. free[f].cur \in Bookings
    BY <1>7 DEF FreeHost, InvReleases, TypeOK, Frees
  <2>2. phase[free[f].cur] # "active"
    BY <2>1 DEF InvUntouched, Untouched, Listed
  <2>3. bundle[h] = free[f].cur \/ h \in contended
    BY <1>7 DEF FreeHost, InvReleases
  <2>. QED BY <1>1, <1>7, <2>2, <2>3 DEF FreeHost, ReleaseHost, TypeOK
<1>8. ASSUME NEW f \in Freers, FreeBundle(f) PROVE ActiveBookingsKeepHosts'
  <2>1. free[f].cur \in Bookings
    BY <1>8 DEF FreeBundle, TypeOK, Frees
  <2>2. phase[free[f].cur] # "active"
    BY <2>1 DEF InvUntouched, Untouched, Listed
  <2>. QED BY <1>1, <1>8, <2>2 DEF FreeBundle, DeleteBundle
<1>9. CASE FinishUpdateHost
  <2>1. \A h \in Hosts : bundle'[h] = bundle[h] \/ h \in contended'
    BY <1>9 DEF FinishUpdateHost, TypeOK
  <2>. QED BY <1>1, <1>9, <2>1 DEF FinishUpdateHost
<1>10. CASE DeleteBookingRow
  BY <1>1, <1>10 DEF DeleteBookingRow, TypeOK, Tasks, Kinds
<1>11. CASE FinishReimage
  <2>1. status[<<web.b, "hardware", web.h>>] # "absent"
    BY <1>11 DEF FinishReimage, InvTasks, Kinds
  <2>2. \A b \in Bookings, h \in Hosts :
          status'[<<b, "hardware", h>>] # "absent" => status[<<b, "hardware", h>>] # "absent"
    BY <1>11, <2>1 DEF FinishReimage, TypeOK, Tasks, Kinds
  <2>. QED BY <1>1, <1>11, <2>2 DEF FinishReimage
<1>12. ASSUME NEW p \in Pollers, NEW k \in Kinds, NEW h \in Hosts, CleanupRelation(p, k, h)
       PROVE ActiveBookingsKeepHosts'
  <2>1. \A b \in Bookings, g \in Hosts :
          status'[<<b, "hardware", g>>] # "absent" => status[<<b, "hardware", g>>] # "absent"
    BY <1>12 DEF CleanupRelation, TypeOK, Tasks, Kinds
  <2>. QED BY <1>1, <1>12, <2>1 DEF CleanupRelation
<1>13. ASSUME NEW t \in Tasks, FetchTask(t) PROVE ActiveBookingsKeepHosts'
  BY <1>1, <1>13 DEF FetchTask, TypeOK, Tasks, Kinds
<1>14. ASSUME NEW w \in hand, NEW s \in LabOutcomes, ReportTask(w, s)
       PROVE ActiveBookingsKeepHosts'
  BY <1>1, <1>14 DEF ReportTask, TypeOK, Tasks, Kinds
<1>15. ASSUME NEW b \in Bookings,
              \/ EndBooking(b) \/ DeleteBooking(b) \/ DeleteReleased(b)
              \/ \E n \in PodSizes : StartBooking(b, n)
              \/ \E h \in Hosts : StartReimage(b, h)
       PROVE ActiveBookingsKeepHosts'
  <2>1. CASE EndBooking(b)
    BY <1>1, <2>1 DEF EndBooking, TypeOK
  <2>2. CASE ~EndBooking(b)
    BY <1>1, <1>15, <2>2 DEF DeleteBooking, DeleteReleased, StartBooking, StartReimage
  <2>. QED BY <2>1, <2>2
<1>16. ASSUME NEW h \in Hosts, AcquireHost(h) \/ StartUpdateHost(h)
       PROVE ActiveBookingsKeepHosts'
  BY <1>1, <1>16 DEF AcquireHost, StartUpdateHost
<1>17. CASE FailBooking \/ WebCrash
  BY <1>1, <1>17 DEF FailBooking, WebCrash, TypeOK
<1>18. ASSUME NEW p \in Pollers,
              \/ StartPoll(p) \/ CompleteJob(p) \/ PollCrash(p)
              \/ \E b \in Bookings : PickCleanup(p, b)
       PROVE ActiveBookingsKeepHosts'
  BY <1>1, <1>18 DEF StartPoll, CompleteJob, PollCrash, PickCleanup
<1>19. ASSUME NEW f \in Freers,
              StartFree(f) \/ FreeCrash(f) \/ \E b \in Bookings : PickFree(f, b)
       PROVE ActiveBookingsKeepHosts'
  BY <1>1, <1>19 DEF StartFree, FreeCrash, PickFree
<1>20. CASE UNCHANGED vars
  BY <1>20 DEF vars
<1>. QED
  BY <1>2, <1>3, <1>4, <1>5, <1>6, <1>7, <1>8, <1>9, <1>10, <1>11, <1>12, <1>13, <1>14,
     <1>15, <1>16, <1>17, <1>18, <1>19, <1>20
     DEF Next, WebRequest, WebProgress, PollStep, FreeStep, LabStep, Crash

----------------------------------------------------------------------------
(* A booking picked for release stays settled.                             *)
LEMMA SettledStep ==
  /\ TypeOK /\ InvUntouched /\ InvTasks /\ InvPolls
  /\ SelectedJobsStaySettled /\ [Next]_vars
  => SelectedJobsStaySettled'
<1>. SUFFICES ASSUME TypeOK, InvUntouched, InvTasks, InvPolls, SelectedJobsStaySettled,
                     [Next]_vars
              PROVE  SelectedJobsStaySettled'
  OBVIOUS
<1>. USE NoneAssumption
     DEF SelectedJobsStaySettled, UndoneJob, UndoneOf, rowVars, taskVars, labVars, histVars
<1>0. \A f \in Freers : Listed(free[f]) \subseteq Bookings
  BY DEF TypeOK, Frees, Listed
<1>1. ASSUME \A f \in Freers : Listed(free'[f]) \subseteq Listed(free[f]),
             raced \subseteq raced',
             \A b \in Bookings, k \in Kinds, h \in Hosts :
               \/ status'[<<b, k, h>>] = status[<<b, k, h>>]
               \/ status'[<<b, k, h>>] \in Undone => status[<<b, k, h>>] \in Undone
               \/ b \in raced'
               \/ \A f \in Freers : b \notin Listed(free[f])
      PROVE SelectedJobsStaySettled'
  BY <1>0, <1>1
<1>2. ASSUME NEW made \in {"none", "open"}, NEW hw \in SUBSET Hosts, NEW net \in SUBSET Hosts,
             FinishBooking(made, hw, net)
      PROVE SelectedJobsStaySettled'
  <2>1. \A f \in Freers : web.b \notin Listed(free[f])
    BY <1>2 DEF FinishBooking, InvUntouched, Untouched, TypeOK
  <2>2. \A b \in Bookings, k \in Kinds, h \in Hosts :
          b # web.b => status'[<<b, k, h>>] = status[<<b, k, h>>]
    BY <1>2 DEF FinishBooking, Tasks
  <2>3. UNCHANGED <<raced, free>>
    BY <1>2 DEF FinishBooking
  <2>. QED BY <1>1, <2>1, <2>2, <2>3
<1>3. CASE FinishReimage
  <2>1. web.b \in Bookings /\ (phase[web.b] = "active" \/ web.b \in raced')
    BY <1>3 DEF FinishReimage, TypeOK
  <2>2. web.b \in raced' \/ \A f \in Freers : web.b \notin Listed(free[f])
    BY <2>1 DEF InvUntouched, Untouched
  <2>3. \A b \in Bookings, k \in Kinds, h \in Hosts :
          b # web.b => status'[<<b, k, h>>] = status[<<b, k, h>>]
    BY <1>3 DEF FinishReimage, TypeOK, Tasks
  <2>4. raced \subseteq raced' /\ UNCHANGED free
    BY <1>3 DEF FinishReimage
  <2>. QED BY <1>1, <2>2, <2>3, <2>4
<1>4. CASE DeleteBookingRow
  <2>1. \A b \in Bookings, k \in Kinds, h \in Hosts :
          status'[<<b, k, h>>] \in Undone => status[<<b, k, h>>] \in Undone
    BY <1>4 DEF DeleteBookingRow, Tasks, Undone
  <2>. QED BY <1>1, <1>4, <2>1 DEF DeleteBookingRow
<1>5. ASSUME NEW p \in Pollers, NEW k \in Kinds, NEW h \in Hosts, CleanupRelation(p, k, h)
      PROVE SelectedJobsStaySettled'
  <2>. DEFINE c == poll[p].cur
  <2>1. c \in Bookings /\ UNCHANGED <<raced, free>>
    BY <1>5 DEF CleanupRelation, TypeOK, Polls
  <2>2. CASE job[c] = "none"
    <3>1. status[<<c, k, h>>] = "absent"
      BY <2>1, <2>2 DEF InvTasks
    <3>. QED BY <1>1, <1>5, <2>1, <3>1 DEF CleanupRelation
  <2>3. CASE job[c] # "none"
    <3>1. c \in raced \/ \A f \in Freers : c \notin Listed(free[f])
      BY <1>5, <2>1, <2>3 DEF InvPolls, TypeOK
    <3>2. \A b \in Bookings, l \in Kinds, g \in Hosts :
            b # c => status'[<<b, l, g>>] = status[<<b, l, g>>]
      BY <1>5 DEF CleanupRelation, TypeOK, Tasks
    <3>. QED BY <1>1, <2>1, <3>1, <3>2
  <2>. QED BY <2>2, <2>3
<1>6. ASSUME NEW t \in Tasks, FetchTask(t) PROVE SelectedJobsStaySettled'
  <2>1. \A b \in Bookings, k \in Kinds, h \in Hosts :
          status'[<<b, k, h>>] \in Undone => status[<<b, k, h>>] \in Undone
    BY <1>6 DEF FetchTask, TypeOK, Tasks, Undone
  <2>. QED BY <1>1, <1>6, <2>1 DEF FetchTask
<1>7. ASSUME NEW w \in hand, NEW s \in LabOutcomes, ReportTask(w, s)
      PROVE SelectedJobsStaySettled'
  <2>1. \A b \in Bookings, k \in Kinds, h \in Hosts :
          status'[<<b, k, h>>] \in Undone => status[<<b, k, h>>] \in Undone
    <3>1. w.task \in Tasks /\ status[w.task] \in {"absent", "NEW", "CURRENT"}
      BY <1>7 DEF InvTasks, TypeOK
    <3>2. \A t \in Tasks : status'[t] # status[t] => t = w.task /\ status[t] # "absent"
      BY <1>7 DEF ReportTask, TypeOK
    <3>. QED BY <3>1, <3>2 DEF Tasks, Undone
  <2>. QED BY <1>1, <1>7, <2>1 DEF ReportTask
<1>8. ASSUME NEW f \in Freers, StartFree(f) PROVE SelectedJobsStaySettled'
  <2>1. /\ UNCHANGED <<status, raced>>
        /\ \A g \in Freers : g # f => free'[g] = free[g]
        /\ free'[f].todo = {b \in Bookings : NeedsFreeing(b)} /\ free'[f].cur = None
    BY <1>8 DEF StartFree, IdleFree, TypeOK, Frees
  <2>2. \A b \in Listed(free'[f]) : ~UndoneJob(b)
    <3>. HIDE DEF UndoneJob
    <3>. QED BY <2>1 DEF Listed, NeedsFreeing
  <2>. QED BY <2>1, <2>2
<1>9. ASSUME NEW f \in Freers,
             \/ \E b \in Bookings : PickFree(f, b)
             \/ \E h \in Hosts : FreeHost(f, h)
             \/ FreeBundle(f)
             \/ FreeCrash(f)
      PROVE SelectedJobsStaySettled'
  <2>1. \A g \in Freers : Listed(free'[g]) \subseteq Listed(free[g])
    BY <1>9, FreeListsShrink
  <2>. QED BY <1>1, <1>9, <2>1 DEF PickFree, FreeHost, FreeBundle, FreeCrash
<1>10. ASSUME UNCHANGED <<free, status>>, raced \subseteq raced' PROVE SelectedJobsStaySettled'
  BY <1>10
<1>11. ASSUME NEW p \in Pollers,
              \/ StartPoll(p) \/ CompleteJob(p) \/ PollCrash(p)
              \/ \E b \in Bookings : PickCleanup(p, b)
       PROVE SelectedJobsStaySettled'
  BY <1>10, <1>11 DEF StartPoll, CompleteJob, PollCrash, PickCleanup
<1>12. CASE WebRequest
  BY <1>10, <1>12 DEF WebRequest, StartBooking, DeleteBooking, DeleteReleased, StartReimage,
                      StartUpdateHost
<1>13. ASSUME NEW h \in Hosts, AcquireHost(h) \/ WebReleaseHost(h) PROVE SelectedJobsStaySettled'
  BY <1>10, <1>13 DEF AcquireHost, WebReleaseHost
<1>14. CASE AttachHost \/ FailAcquire \/ FailBooking \/ WebDeleteBundle \/ FinishUpdateHost
            \/ WebCrash
  BY <1>10, <1>14 DEF AttachHost, FailAcquire, FailBooking, WebDeleteBundle, FinishUpdateHost,
                      WebCrash
<1>15. ASSUME NEW b \in Bookings, EndBooking(b) PROVE SelectedJobsStaySettled'
  BY <1>10, <1>15 DEF EndBooking
<1>16. CASE UNCHANGED vars
  BY <1>10, <1>16 DEF vars
<1>. QED
  BY <1>2, <1>3, <1>4, <1>5, <1>6, <1>7, <1>8, <1>9, <1>11, <1>12, <1>13, <1>14, <1>15, <1>16
     DEF Next, WebProgress, PollStep, FreeStep, LabStep, Crash

----------------------------------------------------------------------------
(* DONE cleanups left the machine clean.                                   *)
LEMMA CleanStep ==
  TypeOK /\ InvUntouched /\ InvTasks /\ DoneMeansClean /\ [Next]_vars => DoneMeansClean'
<1>. SUFFICES ASSUME TypeOK, InvUntouched, InvTasks, DoneMeansClean, [Next]_vars
              PROVE  DoneMeansClean'
  OBVIOUS
<1>. USE NoneAssumption DEF DoneMeansClean, rowVars, taskVars, labVars, histVars
<1>1. ASSUME UNCHANGED applied, raced \subseteq raced',
             \A t \in Tasks :
               \/ status'[t] = status[t] /\ delta'[t] = delta[t]
               \/ status'[t] # "DONE"
      PROVE DoneMeansClean'
  BY <1>1
<1>2. ASSUME NEW made, NEW hw, NEW net, FinishBooking(made, hw, net) PROVE DoneMeansClean'
  <2>1. \A t \in Tasks : status'[t] = status[t] \/ status'[t] # "DONE"
    BY <1>2 DEF FinishBooking
  <2>. QED BY <1>1, <1>2, <2>1 DEF FinishBooking
<1>3. CASE DeleteBookingRow
  BY <1>1, <1>3 DEF DeleteBookingRow
<1>4. CASE FinishReimage
  <2>. DEFINE u == <<web.b, "hardware", web.h>>
              v == <<web.b, "network", web.h>>
  <2>1. /\ status' = [status EXCEPT ![u] = "NEW", ![v] = "NEW"]
        /\ delta' = [delta EXCEPT ![u] = "deploy"]
        /\ raced \subseteq raced' /\ UNCHANGED applied
    BY <1>4 DEF FinishReimage
  <2>. HIDE DEF u, v
  <2>. QED BY <1>1, <2>1 DEF TypeOK
<1>5. ASSUME NEW p \in Pollers, NEW k \in Kinds, NEW h \in Hosts, CleanupRelation(p, k, h)
      PROVE DoneMeansClean'
  <2>1. \A t \in Tasks :
          \/ status'[t] = status[t] /\ delta'[t] = delta[t]
          \/ status'[t] = "NEW"
    BY <1>5 DEF CleanupRelation, TypeOK
  <2>. QED BY <1>1, <1>5, <2>1 DEF CleanupRelation
<1>6. ASSUME NEW t \in Tasks, FetchTask(t) PROVE DoneMeansClean'
  BY <1>1, <1>6 DEF FetchTask, TypeOK
<1>7. ASSUME NEW w \in hand, NEW s \in LabOutcomes, ReportTask(w, s) PROVE DoneMeansClean'
  <2>. DEFINE u == w.task
              m == <<u[2], u[3]>>
  <2>1. /\ u \in Tasks /\ u[1] \in Bookings /\ w.delta \in Deltas
        /\ m \in Kinds \X Hosts
    BY DEF TypeOK, Tasks
  <2>2. /\ raced' = IF w.delta # delta[u] THEN raced \cup {u[1]} ELSE raced
        /\ delta' = delta
        /\ \A t \in Tasks : t # u => status'[t] = status[t]
        /\ s # "DONE" => applied' = applied /\ (status'[u] # "DONE" \/ UNCHANGED status)
    BY <1>7, <2>1 DEF ReportTask, TypeOK
  <2>3. status[u] # "DONE"
    BY <2>1 DEF InvTasks
  <2>4. CASE s # "DONE"
    BY <2>2, <2>3, <2>4
  <2>5. CASE s = "DONE"
    <3>1. applied' = [applied EXCEPT ![m] = IF w.delta = "deploy" THEN u[1] ELSE Clean]
      BY <1>7, <2>5 DEF ReportTask
    <3>2. ASSUME NEW t \in Tasks, status'[t] = "DONE", delta'[t] = "cleanup", t[1] \notin raced'
          PROVE applied'[<<t[2], t[3]>>] # t[1]
      <4>1. t[1] \in Bookings /\ <<t[2], t[3]>> \in Kinds \X Hosts /\ t = <<t[1], t[2], t[3]>>
            /\ u = <<u[1], u[2], u[3]>>
        BY <2>1 DEF Tasks
      <4>2. CASE t = u
        <5>1. w.delta = "cleanup"
          BY <2>2, <3>2, <4>2 DEF Deltas
        <5>. QED BY <2>1, <3>1, <4>1, <4>2, <5>1 DEF TypeOK
      <4>3. CASE t # u
        <5>1. applied[<<t[2], t[3]>>] # t[1]
          BY <2>2, <3>2, <4>3
        <5>2. CASE <<t[2], t[3]>> = m
          <6>1. t[1] # u[1]
            BY <4>1, <4>3, <5>2
          <6>. QED BY <2>1, <3>1, <4>1, <5>2, <6>1 DEF TypeOK
        <5>3. CASE <<t[2], t[3]>> # m
          BY <2>1, <3>1, <4>1, <5>1, <5>3 DEF TypeOK
        <5>. QED BY <5>2, <5>3
      <4>. QED BY <4>2, <4>3
    <3>. QED BY <3>2
  <2>. QED BY <2>4, <2>5
<1>8. ASSUME UNCHANGED <<status, delta, applied>>, raced \subseteq raced' PROVE DoneMeansClean'
  BY <1>8
<1>9. ASSUME NEW p \in Pollers,
             \/ StartPoll(p) \/ CompleteJob(p) \/ PollCrash(p)
             \/ \E b \in Bookings : PickCleanup(p, b)
      PROVE DoneMeansClean'
  BY <1>8, <1>9 DEF StartPoll, CompleteJob, PollCrash, PickCleanup
<1>10. ASSUME NEW f \in Freers, FreeStep(f) \/ FreeCrash(f) PROVE DoneMeansClean'
  BY <1>8, <1>10 DEF FreeStep, StartFree, PickFree, FreeHost, FreeBundle, FreeCrash
<1>11. CASE WebRequest
  BY <1>8, <1>11 DEF WebRequest, StartBooking, DeleteBooking, DeleteReleased, StartReimage,
                     StartUpdateHost
<1>12. ASSUME NEW h \in Hosts, AcquireHost(h) \/ WebReleaseHost(h) PROVE DoneMeansClean'
  BY <1>8, <1>12 DEF AcquireHost, WebReleaseHost
<1>13. CASE AttachHost \/ FailAcquire \/ FailBooking \/ WebDeleteBundle \/ FinishUpdateHost
            \/ WebCrash
  BY <1>8, <1>13 DEF AttachHost, FailAcquire, FailBooking, WebDeleteBundle, FinishUpdateHost,
                     WebCrash
<1>14. ASSUME NEW b \in Bookings, EndBooking(b) PROVE DoneMeansClean'
  BY <1>8, <1>14 DEF EndBooking
<1>15. CASE UNCHANGED vars
  BY <1>8, <1>15 DEF vars
<1>. QED
  BY <1>2, <1>3, <1>4, <1>5, <1>6, <1>7, <1>9, <1>10, <1>11, <1>12, <1>13, <1>14, <1>15
     DEF Next, WebProgress, PollStep, LabStep, Crash

----------------------------------------------------------------------------
(* No booked machine is forgotten.                                         *)
LEMMA AccountedStep ==
  /\ TypeOK /\ InvUntouched /\ InvRows /\ InvReleases
  /\ BookedHostsAccountedFor /\ [Next]_vars
  => BookedHostsAccountedFor'
<1>. SUFFICES ASSUME TypeOK, InvUntouched, InvRows, InvReleases,
                     BookedHostsAccountedFor, [Next]_vars
              PROVE  BookedHostsAccountedFor'
  OBVIOUS
<1>. USE NoneAssumption, CrashesAssumption
     DEF BookedHostsAccountedFor, rowVars, taskVars, labVars, histVars
<1>0. /\ booked \subseteq Hosts /\ \A h \in Hosts : bundle[h] \in Bookings \cup {None}
      /\ crashes["web"] \in Nat
  BY DEF TypeOK
<1>1. ASSUME UNCHANGED <<bundle, resource>>, booked' \subseteq booked,
             contended \subseteq contended', crashes["web"] > 0 => crashes'["web"] > 0,
             \A b \in Bookings : phase[b] = "failed" => phase'[b] = "failed",
             \/ web' = web
             \/ web.op \notin {"acquire", "attach", "release"}
             \/ (web.op = "acquire" /\ phase'[web.b] = "failed")
      PROVE BookedHostsAccountedFor'
  BY <1>0, <1>1
<1>2. ASSUME NEW h \in Hosts, AcquireHost(h) PROVE BookedHostsAccountedFor'
  <2>1. /\ web.op = "acquire" /\ web'.op = "attach" /\ web'.h = h /\ web'.b = web.b
        /\ booked' = booked \cup {h}
        /\ UNCHANGED <<bundle, resource, phase, crashes, contended>>
    BY <1>2 DEF AcquireHost, TypeOK, Webs
  <2>. QED BY <1>0, <2>1
<1>3. CASE AttachHost
  <2>1. /\ web.op = "attach" /\ web.b \in Bookings /\ web.h \in Hosts
        /\ web'.op = "acquire" /\ web'.b = web.b
        /\ booked' = booked \cup {web.h}
        /\ \A g \in Hosts : bundle'[g] = IF g = web.h THEN web.b ELSE bundle[g]
        /\ UNCHANGED <<resource, phase, crashes, contended>>
    BY <1>3 DEF AttachHost, TypeOK, Webs
  <2>. QED BY <1>0, <2>1
<1>4. CASE FailAcquire
  <2>1. /\ web.b \in Bookings /\ booked' = booked \ (PodOf(web.b) \cup {web.h})
        /\ web.op \in {"acquire", "attach"} /\ phase[web.b] = "unused"
        /\ \A g \in booked' : bundle'[g] = bundle[g]
        /\ \A b \in Bookings : b # web.b => phase'[b] = phase[b]
        /\ UNCHANGED <<resource, crashes, contended>>
    BY <1>0, <1>4 DEF FailAcquire, InvUntouched, TypeOK
  <2>. QED BY <1>0, <2>1 DEF PodOf
<1>5. CASE FailBooking
  BY <1>1, <1>5 DEF FailBooking, TypeOK
<1>6. ASSUME NEW made, NEW hw, NEW net, FinishBooking(made, hw, net)
      PROVE BookedHostsAccountedFor'
  <2>1. /\ web.op = "acquire" /\ web.b \in Bookings /\ phase[web.b] = "unused"
        /\ resource' = resource \cup {web.b}
        /\ \A b \in Bookings : b # web.b => phase'[b] = phase[b]
        /\ UNCHANGED <<booked, bundle, crashes, contended>>
    BY <1>6 DEF FinishBooking, InvUntouched, TypeOK
  <2>. QED BY <1>0, <2>1
<1>7. ASSUME NEW b \in Bookings, EndBooking(b) PROVE BookedHostsAccountedFor'
  BY <1>0, <1>7 DEF EndBooking, TypeOK
<1>8. ASSUME NEW b \in Bookings, DeleteBooking(b) PROVE BookedHostsAccountedFor'
  <2>1. /\ web.op = "idle" /\ web'.op = "release" /\ web'.b = b
        /\ resource' = resource \ {b} /\ contended \subseteq contended'
        /\ UNCHANGED <<booked, bundle, phase, crashes>>
    BY <1>8 DEF DeleteBooking, WebIdle, IdleWeb
  <2>. QED BY <1>0, <2>1
<1>9. ASSUME NEW h \in Hosts, WebReleaseHost(h) PROVE BookedHostsAccountedFor'
  <2>1. /\ web.op = "release" /\ web'.op = "release" /\ web'.b = web.b
        /\ booked' = booked \ {h} /\ \A g \in Hosts : g # h => bundle'[g] = bundle[g]
        /\ UNCHANGED <<resource, phase, crashes, contended>>
    BY <1>9 DEF WebReleaseHost, ReleaseHost, TypeOK, Webs
  <2>. QED BY <1>0, <2>1
<1>10. CASE WebDeleteBundle
  <2>1. /\ web.op = "release" /\ web.todo = {} /\ web.b \notin resource
        /\ resource' = resource \ {web.b}
        /\ UNCHANGED <<booked, phase, crashes, contended>>
    BY <1>10 DEF WebDeleteBundle, DeleteBundle, InvReleases
  <2>2. \A h \in Hosts : bundle'[h] = IF bundle[h] = web.b THEN None ELSE bundle[h]
    BY <1>10 DEF WebDeleteBundle, DeleteBundle
  <2>3. \A h \in Hosts : bundle[h] = web.b => h \in contended
    BY <2>1 DEF InvReleases
  <2>. QED BY <1>0, <2>1, <2>2, <2>3
<1>11. CASE DeleteBookingRow
  <2>1. /\ web.op = "deleteRow" /\ web.b \in Bookings /\ phase[web.b] # "failed"
        /\ \A b \in Bookings : b # web.b => phase'[b] = phase[b]
    BY <1>11 DEF DeleteBookingRow, InvReleases, TypeOK
  <2>. QED BY <1>1, <1>11, <2>1 DEF DeleteBookingRow
<1>12. CASE FinishUpdateHost
  <2>1. /\ web.op = "update" /\ web.h \in Hosts /\ contended \subseteq contended'
        /\ \A g \in Hosts : g \notin contended' =>
                             bundle'[g] = bundle[g] /\ (g \in booked' => g \in booked)
        /\ booked' \subseteq Hosts
        /\ UNCHANGED <<resource, phase, crashes>>
    BY <1>0, <1>12 DEF FinishUpdateHost, TypeOK
  <2>. QED BY <1>0, <2>1
<1>13. CASE WebCrash
  BY <1>0, <1>13 DEF WebCrash, TypeOK
<1>14. ASSUME NEW f \in Freers, NEW h \in Hosts, FreeHost(f, h) PROVE BookedHostsAccountedFor'
  <2>1. /\ booked' = booked \ {h} /\ \A g \in Hosts : g # h => bundle'[g] = bundle[g]
        /\ UNCHANGED <<web, resource, phase, crashes, contended>>
    BY <1>14 DEF FreeHost, ReleaseHost, TypeOK
  <2>. QED BY <1>0, <2>1
<1>15. ASSUME NEW f \in Freers, FreeBundle(f) PROVE BookedHostsAccountedFor'
  <2>1. /\ free[f].cur # None /\ free[f].hosts = {}
        /\ resource' = resource \ {free[f].cur}
        /\ UNCHANGED <<web, booked, phase, crashes, contended>>
    BY <1>15 DEF FreeBundle, DeleteBundle
  <2>2. \A h \in Hosts : bundle'[h] = IF bundle[h] = free[f].cur THEN None ELSE bundle[h]
    BY <1>15 DEF FreeBundle, DeleteBundle
  <2>3. \A h \in Hosts : bundle[h] = free[f].cur => h \in contended
    BY <2>1 DEF InvReleases
  <2>. QED BY <1>0, <2>1, <2>2, <2>3
<1>16. ASSUME NEW f \in Freers,
              StartFree(f) \/ FreeCrash(f) \/ \E b \in Bookings : PickFree(f, b)
       PROVE BookedHostsAccountedFor'
  <2>1. CASE FreeCrash(f)
    BY <1>0, <1>1, <2>1 DEF FreeCrash, TypeOK
  <2>2. CASE StartFree(f) \/ \E b \in Bookings : PickFree(f, b)
    BY <1>0, <1>1, <2>2 DEF StartFree, PickFree
  <2>. QED BY <1>16, <2>1, <2>2
<1>17. ASSUME NEW p \in Pollers, PollStep(p) \/ PollCrash(p) PROVE BookedHostsAccountedFor'
  <2>1. CASE PollCrash(p)
    BY <1>0, <1>1, <2>1 DEF PollCrash, TypeOK
  <2>2. CASE PollStep(p)
    BY <1>0, <1>1, <2>2 DEF PollStep, StartPoll, PickCleanup, CleanupRelation, CompleteJob
  <2>. QED BY <1>17, <2>1, <2>2
<1>18. CASE LabStep
  BY <1>0, <1>1, <1>18 DEF LabStep, FetchTask, ReportTask
<1>19. ASSUME NEW b \in Bookings,
              \/ DeleteReleased(b)
              \/ \E n \in PodSizes : StartBooking(b, n)
              \/ \E h \in Hosts : StartReimage(b, h)
       PROVE BookedHostsAccountedFor'
  BY <1>0, <1>1, <1>19 DEF DeleteReleased, StartBooking, StartReimage, WebIdle
<1>20. ASSUME NEW h \in Hosts, StartUpdateHost(h) PROVE BookedHostsAccountedFor'
  BY <1>0, <1>1, <1>20 DEF StartUpdateHost, WebIdle
<1>21. CASE FinishReimage
  BY <1>0, <1>1, <1>21 DEF FinishReimage
<1>22. CASE UNCHANGED vars
  BY <1>22 DEF vars
<1>. QED
  BY <1>2, <1>3, <1>4, <1>5, <1>6, <1>7, <1>8, <1>9, <1>10, <1>11, <1>12, <1>13, <1>14,
     <1>15, <1>16, <1>17, <1>18, <1>19, <1>20, <1>21, <1>22
     DEF Next, WebRequest, WebProgress, FreeStep, Crash

----------------------------------------------------------------------------
(* The inductive invariant.                                                *)
THEOREM InductiveInvariant == Spec => []IInv
<1>1. Init => IInv
  <2>. SUFFICES ASSUME Init PROVE IInv
    OBVIOUS
  <2>1. TypeOK
    BY TypeInit
  <2>. QED
    BY <2>1, NoneAssumption
    DEF Init, IInv, InvUntouched, Untouched, Listed, InvRows, BundledHostsBooked, InvTasks, InvPolls,
        InvReleases, ActiveBookingsKeepHosts, SelectedJobsStaySettled, DoneMeansClean,
        BookedHostsAccountedFor, IdleWeb, IdlePoll, IdleFree, Tasks
<1>2. IInv /\ [Next]_vars => IInv'
  <2>. SUFFICES ASSUME IInv, [Next]_vars PROVE IInv'
    OBVIOUS
  <2>1. /\ TypeOK /\ InvUntouched /\ InvRows /\ InvTasks /\ InvPolls /\ InvReleases
        /\ ActiveBookingsKeepHosts /\ SelectedJobsStaySettled /\ DoneMeansClean
        /\ BookedHostsAccountedFor
    BY DEF IInv
  <2>2. TypeOK' /\ InvUntouched' /\ InvRows'
    BY <2>1, TypeStep, UntouchedStep, RowsStep
  <2>3. InvTasks' /\ InvPolls' /\ InvReleases'
    BY <2>1, TasksStep, PollsStep, ReleasesStep
  <2>4. ActiveBookingsKeepHosts' /\ SelectedJobsStaySettled'
    BY <2>1, KeepHostsStep, SettledStep
  <2>5. DoneMeansClean' /\ BookedHostsAccountedFor'
    BY <2>1, CleanStep, AccountedStep
  <2>. QED BY <2>2, <2>3, <2>4, <2>5 DEF IInv
<1>. QED BY <1>1, <1>2, PTL DEF Spec

(* Type correctness of the rows, requests and runs.                        *)
THEOREM TypeCorrect == Spec => []TypeOK
<1>1. IInv => TypeOK
  BY DEF IInv
<1>. QED BY <1>1, InductiveInvariant, PTL

(* acquireHost never takes a host that belongs to a pod.                   *)
THEOREM PodsBooked == Spec => []BundledHostsBooked
<1>1. IInv => BundledHostsBooked
  BY DEF IInv, InvRows
<1>. QED BY <1>1, InductiveInvariant, PTL

(* booking_poll and free_hosts leave a booking alone until its end.        *)
THEOREM CleanupWaits == Spec => []ActiveBookingsUntouched
<1>1. IInv => ActiveBookingsUntouched
  BY DEF IInv, InvUntouched, ActiveBookingsUntouched
<1>. QED BY <1>1, InductiveInvariant, PTL

(* Nobody takes a machine from an active booking, save by a stale row.     *)
THEOREM HostsKept == Spec => []ActiveBookingsKeepHosts
<1>1. IInv => ActiveBookingsKeepHosts
  BY DEF IInv
<1>. QED BY <1>1, InductiveInvariant, PTL

(* The filter of free_hosts still holds when the hosts are released.       *)
THEOREM FilterStable == Spec => []SelectedJobsStaySettled
<1>1. IInv => SelectedJobsStaySettled
  BY DEF IInv
<1>. QED BY <1>1, InductiveInvariant, PTL

(* A cleanup that is DONE was carried out on the machine.                  *)
THEOREM CleanupsTrue == Spec => []DoneMeansClean
<1>1. IInv => DoneMeansClean
  BY DEF IInv
<1>. QED BY <1>1, InductiveInvariant, PTL

(* A booked machine can be traced to the pod that will give it back, or to *)
(* one of the losses that BookedHostsAccountedFor names.                   *)
THEOREM NoHostForgotten == Spec => []BookedHostsAccountedFor
<1>1. IInv => BookedHostsAccountedFor
  BY DEF IInv
<1>. QED BY <1>1, InductiveInvariant, PTL

----------------------------------------------------------------------------
(* Every step of the dashboard is a step of the lease or leaves it alone.  *)
LEMMA LeaseStep == TypeOK /\ InvRows /\ [Next]_vars => [Lease!Next]_(Lease!lease)
<1>. SUFFICES ASSUME TypeOK, InvRows, [Next]_vars PROVE [Lease!Next]_(Lease!lease)
  OBVIOUS
<1>. USE NoneAssumption DEF rowVars, taskVars, labVars, histVars
<1>0. bundle = [h \in Hosts |-> bundle[h]] /\ booked \subseteq Hosts
  BY DEF TypeOK
<1>1. ASSUME NEW h \in Hosts, AcquireHost(h) PROVE Lease!Next
  BY <1>1 DEF AcquireHost, Lease!Next, Lease!Reserve
<1>2. ASSUME AttachHost PROVE Lease!Next
  <2>1. web.h \in Hosts /\ web.b \in Bookings
    BY <1>2 DEF AttachHost, TypeOK
  <2>2. Lease!Enter(web.h, web.b)
    BY <1>2 DEF AttachHost, InvRows, Lease!Enter
  <2>. QED BY <2>1, <2>2 DEF Lease!Next
<1>3. ASSUME FailAcquire PROVE Lease!Next
  <2>. DEFINE H == (PodOf(web.b) \cup {web.h}) \cap Hosts
  <2>1. Lease!Return(H)
    BY <1>0, <1>3 DEF FailAcquire, Lease!Return
  <2>. QED BY <2>1 DEF Lease!Next
<1>4. ASSUME NEW b \in Bookings, DeleteReleased(b) PROVE Lease!Next
  <2>1. bundle = [h \in Hosts |-> IF h \in PodOf(None) THEN None ELSE bundle[h]]
    BY <1>0 DEF PodOf
  <2>2. Lease!Return(PodOf(None))
    BY <1>4, <2>1 DEF DeleteReleased, Lease!Return
  <2>3. PodOf(None) \in SUBSET Hosts
    BY DEF PodOf
  <2>. QED BY <2>2, <2>3 DEF Lease!Next
<1>5. ASSUME NEW h \in Hosts, ReleaseHost(h) PROVE Lease!Next
  <2>1. Lease!Return({h})
    BY <1>0, <1>5 DEF ReleaseHost, Lease!Return
  <2>. QED BY <2>1 DEF Lease!Next
<1>6. ASSUME NEW h \in Hosts, WebReleaseHost(h) PROVE Lease!Next
  BY <1>5, <1>6 DEF WebReleaseHost
<1>7. ASSUME NEW f \in Freers, NEW h \in Hosts, FreeHost(f, h) PROVE Lease!Next
  BY <1>5, <1>7 DEF FreeHost
<1>8. ASSUME WebDeleteBundle PROVE Lease!Next
  <2>1. web.b \in Bookings
    BY <1>8 DEF WebDeleteBundle, TypeOK
  <2>2. Lease!Dissolve(web.b)
    BY <1>8 DEF WebDeleteBundle, DeleteBundle, Lease!Dissolve
  <2>. QED BY <2>1, <2>2 DEF Lease!Next
<1>9. ASSUME NEW f \in Freers, FreeBundle(f) PROVE Lease!Next
  <2>1. free[f].cur \in Bookings
    BY <1>9 DEF FreeBundle, TypeOK, Frees
  <2>2. Lease!Dissolve(free[f].cur)
    BY <1>9 DEF FreeBundle, DeleteBundle, Lease!Dissolve
  <2>. QED BY <2>1, <2>2 DEF Lease!Next
<1>10. ASSUME FinishUpdateHost PROVE [Lease!Next]_(Lease!lease)
  <2>. DEFINE h == web.h
              b == web.b
  <2>1. /\ h \in Hosts /\ b \in Bookings \cup {None} /\ bundle[h] \in {b, None}
        /\ h \in booked => web.wasBooked
        /\ b # None => web.wasBooked
        /\ bundle[h] # None => h \in booked
    BY <1>10 DEF FinishUpdateHost, TypeOK, Webs, InvRows, BundledHostsBooked
  <2>2. CASE UNCHANGED <<booked, bundle>>
    BY <2>2 DEF Lease!lease
  <2>3. CASE booked' # booked \/ bundle' # bundle
    <3>1. /\ bundle' = [bundle EXCEPT ![h] = b]
          /\ booked' = IF web.wasBooked THEN booked \cup {h} ELSE booked \ {h}
      BY <1>10, <2>3 DEF FinishUpdateHost
    <3>2. CASE b = None
      <4>1. bundle[h] = None /\ bundle' = bundle
        BY <1>0, <2>1, <3>1, <3>2
      <4>2. Lease!Reserve(h)
        BY <2>1, <2>3, <3>1, <4>1 DEF Lease!Reserve
      <4>. QED BY <2>1, <4>2 DEF Lease!Next
    <3>3. CASE b # None
      <4>1. booked' = booked \cup {h} /\ b \in Bookings
        BY <2>1, <3>1, <3>3
      <4>2. bundle[h] = None
        BY <1>0, <2>1, <2>3, <3>1, <4>1
      <4>3. Lease!Enter(h, b)
        BY <3>1, <4>1, <4>2 DEF Lease!Enter
      <4>. QED BY <2>1, <4>1, <4>3 DEF Lease!Next
    <3>. QED BY <3>2, <3>3
  <2>. QED BY <2>2, <2>3
<1>11. ASSUME UNCHANGED <<booked, bundle>> PROVE [Lease!Next]_(Lease!lease)
  BY <1>11 DEF Lease!lease
<1>12. ASSUME NEW b \in Bookings,
              \/ \E n \in PodSizes : StartBooking(b, n)
              \/ EndBooking(b) \/ DeleteBooking(b)
              \/ \E h \in Hosts : StartReimage(b, h)
       PROVE UNCHANGED <<booked, bundle>>
  BY <1>12 DEF StartBooking, EndBooking, DeleteBooking, StartReimage
<1>13. ASSUME NEW made, NEW hw, NEW net, FinishBooking(made, hw, net)
       PROVE UNCHANGED <<booked, bundle>>
  BY <1>13 DEF FinishBooking
<1>14. ASSUME FailBooking \/ DeleteBookingRow \/ FinishReimage \/ WebCrash
              \/ \E h \in Hosts : StartUpdateHost(h)
       PROVE UNCHANGED <<booked, bundle>>
  BY <1>14 DEF FailBooking, DeleteBookingRow, FinishReimage, WebCrash, StartUpdateHost
<1>15. ASSUME NEW p \in Pollers, PollStep(p) \/ PollCrash(p)
       PROVE UNCHANGED <<booked, bundle>>
  BY <1>15 DEF PollStep, PollCrash, StartPoll, PickCleanup, CleanupRelation, CompleteJob
<1>16. ASSUME NEW f \in Freers,
              StartFree(f) \/ (\E b \in Bookings : PickFree(f, b)) \/ FreeCrash(f)
       PROVE UNCHANGED <<booked, bundle>>
  BY <1>16 DEF StartFree, PickFree, FreeCrash
<1>17. ASSUME LabStep \/ UNCHANGED vars PROVE UNCHANGED <<booked, bundle>>
  BY <1>17 DEF LabStep, FetchTask, ReportTask, vars
<1>. QED
  BY <1>1, <1>2, <1>3, <1>4, <1>6, <1>7, <1>8, <1>9, <1>10, <1>11, <1>12, <1>13, <1>14,
     <1>15, <1>16, <1>17
     DEF Next, WebRequest, WebProgress, FreeStep, Crash

(* The dashboard implements the lease: a machine passes from pod to pod    *)
(* only by way of nobody, and enters a pod only marked as taken.           *)
THEOREM LeaseImplemented == Spec => LeaseSpec
<1>1. Init => Lease!Init
  BY DEF Init, Lease!Init
<1>2. IInv /\ [Next]_vars => [Lease!Next]_(Lease!lease)
  BY LeaseStep DEF IInv
<1>. QED BY <1>1, <1>2, InductiveInvariant, PTL DEF Spec, LeaseSpec, Lease!Spec
=============================================================================
