---------------------------- MODULE PodLifecycle ----------------------------
(***************************************************************************)
(* The life of a pod in the Pharos dashboard: from the request that turns  *)
(* a template into physical hosts, through deployment by the lab, to the   *)
(* cleanup by the celery task booking_poll and the release by the celery   *)
(* task free_hosts.                                                        *)
(*                                                                         *)
(* Actors.  One synchronous gunicorn worker serves users and labs, so at   *)
(* most one web request is in progress (variable web).  Celery is prefork  *)
(* and its beat starts both tasks every minute, so several runs of each    *)
(* may overlap (Pollers, Freers).  There is no transaction and no row      *)
(* lock: an ORM statement is the unit of atomicity, and an object loaded   *)
(* before another actor's write is stale when it is saved.                 *)
(*                                                                         *)
(* Data.  A booking attempt b creates at most one ResourceBundle, which    *)
(* carries the name b.  Time is the phase of a booking: "ended" once end   *)
(* <= now, which nothing in the code ever undoes.  VLAN ids, software and  *)
(* access tasks and mail have no effect on the rows modelled here; they    *)
(* belong to modules of their own.                                         *)
(***************************************************************************)
EXTENDS Naturals, FiniteSets

CONSTANTS
    Hosts,        \* physical hosts of one profile in one lab
    Bookings,     \* booking attempts
    Pollers,      \* possible concurrent runs of booking_poll
    Freers,       \* possible concurrent runs of free_hosts
    PodSizes,     \* numbers of hosts a template may ask for
    LabOutcomes,  \* final statuses the lab posts, among "DONE" and "ERROR"
    WebOps,       \* requests served besides booking, cancelling and lab tasks
    MaxCrashes,   \* bound: crashes of the web worker, and of celery processes
    None,         \* SQL NULL
    Clean         \* nobody's configuration is on a machine

Kinds == {"hardware", "network"}   \* HostHardwareRelation, HostNetworkRelation
Tasks == Bookings \X Kinds \X Hosts
Statuses == {"absent", "NEW", "CURRENT", "DONE", "ERROR"}
Undone == {"NEW", "CURRENT", "ERROR"}
Deltas == {"deploy", "cleanup"}

ASSUME NoneAssumption == None \notin Bookings \cup Hosts /\ Clean \notin Bookings
ASSUME PodSizesAssumption == PodSizes \subseteq Nat \ {0}
ASSUME OutcomesAssumption == LabOutcomes \subseteq {"DONE", "ERROR"}
ASSUME CrashesAssumption == MaxCrashes \in Nat

VARIABLES
    booked,     \* Host.booked: the hosts marked booked
    bundle,     \* Host.bundle
    bundles,    \* ResourceBundle rows that exist
    phase,      \* "unused", "failed", "active", "ended" or "deleted"
    resource,   \* bookings whose Booking.resource is not NULL
    job,        \* Job of a booking: "none", "open" or "complete"
    status,     \* TaskRelation.status of every possible task
    delta,      \* what the task's config asks of the lab
    hand,       \* orders the lab has fetched and not yet reported on
    applied,    \* whose configuration a machine carries
    web,        \* the web request in progress
    poll,       \* the runs of booking_poll
    free,       \* the runs of free_hosts
    crashes     \* crashes so far

(* History variables: they record the races that the properties except.    *)
VARIABLES
    raced,      \* bookings whose task statuses two actors wrote at cross purposes
    contended   \* hosts whose row two actors held loaded at the same time

rowVars == <<booked, bundle, bundles, phase, resource>>
taskVars == <<job, status, delta>>
labVars == <<hand, applied>>
histVars == <<raced, contended>>
vars == <<rowVars, taskVars, labVars, web, poll, free, crashes, histVars>>

----------------------------------------------------------------------------
IdleWeb == [op |-> "idle", b |-> None, h |-> None, todo |-> {}, need |-> 0,
            wasBooked |-> FALSE]
IdlePoll == [todo |-> {}, cur |-> None, rels |-> {}]
IdleFree == [todo |-> {}, cur |-> None, hosts |-> {}]

Webs == [op : {"idle", "acquire", "attach", "release", "deleteRow", "reimage", "update"},
         b : Bookings \cup {None}, h : Hosts \cup {None}, todo : SUBSET Hosts,
         need : Nat, wasBooked : BOOLEAN]
Polls == [todo : SUBSET Bookings, cur : Bookings \cup {None},
          rels : SUBSET (Kinds \X Hosts)]
Frees == [todo : SUBSET Bookings, cur : Bookings \cup {None}, hosts : SUBSET Hosts]

TypeOK ==
    /\ booked \subseteq Hosts
    /\ bundle \in [Hosts -> Bookings \cup {None}]
    /\ bundles \subseteq Bookings
    /\ phase \in [Bookings -> {"unused", "failed", "active", "ended", "deleted"}]
    /\ resource \subseteq Bookings
    /\ job \in [Bookings -> {"none", "open", "complete"}]
    /\ status \in [Tasks -> Statuses]
    /\ delta \in [Tasks -> Deltas]
    /\ hand \subseteq [task : Tasks, delta : Deltas]
    /\ applied \in [Kinds \X Hosts -> Bookings \cup {Clean}]
    /\ web \in Webs
    /\ web.op \in {"acquire", "attach", "release", "deleteRow", "reimage"} => web.b \in Bookings
    /\ web.op \in {"attach", "reimage", "update"} => web.h \in Hosts
    /\ web.op = "attach" => web.need > 0
    /\ poll \in [Pollers -> Polls]
    /\ free \in [Freers -> Frees]
    /\ crashes \in [{"web", "worker"} -> Nat]
    /\ raced \subseteq Bookings
    /\ contended \subseteq Hosts

Init ==
    /\ booked = {}
    /\ bundle = [h \in Hosts |-> None]
    /\ bundles = {}
    /\ phase = [b \in Bookings |-> "unused"]
    /\ resource = {}
    /\ job = [b \in Bookings |-> "none"]
    /\ status = [t \in Tasks |-> "absent"]
    /\ delta = [t \in Tasks |-> "deploy"]
    /\ hand = {}
    /\ applied = [m \in Kinds \X Hosts |-> Clean]
    /\ web = IdleWeb
    /\ poll = [p \in Pollers |-> IdlePoll]
    /\ free = [f \in Freers |-> IdleFree]
    /\ crashes = [c \in {"web", "worker"} |-> 0]
    /\ raced = {}
    /\ contended = {}

----------------------------------------------------------------------------
(* Shared helpers. *)

PodOf(b) == {h \in Hosts : bundle[h] = b}

(* The relations a job has, those of one kind, and of these the undone.    *)
RelationsOf(b) == {m \in Kinds \X Hosts : status[<<b, m[1], m[2]>>] # "absent"}
Relations(b, k) == {h \in Hosts : status[<<b, k, h>>] # "absent"}
UndoneOf(b, k) == {h \in Hosts : status[<<b, k, h>>] \in Undone}

(* A member of undone_jobs: the two conditions of the filter are on two    *)
(* joins, so the job needs an undone relation of either kind.              *)
UndoneJob(b) == \A k \in Kinds : UndoneOf(b, k) # {}

(* Mutant: releaseHost forgets host.bundle = None.                        *)
ReleaseHostKeepBundle(h) ==
    /\ booked' = booked \ {h}
    /\ UNCHANGED bundle

(* releaseHost: the host's whole row is written.                           *)
ReleaseHost(h) ==
    /\ booked' = booked \ {h}
    /\ bundle' = [bundle EXCEPT ![h] = None]

(* ResourceBundle.delete: one transaction that also sets the foreign keys  *)
(* of hosts and bookings to NULL.                                          *)
DeleteBundle(b) ==
    /\ bundle' = [h \in Hosts |-> IF bundle[h] = b THEN None ELSE bundle[h]]
    /\ bundles' = bundles \ {b}
    /\ resource' = resource \ {b}

(* The bookings a run of booking_poll or free_hosts has still to treat.    *)
Listed(run) == (run.todo \cup {run.cur}) \ {None}

(* Hosts that some release in progress has loaded and not yet saved.       *)
LoadedByWeb == IF web.op = "release" THEN web.todo ELSE {}
LoadedByFree == UNION {free[f].hosts : f \in Freers}

----------------------------------------------------------------------------
(* The web worker: booking a pod (create_from_form, Repository.make_booking). *)

WebIdle == web.op = "idle"

(* convertResourceBundle creates the bundle row for a template of n hosts. *)
StartBooking(b, n) ==
    /\ WebIdle
    /\ phase[b] = "unused" /\ b \notin bundles
    /\ bundles' = bundles \cup {b}
    /\ web' = [IdleWeb EXCEPT !.op = "acquire", !.b = b, !.need = n]
    /\ UNCHANGED <<booked, bundle, phase, resource, taskVars, labVars, poll, free,
                   crashes, histVars>>

(* Mutant: the loop asks for a host too many.                             *)
AcquireHostTooMany(h) ==
    /\ web.op = "acquire"
    /\ h \notin booked
    /\ booked' = booked \cup {h}
    /\ web' = [web EXCEPT !.op = "attach", !.h = h]
    /\ UNCHANGED <<bundle, bundles, phase, resource, taskVars, labVars, poll, free,
                   crashes, histVars>>

(* Mutant: acquireHost forgets filter(booked=False).                       *)
AcquireHostUnfiltered(h) ==
    /\ web.op = "acquire" /\ web.need > 0
    /\ booked' = booked \cup {h}
    /\ web' = [web EXCEPT !.op = "attach", !.h = h]
    /\ UNCHANGED <<bundle, bundles, phase, resource, taskVars, labVars, poll, free,
                   crashes, histVars>>

(* acquireHost takes an unbooked host and saves it marked booked, with the *)
(* bundle still NULL.                                                      *)
AcquireHost(h) ==
    /\ web.op = "acquire" /\ web.need > 0
    /\ h \notin booked
    /\ booked' = booked \cup {h}
    /\ web' = [web EXCEPT !.op = "attach", !.h = h]
    /\ UNCHANGED <<bundle, bundles, phase, resource, taskVars, labVars, poll, free,
                   crashes, histVars>>

(* The loop body of convertResourceBundle ends by saving the same object   *)
(* with its bundle, which writes booked once more.                         *)
AttachHost ==
    /\ web.op = "attach"
    /\ booked' = booked \cup {web.h}
    /\ bundle' = [bundle EXCEPT ![web.h] = web.b]
    /\ web' = [web EXCEPT !.op = "acquire", !.h = None, !.need = @ - 1]
    /\ UNCHANGED <<bundles, phase, resource, taskVars, labVars, poll, free, crashes,
                   histVars>>

(* Mutant: fail_acquire misses the host that could not be configured.     *)
FailAcquireForgetLast ==
    /\ \/ web.op = "acquire" /\ web.need > 0 /\ booked = Hosts
       \/ web.op = "attach"
    /\ booked' = booked \ PodOf(web.b)
    /\ bundle' = [h \in Hosts |-> IF h \in PodOf(web.b) THEN None ELSE bundle[h]]
    /\ phase' = [phase EXCEPT ![web.b] = "failed"]
    /\ web' = IdleWeb
    /\ UNCHANGED <<bundles, resource, taskVars, labVars, poll, free, crashes, histVars>>

(* No unbooked host is left, or configuring or saving the acquired one     *)
(* raises: fail_acquire releases the hosts taken so far.  The bundle row   *)
(* stays.                                                                  *)
FailAcquire ==
    /\ \/ web.op = "acquire" /\ web.need > 0 /\ booked = Hosts
       \/ web.op = "attach"
    /\ booked' = booked \ (PodOf(web.b) \cup {web.h})
    /\ bundle' = [h \in Hosts |-> IF h \in PodOf(web.b) \cup {web.h} THEN None ELSE bundle[h]]
    /\ phase' = [phase EXCEPT ![web.b] = "failed"]
    /\ web' = IdleWeb
    /\ UNCHANGED <<bundles, resource, taskVars, labVars, poll, free, crashes, histVars>>

(* The attempt ends without a booking and without fail_acquire: get_vlans, *)
(* the lookup of the host's configuration or of any host of the profile    *)
(* raises, or after the conversion the booking is refused or its first     *)
(* save fails (make_booking returns an error, create_from_form raises).    *)
FailBooking ==
    /\ web.op = "acquire"
    /\ phase' = [phase EXCEPT ![web.b] = "failed"]
    /\ web' = IdleWeb
    /\ UNCHANGED <<booked, bundle, bundles, resource, taskVars, labVars, poll, free,
                   crashes, histVars>>

(* The booking row is saved, then makeCompleteJob creates the Job and its  *)
(* hardware and then its network relations.  Anything from the PDF to the  *)
(* last relation may raise, and what was saved so far stays: hw and net    *)
(* are the hosts that got their relation.  Other actors take no interest   *)
(* in an active booking, so this is one step.                              *)
FinishBooking(made, hw, net) ==
    /\ web.op = "acquire" /\ web.need = 0
    /\ hw \subseteq PodOf(web.b) /\ net \subseteq PodOf(web.b)
    /\ made = "none" => hw = {}
    /\ net # {} => hw = PodOf(web.b)
    /\ phase' = [phase EXCEPT ![web.b] = "active"]
    /\ resource' = resource \cup {web.b}
    /\ job' = [job EXCEPT ![web.b] = made]
    /\ status' = [t \in Tasks |->
                    IF t[1] = web.b /\ t[3] \in (IF t[2] = "hardware" THEN hw ELSE net)
                    THEN "NEW" ELSE status[t]]
    /\ web' = IdleWeb
    /\ UNCHANGED <<booked, bundle, bundles, delta, labVars, poll, free, crashes, histVars>>

(* The end of a booking passes, or booking_cancel_view sets it to now.     *)
EndBooking(b) ==
    /\ phase[b] = "active"
    /\ phase' = [phase EXCEPT ![b] = "ended"]
    /\ UNCHANGED <<booked, bundle, bundles, resource, taskVars, labVars, web, poll, free,
                   crashes, histVars>>

----------------------------------------------------------------------------
(* The web worker: deleting a booking (bookingDelete, DELETE of the REST   *)
(* API), re-imaging a host, and the lab's update of a host row.            *)

(* Booking.delete, with a pod: the row is saved with resource NULL and     *)
(* deleteResourceBundle loads the hosts.  (When the save finds another     *)
(* released booking in the same period it raises, and nothing happens.)    *)
DeleteBooking(b) ==
    /\ WebIdle /\ "delete" \in WebOps
    /\ phase[b] \in {"active", "ended"} /\ b \in resource
    /\ resource' = resource \ {b}
    /\ web' = [IdleWeb EXCEPT !.op = "release", !.b = b, !.todo = PodOf(b)]
    /\ contended' = contended \cup (PodOf(b) \cap LoadedByFree)
    /\ UNCHANGED <<booked, bundle, bundles, phase, taskVars, labVars, poll, free, crashes,
                   raced>>

(* Booking.delete without a pod: deleteResourceBundle(None) releases every *)
(* host whose bundle is NULL, then None.delete() raises and the row stays. *)
DeleteReleased(b) ==
    /\ WebIdle /\ "delete" \in WebOps
    /\ phase[b] \in {"active", "ended"} /\ b \notin resource
    /\ booked' = booked \ PodOf(None)
    /\ UNCHANGED <<bundle, bundles, phase, resource, taskVars, labVars, web, poll, free,
                   crashes, histVars>>

WebReleaseHost(h) ==
    /\ web.op = "release" /\ h \in web.todo
    /\ ReleaseHost(h)
    /\ web' = [web EXCEPT !.todo = @ \ {h}]
    /\ UNCHANGED <<bundles, phase, resource, taskVars, labVars, poll, free, crashes,
                   histVars>>

WebDeleteBundle ==
    /\ web.op = "release" /\ web.todo = {}
    /\ DeleteBundle(web.b)
    /\ web' = [web EXCEPT !.op = "deleteRow"]
    /\ UNCHANGED <<booked, phase, taskVars, labVars, poll, free, crashes, histVars>>

(* The row goes, and with it its Job and the job's relations (CASCADE).    *)
DeleteBookingRow ==
    /\ web.op = "deleteRow"
    /\ phase' = [phase EXCEPT ![web.b] = "deleted"]
    /\ job' = [job EXCEPT ![web.b] = "none"]
    /\ status' = [t \in Tasks |-> IF t[1] = web.b THEN "absent" ELSE status[t]]
    /\ web' = IdleWeb
    /\ UNCHANGED <<booked, bundle, bundles, resource, delta, labVars, poll, free, crashes,
                   histVars>>

(* booking_modify_image refuses once the end has passed; reimageHost then  *)
(* loads the relations and the hardware config ...                         *)
StartReimage(b, h) ==
    /\ WebIdle /\ "reimage" \in WebOps
    /\ phase[b] = "active"
    /\ h \in Relations(b, "hardware") \cap Relations(b, "network")
    /\ web' = [IdleWeb EXCEPT !.op = "reimage", !.b = b, !.h = h]
    /\ UNCHANGED <<rowVars, taskVars, labVars, poll, free, crashes, histVars>>

(* ... and saves them: the config with the delta it was loaded with, both  *)
(* relations NEW.                                                          *)
FinishReimage ==
    /\ web.op = "reimage"
    /\ status' = [status EXCEPT ![<<web.b, "hardware", web.h>>] = "NEW",
                                ![<<web.b, "network", web.h>>] = "NEW"]
    /\ delta' = [delta EXCEPT ![<<web.b, "hardware", web.h>>] = "deploy"]
    /\ raced' = IF phase[web.b] = "active" THEN raced ELSE raced \cup {web.b}
    /\ web' = IdleWeb
    /\ UNCHANGED <<rowVars, job, labVars, poll, free, crashes, contended>>

(* update_host and update_host_remote_info load a host row ...             *)
StartUpdateHost(h) ==
    /\ WebIdle /\ "update" \in WebOps
    /\ web' = [IdleWeb EXCEPT !.op = "update", !.h = h, !.b = bundle[h],
                              !.wasBooked = (h \in booked)]
    /\ UNCHANGED <<rowVars, taskVars, labVars, poll, free, crashes, histVars>>

(* ... and save all of it, booked and bundle included.  A bundle deleted   *)
(* in between violates the foreign key and the save raises.                *)
FinishUpdateHost ==
    /\ web.op = "update"
    /\ IF web.b \in bundles \cup {None}
       THEN /\ booked' = IF web.wasBooked THEN booked \cup {web.h} ELSE booked \ {web.h}
            /\ bundle' = [bundle EXCEPT ![web.h] = web.b]
            /\ contended' = IF bundle' = bundle /\ booked' = booked
                            THEN contended ELSE contended \cup {web.h}
       ELSE UNCHANGED <<booked, bundle, contended>>
    /\ web' = IdleWeb
    /\ UNCHANGED <<bundles, phase, resource, taskVars, labVars, poll, free, crashes, raced>>

(* The gunicorn worker is killed (its 30 s timeout) or restarted.          *)
WebCrash ==
    /\ ~WebIdle /\ crashes["web"] < MaxCrashes
    /\ web' = IdleWeb
    /\ crashes' = [crashes EXCEPT !["web"] = @ + 1]
    /\ UNCHANGED <<rowVars, taskVars, labVars, poll, free, histVars>>

----------------------------------------------------------------------------
(* booking_poll. *)

(* Mutant: the query forgets end <= now.                                  *)
NeedsCleanupAnyTime(b) == phase[b] \in {"active", "ended"} /\ job[b] = "open"

NeedsCleanup(b) == phase[b] = "ended" /\ job[b] = "open"

StartPoll(p) ==
    /\ poll[p] = IdlePoll
    /\ \E b \in Bookings : NeedsCleanup(b)
    /\ poll' = [poll EXCEPT ![p].todo = {b \in Bookings : NeedsCleanup(b)}]
    /\ UNCHANGED <<rowVars, taskVars, labVars, web, free, crashes, histVars>>

(* The loop looks at the job again, now in the database: it may be gone    *)
(* (the lookup raises and the run ends) or complete (skipped).             *)
PickCleanup(p, b) ==
    /\ poll[p].cur = None /\ b \in poll[p].todo
    /\ \/ /\ job[b] = "none"
          /\ poll' = [poll EXCEPT ![p] = IdlePoll]
          /\ UNCHANGED raced
       \/ /\ job[b] = "complete"
          /\ poll' = [poll EXCEPT ![p].todo = @ \ {b}]
          /\ UNCHANGED raced
       \/ /\ job[b] = "open"
          /\ poll' = [poll EXCEPT ![p] = [todo |-> @.todo \ {b}, cur |-> b,
                                          rels |-> RelationsOf(b)]]
          /\ raced' = IF \E q \in Pollers : poll[q].cur = b THEN raced \cup {b} ELSE raced
    /\ UNCHANGED <<rowVars, taskVars, labVars, web, free, crashes, contended>>

(* Mutant: the config is changed, the status is not reset.                *)
CleanupRelationQuiet(p, k, h) ==
    LET t == <<poll[p].cur, k, h>> IN
    /\ poll[p].cur # None /\ <<k, h>> \in poll[p].rels
    /\ k = "network" => \A g \in Hosts : <<"hardware", g>> \notin poll[p].rels
    /\ poll' = [poll EXCEPT ![p].rels = @ \ {<<k, h>>}]
    /\ delta' = [delta EXCEPT ![t] = "cleanup"]
    /\ UNCHANGED <<rowVars, job, status, labVars, web, free, crashes, histVars>>

(* cleanup_hardware, then cleanup_network, one relation at a time: the     *)
(* config now asks for power off, or for empty interfaces, and the         *)
(* relation is saved NEW whatever the lab has posted meanwhile.  If the    *)
(* booking was deleted the save violates a foreign key and the run ends.   *)
CleanupRelation(p, k, h) ==
    LET t == <<poll[p].cur, k, h>> IN
    /\ poll[p].cur # None /\ <<k, h>> \in poll[p].rels
    /\ k = "network" => \A g \in Hosts : <<"hardware", g>> \notin poll[p].rels
    /\ IF status[t] = "absent"
       THEN /\ poll' = [poll EXCEPT ![p] = IdlePoll]
            /\ UNCHANGED <<status, delta>>
       ELSE /\ poll' = [poll EXCEPT ![p].rels = @ \ {<<k, h>>}]
            /\ status' = [status EXCEPT ![t] = "NEW"]
            /\ delta' = [delta EXCEPT ![t] = "cleanup"]
    /\ UNCHANGED <<rowVars, job, labVars, web, free, crashes, histVars>>

(* job.complete = True; the save fails if the booking was deleted.         *)
CompleteJob(p) ==
    LET b == poll[p].cur IN
    /\ b # None /\ poll[p].rels = {}
    /\ IF job[b] = "none"
       THEN /\ poll' = [poll EXCEPT ![p] = IdlePoll]
            /\ UNCHANGED job
       ELSE /\ poll' = [poll EXCEPT ![p].cur = None]
            /\ job' = [job EXCEPT ![b] = "complete"]
    /\ UNCHANGED <<rowVars, status, delta, labVars, web, free, crashes, histVars>>

PollCrash(p) ==
    /\ poll[p] # IdlePoll /\ crashes["worker"] < MaxCrashes
    /\ poll' = [poll EXCEPT ![p] = IdlePoll]
    /\ crashes' = [crashes EXCEPT !["worker"] = @ + 1]
    /\ UNCHANGED <<rowVars, taskVars, labVars, web, free, histVars>>

----------------------------------------------------------------------------
(* free_hosts. *)

(* Mutant: free_hosts forgets to exclude undone_jobs.                     *)
NeedsFreeingUndone(b) ==
    phase[b] = "ended" /\ job[b] = "complete" /\ b \in resource

NeedsFreeing(b) ==
    /\ phase[b] = "ended" /\ job[b] = "complete" /\ b \in resource
    /\ ~UndoneJob(b)

StartFree(f) ==
    /\ free[f] = IdleFree
    /\ \E b \in Bookings : NeedsFreeing(b)
    /\ free' = [free EXCEPT ![f].todo = {b \in Bookings : NeedsFreeing(b)}]
    /\ UNCHANGED <<rowVars, taskVars, labVars, web, poll, crashes, histVars>>

(* deleteResourceBundle(booking.resource): following the stale foreign key *)
(* raises if the bundle is gone; otherwise the hosts of the pod are loaded.*)
PickFree(f, b) ==
    /\ free[f].cur = None /\ b \in free[f].todo
    /\ IF b \in bundles
       THEN /\ free' = [free EXCEPT ![f] = [todo |-> @.todo \ {b}, cur |-> b,
                                            hosts |-> PodOf(b)]]
            /\ contended' = contended \cup (PodOf(b) \cap (LoadedByFree \cup LoadedByWeb))
       ELSE /\ free' = [free EXCEPT ![f] = IdleFree]
            /\ UNCHANGED contended
    /\ UNCHANGED <<rowVars, taskVars, labVars, web, poll, crashes, raced>>

FreeHost(f, h) ==
    /\ h \in free[f].hosts
    /\ ReleaseHost(h)
    /\ free' = [free EXCEPT ![f].hosts = @ \ {h}]
    /\ UNCHANGED <<bundles, phase, resource, taskVars, labVars, web, poll, crashes, histVars>>

FreeBundle(f) ==
    /\ free[f].cur # None /\ free[f].hosts = {}
    /\ DeleteBundle(free[f].cur)
    /\ free' = [free EXCEPT ![f].cur = None]
    /\ UNCHANGED <<booked, phase, taskVars, labVars, web, poll, crashes, histVars>>

FreeCrash(f) ==
    /\ free[f] # IdleFree /\ crashes["worker"] < MaxCrashes
    /\ free' = [free EXCEPT ![f] = IdleFree]
    /\ crashes' = [crashes EXCEPT !["worker"] = @ + 1]
    /\ UNCHANGED <<rowVars, taskVars, labVars, web, poll, histVars>>

----------------------------------------------------------------------------
(* The lab's agent, a client of the REST API.  It carries out one order    *)
(* per task at a time and reports CURRENT when it fetches an order.        *)

FetchTask(t) ==
    /\ WebIdle
    /\ status[t] = "NEW" /\ \A w \in hand : w.task # t
    /\ hand' = hand \cup {[task |-> t, delta |-> delta[t]]}
    /\ status' = [status EXCEPT ![t] = "CURRENT"]
    /\ UNCHANGED <<rowVars, job, delta, applied, web, poll, free, crashes, histVars>>

(* Mutant: posts on the tasks of a complete job are ignored.              *)
ReportTaskWhileOpen(w, s) ==
    /\ WebIdle
    /\ w \in hand
    /\ hand' = hand \ {w}
    /\ status' = IF job[w.task[1]] = "open" THEN [status EXCEPT ![w.task] = s] ELSE status
    /\ UNCHANGED <<rowVars, job, delta, applied, web, poll, free, crashes, histVars>>

(* specific_task stores whatever status is posted; nothing ties the post   *)
(* to the order the lab had fetched.  A task that is gone answers 500.     *)
ReportTask(w, s) ==
    LET t == w.task IN
    /\ WebIdle
    /\ w \in hand
    /\ hand' = hand \ {w}
    /\ applied' = IF s = "DONE"
                  THEN [applied EXCEPT ![<<t[2], t[3]>>] =
                          IF w.delta = "deploy" THEN t[1] ELSE Clean]
                  ELSE applied
    /\ status' = IF status[t] = "absent" THEN status ELSE [status EXCEPT ![t] = s]
    /\ raced' = IF w.delta # delta[t] THEN raced \cup {t[1]} ELSE raced
    /\ UNCHANGED <<rowVars, job, delta, web, poll, free, crashes, contended>>

----------------------------------------------------------------------------
WebProgress ==
    \/ \E h \in Hosts : AcquireHost(h) \/ WebReleaseHost(h)
    \/ AttachHost \/ FailAcquire \/ FailBooking
    \/ \E made \in {"none", "open"}, hw, net \in SUBSET Hosts : FinishBooking(made, hw, net)
    \/ WebDeleteBundle \/ DeleteBookingRow \/ FinishReimage \/ FinishUpdateHost

WebRequest ==
    \/ \E b \in Bookings :
         \/ \E n \in PodSizes : StartBooking(b, n)
         \/ DeleteBooking(b) \/ DeleteReleased(b)
         \/ \E h \in Hosts : StartReimage(b, h)
    \/ \E h \in Hosts : StartUpdateHost(h)

PollStep(p) ==
    \/ StartPoll(p) \/ CompleteJob(p)
    \/ \E b \in Bookings : PickCleanup(p, b)
    \/ \E k \in Kinds, h \in Hosts : CleanupRelation(p, k, h)

FreeStep(f) ==
    \/ StartFree(f) \/ FreeBundle(f)
    \/ \E b \in Bookings : PickFree(f, b)
    \/ \E h \in Hosts : FreeHost(f, h)

LabStep ==
    \/ \E t \in Tasks : FetchTask(t)
    \/ \E w \in hand, s \in LabOutcomes : ReportTask(w, s)

Crash ==
    \/ WebCrash
    \/ \E p \in Pollers : PollCrash(p)
    \/ \E f \in Freers : FreeCrash(f)

Next ==
    \/ WebRequest \/ WebProgress
    \/ \E b \in Bookings : EndBooking(b)
    \/ \E p \in Pollers : PollStep(p)
    \/ \E f \in Freers : FreeStep(f)
    \/ LabStep
    \/ Crash

Spec == Init /\ [][Next]_vars

(* The web worker finishes its request or is killed, beat starts the tasks *)
(* every minute and the lab works off its list.                            *)
Fairness ==
    /\ WF_vars(WebProgress)
    /\ \A p \in Pollers : WF_vars(PollStep(p))
    /\ \A f \in Freers : WF_vars(FreeStep(f))
    /\ SF_vars(LabStep)

FairSpec == Spec /\ Fairness

----------------------------------------------------------------------------
(* Safety. *)

(* A host that carries a bundle is marked booked, so acquireHost never     *)
(* gives out a machine that belongs to a pod, however the full-row saves   *)
(* of the web worker and of free_hosts interleave.                         *)
BundledHostsBooked == \A h \in Hosts : bundle[h] # None => h \in booked

(* Cleanup work never reaches a booking that has not ended: although       *)
(* booking_poll and free_hosts act on lists they read earlier, no task of  *)
(* an active booking asks for a cleanup, in the database or at the lab,    *)
(* its job is not complete, and it is on no run's list.                    *)
Untouched(b) ==
    /\ job[b] # "complete"
    /\ \A k \in Kinds, h \in Hosts : delta[<<b, k, h>>] = "deploy"
    /\ \A w \in hand : w.task[1] = b => w.delta = "deploy"
    /\ \A p \in Pollers : b \notin Listed(poll[p])
    /\ \A f \in Freers : b \notin Listed(free[f])

ActiveBookingsUntouched == \A b \in Bookings : phase[b] = "active" => Untouched(b)

(* A machine for which an active booking has deployment work stays in its  *)
(* pod, unless two actors held the row of that machine loaded at once      *)
(* (releaseHost and update_host write whole rows).                         *)
ActiveBookingsKeepHosts ==
    \A b \in Bookings, h \in Hosts :
        phase[b] = "active" /\ b \in resource /\ h \in Relations(b, "hardware") =>
            bundle[h] = b \/ h \in contended

(* A booking chosen for release does not become wholly undone again before *)
(* its hosts are given back, although statuses keep changing between the   *)
(* query of free_hosts and its last save; the exception is a booking whose *)
(* statuses were written at cross purposes.                                *)
SelectedJobsStaySettled ==
    \A f \in Freers : \A b \in Listed(free[f]) : b \in raced \/ ~UndoneJob(b)

(* When a cleanup task is DONE the machine does not carry the booking's    *)
(* configuration any more, with the same exception.                        *)
DoneMeansClean ==
    \A t \in Tasks :
        status[t] = "DONE" /\ delta[t] = "cleanup" /\ t[1] \notin raced =>
            applied[<<t[2], t[3]>>] # t[1]

(* Every booked machine is on its way into a pod, or in the pod of a row   *)
(* that free_hosts or the present request will release, or was lost in one *)
(* of the ways the code does not undo: a booking that failed after its     *)
(* conversion, a killed request, a row saved over another actor's release. *)
BookedHostsAccountedFor ==
    \A h \in booked :
        \/ web.op = "attach" /\ web.h = h
        \/ /\ bundle[h] # None
           /\ \/ bundle[h] \in resource
              \/ phase[bundle[h]] = "failed"
              \/ web.op \in {"acquire", "attach", "release"} /\ web.b = bundle[h]
        \/ crashes["web"] > 0
        \/ h \in contended

(* The inductive invariant behind the safety properties, by topic.         *)

(* Nothing of the cleanup touches a booking before its end, and a request  *)
(* that books works on a fresh attempt.                                    *)
InvUntouched ==
    /\ web.op \in {"acquire", "attach"} => phase[web.b] = "unused"
    /\ \A b \in Bookings : phase[b] \notin {"ended", "deleted"} => Untouched(b)

(* Rows of hosts: what an update request has loaded, and the host between  *)
(* its two saves in convertResourceBundle.                                 *)
InvRows ==
    /\ BundledHostsBooked
    /\ web.op = "update" /\ web.b # None => web.wasBooked
    /\ web.op = "update" =>
         bundle[web.h] \in {web.b, None} /\ (web.h \in booked => web.wasBooked)
    /\ web.op = "acquire" => web.h = None
    /\ web.op = "attach" => bundle[web.h] = None

(* Jobs and their tasks: a booking without a job has no relations, the lab *)
(* holds one order per task and only of tasks it has not reported.         *)
InvTasks ==
    /\ \A b \in Bookings : phase[b] = "unused" => job[b] = "none"
    /\ \A b \in Bookings, k \in Kinds, h \in Hosts :
         job[b] = "none" => status[<<b, k, h>>] = "absent"
    /\ web.op = "reimage" =>
         \A k \in Kinds : status[<<web.b, k, web.h>>] # "absent"
    /\ \A w \in hand : status[w.task] \in {"absent", "NEW", "CURRENT"}
    /\ \A v, w \in hand : v.task = w.task => v = w

(* One run of booking_poll at a time treats a booking, or it is raced.     *)
InvPolls ==
    /\ \A p, q \in Pollers : p # q /\ poll[p].cur = poll[q].cur /\ poll[p].cur # None =>
         poll[p].cur \in raced
    /\ \A p \in Pollers : poll[p].cur # None /\ job[poll[p].cur] = "complete" =>
         poll[p].cur \in raced
    /\ \A f \in Freers : \A b \in Listed(free[f]) : job[b] # "open"

(* A row loaded for release is still that of its pod, or is contended; and *)
(* the release has loaded every row of the pod.                            *)
InvReleases ==
    /\ web.op \in {"release", "deleteRow"} =>
         web.b \notin resource /\ phase[web.b] \in {"active", "ended"}
    /\ web.op = "release" =>
         /\ \A h \in web.todo : bundle[h] = web.b \/ h \in contended
         /\ \A h \in Hosts : bundle[h] = web.b => h \in web.todo \cup contended
    /\ \A f \in Freers :
         /\ free[f].cur = None => free[f].hosts = {}
         /\ \A h \in free[f].hosts : bundle[h] = free[f].cur \/ h \in contended
         /\ free[f].cur # None =>
              \A h \in Hosts : bundle[h] = free[f].cur => h \in free[f].hosts \cup contended
         /\ web.op = "release" => free[f].hosts \cap web.todo \subseteq contended
    /\ \A f, g \in Freers : f # g => free[f].hosts \cap free[g].hosts \subseteq contended

IInv ==
    /\ TypeOK
    /\ InvUntouched
    /\ InvRows
    /\ InvTasks
    /\ InvPolls
    /\ InvReleases
    /\ ActiveBookingsKeepHosts
    /\ SelectedJobsStaySettled
    /\ DoneMeansClean
    /\ BookedHostsAccountedFor

(* The rows of the hosts implement the lease of HostLease: although        *)
(* update_host and releaseHost write whole rows from old copies, a machine *)
(* never passes from one pod to another without being given back, and      *)
(* never carries a bundle while acquireHost would give it out.             *)
Lease == INSTANCE HostLease WITH Pods <- Bookings, taken <- booked, holder <- bundle
LeaseSpec == Lease!Spec

(* Liveness: the pod of an ended booking that has a job is given back.     *)
EndedBookingsFreed ==
    \A b \in Bookings :
        (phase[b] = "ended" /\ job[b] # "none") ~> (b \notin resource)

----------------------------------------------------------------------------
(* A statement of the repository that the code does not keep. *)

(* free_hosts excludes undone_jobs, the jobs that have tasks in one of the *)
(* undone_statuses: no booking it works on has such a task (of those that  *)
(* were given tasks of both kinds).                                        *)
UndoneJobsExcluded ==
    \A f \in Freers : \A b \in Listed(free[f]) :
        (\A k \in Kinds : Relations(b, k) # {}) => \A k \in Kinds : UndoneOf(b, k) = {}
=============================================================================
