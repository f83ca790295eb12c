------------------------------ MODULE JobTasks ------------------------------
(***************************************************************************)
(* The tasks of one booking's job and the mail about them.  The web worker *)
(* makes the job, takes the lab's posts on its tasks and mails the users   *)
(* when all are DONE; booking_poll gives the tasks cleanup orders when the *)
(* booking has ended and notifies the users.                               *)
(*                                                                         *)
(* One gunicorn worker serves one request at a time (variable web), beside *)
(* any number of runs of booking_poll (variable poll).  A task consists of *)
(* a relation row, with its status, and a config row, with its order; each *)
(* is saved on its own and in full.                                        *)
(*                                                                         *)
(* An order the lab has fetched is in hand until the lab reports on it,    *)
(* and late once the dashboard has replaced it.  specific_task cannot tell *)
(* the two apart.                                                          *)
(***************************************************************************)
EXTENDS Naturals, Sequences

CONSTANTS
    Hosts, Users,       \* of the booking: machines, owner and collaborators
    Software,           \* at most one OPNFV deployment
    Snapshots,          \* images users may ask for
    Pollers,            \* possible concurrent runs of booking_poll
    LabPosts,           \* statuses the lab posts
    MaxReimages, MaxMessages, MaxCrashes,   \* bounds
    None

Tasks == ({"hardware", "network"} \X Hosts) \cup ({"vpn", "ssh"} \X Users)
           \cup ({"software"} \X Software) \cup ({"snapshot"} \X Snapshots)
Statuses == {"absent", "NEW", "CURRENT", "DONE", "ERROR"}

ASSUME NullAssumption == None \notin Tasks
ASSUME PostsAssumption == LabPosts \subseteq {"CURRENT", "DONE", "ERROR"}
ASSUME BoundsAssumption == MaxReimages \in Nat /\ MaxMessages \in Nat /\ MaxCrashes \in Nat

VARIABLES
    ended,      \* the booking's end is past
    job,        \* "none", "open" or "complete"
    status,     \* TaskRelation.status
    order,      \* what the config asks for: "deploy" or "cleanup"
    hand,       \* tasks whose present order the lab has fetched
    late,       \* tasks of which the lab holds an order that was replaced
    web,        \* the request in progress
    poll,       \* the runs of booking_poll
    notices,    \* end notices sent
    spent       \* re-images, messages and crashes so far

(* History variables.                                                      *)
VARIABLES
    answered,   \* tasks whose present order the lab has carried out
    crossed,    \* tasks whose status was not posted about the present order
    revived,    \* tasks whose cleanup order a re-image request overwrote
    begun,      \* booking_poll has picked the booking
    overlapped  \* by two runs at once

histVars == <<answered, crossed, revived, begun, overlapped>>
taskVars == <<job, status, order>>
vars == <<ended, taskVars, hand, late, web, poll, notices, spent, histVars>>

----------------------------------------------------------------------------
IdleWeb == [op |-> "idle", t |-> None, row |-> "none", post |-> "none", fresh |-> FALSE,
            todo |-> {}, next |-> 1, ok |-> FALSE]
IdlePoll == [at |-> "idle", todo |-> {}, half |-> None]

Webs == [op : {"idle", "save", "check", "mail", "image", "reset"}, t : Tasks \cup {None},
         row : Statuses \cup {"none", "deploy", "cleanup"},
         post : {"none", "message", "CURRENT", "DONE", "ERROR"}, fresh : BOOLEAN,
         todo : SUBSET Tasks, next : Nat, ok : BOOLEAN]
Polls == [at : {"idle", "clean", "notify"}, todo : SUBSET Tasks, half : Tasks \cup {None}]

TypeOK ==
    /\ ended \in BOOLEAN
    /\ job \in {"none", "open", "complete"}
    /\ status \in [Tasks -> Statuses]
    /\ order \in [Tasks -> {"deploy", "cleanup"}]
    /\ hand \subseteq Tasks /\ late \subseteq Tasks
    /\ web \in Webs
    /\ web.op = "save" => web.row \in Statuses \ {"absent"} /\ web.post # "none"
    /\ web.op = "image" => web.row \in {"deploy", "cleanup"}
    /\ web.op \in {"save", "image"} => web.t \in Tasks
    /\ poll \in [Pollers -> Polls]
    /\ notices \in Nat
    /\ spent \in [{"reimage", "message", "web", "worker"} -> Nat]
    /\ answered \subseteq Tasks /\ crossed \subseteq Tasks /\ revived \subseteq Tasks
    /\ begun \in BOOLEAN /\ overlapped \in BOOLEAN

Init ==
    /\ ended = FALSE
    /\ job = "none"
    /\ status = [t \in Tasks |-> "absent"]
    /\ order = [t \in Tasks |-> "deploy"]
    /\ hand = {} /\ late = {}
    /\ web = IdleWeb
    /\ poll = [p \in Pollers |-> IdlePoll]
    /\ notices = 0
    /\ spent = [c \in {"reimage", "message", "web", "worker"} |-> 0]
    /\ answered = {} /\ crossed = {} /\ revived = {}
    /\ begun = FALSE /\ overlapped = FALSE

----------------------------------------------------------------------------
Existing == {t \in Tasks : status[t] # "absent"}
OfKinds(K) == {t \in Existing : t[1] \in K}

(* The order in which makeCompleteJob makes the tasks, and booking_poll    *)
(* resets them; software comes first in the second.                        *)
MadeBefore(k) ==
    CASE k = "hardware" -> {}
      [] k = "network"  -> {"hardware"}
      [] k = "software" -> {"hardware", "network"}
      [] k = "vpn"      -> {"hardware", "network", "software"}
      [] k = "ssh"      -> {"hardware", "network", "software", "vpn"}
CleanedBefore(k) ==
    CASE k = "software" -> {}
      [] k = "hardware" -> {"software"}
      [] k = "network"  -> {"software", "hardware"}
      [] k = "vpn"      -> {"software", "hardware", "network"}
CleanedKinds == {"software", "hardware", "network", "vpn"}

(* The classes of get_tasklist, in its order.                              *)
Classes == <<{"hardware"}, {"vpn", "ssh"}, {"network"}, {"software"}, {"snapshot"}>>

Cleaned == {t \in Tasks : order[t] = "cleanup"}

(* The orders of these tasks are replaced by new ones.                     *)
Replace(T) ==
    /\ hand' = hand \ T
    /\ late' = late \cup (hand \cap T)
    /\ answered' = answered \ T

Spend(c, bound) == spent[c] < bound /\ spent' = [spent EXCEPT ![c] = @ + 1]

----------------------------------------------------------------------------
(* The web worker. *)

(* makeCompleteJob, which may raise between two tasks; the ssh access of a *)
(* user who has no key is skipped.                                         *)
MakeJob(T) ==
    /\ web.op = "idle" /\ job = "none" /\ ~ended
    /\ T \cap ({"snapshot"} \X Snapshots) = {}
    /\ \A t \in T, u \in Tasks : u[1] \in MadeBefore(t[1]) => u \in T
    /\ job' = "open"
    /\ status' = [t \in Tasks |-> IF t \in T THEN "NEW" ELSE "absent"]
    /\ UNCHANGED <<ended, order, hand, late, web, poll, notices, spent, histVars>>

(* make_snapshot: only while the booking is active.                        *)
MakeSnapshot(i) ==
    /\ web.op = "idle" /\ job # "none" /\ ~ended
    /\ status[<<"snapshot", i>>] = "absent"
    /\ status' = [status EXCEPT ![<<"snapshot", i>>] = "NEW"]
    /\ UNCHANGED <<ended, job, order, hand, late, web, poll, notices, spent, histVars>>

(* booking_modify_image checks the end; reimageHost loads the config row.  *)
StartReimage(h) ==
    LET t == <<"hardware", h>> IN
    /\ web.op = "idle" /\ ~ended /\ t \in Existing
    /\ Spend("reimage", MaxReimages)
    /\ web' = [IdleWeb EXCEPT !.op = "image", !.t = t, !.row = order[t]]
    /\ UNCHANGED <<ended, taskVars, hand, late, poll, notices, histVars>>

(* The whole config row is saved with the new image; then the network task *)
(* is looked up, which a partial job may not have.                         *)
SaveImage ==
    LET net == <<"network", web.t[2]>> IN
    /\ web.op = "image"
    /\ order' = [order EXCEPT ![web.t] = web.row]
    /\ Replace({web.t})
    /\ revived' = IF order[web.t] = "cleanup" /\ web.row = "deploy"
                  THEN revived \cup {web.t} ELSE revived
    /\ IF net \in Existing
       THEN /\ web' = [IdleWeb EXCEPT !.op = "reset",
                                      !.todo = OfKinds({"ssh"}) \cup {web.t, net}]
            /\ UNCHANGED crossed
       ELSE /\ web' = IdleWeb
            /\ crossed' = crossed \cup {web.t}
    /\ UNCHANGED <<ended, job, status, poll, notices, spent, begun, overlapped>>

(* The relations are saved as NEW: ssh, then hardware, then network.       *)
ResetForImage(t) ==
    /\ web.op = "reset" /\ t \in web.todo
    /\ t[1] # "ssh" => \A u \in web.todo : u[1] # "ssh"
    /\ t[1] = "network" => web.todo = {t}
    /\ status' = [status EXCEPT ![t] = "NEW"]
    /\ Replace({t})
    /\ crossed' = crossed \ {t}
    /\ web' = IF web.todo = {t} THEN IdleWeb ELSE [web EXCEPT !.todo = @ \ {t}]
    /\ UNCHANGED <<ended, job, order, poll, notices, spent, revived, begun, overlapped>>

(* Mutant: get_task makes a task it does not find.                        *)
LoadTaskMissing(t, s, fresh) ==
    /\ web.op = "idle"
    /\ s = "message" /\ ~fresh /\ Spend("message", MaxMessages)
    /\ web' = [IdleWeb EXCEPT !.op = "save", !.t = t, !.row = status[t],
                              !.post = s, !.fresh = fresh]
    /\ UNCHANGED <<ended, taskVars, hand, late, poll, notices, histVars>>

(* specific_task, POST: the row is loaded.  The lab reports on an order it *)
(* holds, or only leaves a message.                                        *)
LoadTask(t, s, fresh) ==
    /\ web.op = "idle" /\ t \in Existing
    /\ \/ s = "message" /\ ~fresh /\ Spend("message", MaxMessages)
       \/ /\ s = "CURRENT" => status[t] = "NEW"
          /\ s \in LabPosts
          /\ IF fresh THEN t \in hand ELSE t \in late
          /\ UNCHANGED spent
    /\ web' = [IdleWeb EXCEPT !.op = "save", !.t = t, !.row = status[t],
                              !.post = s, !.fresh = fresh]
    /\ UNCHANGED <<ended, taskVars, hand, late, poll, notices, histVars>>

(* The row is saved, with the status that was posted or the one loaded.    *)
(* The order may have been replaced in between.                            *)
SaveTask ==
    LET t == web.t
        fresh == web.fresh /\ t \in hand
        final == web.post \in {"DONE", "ERROR"}
        new == IF web.post = "message" THEN web.row ELSE web.post
    IN
    /\ web.op = "save"
    /\ status' = [status EXCEPT ![t] = new]
    /\ hand' = IF final /\ fresh THEN hand \ {t} ELSE hand
    /\ late' = IF final /\ ~fresh THEN late \ {t} ELSE late
    /\ answered' = IF web.post = "DONE" /\ fresh THEN answered \cup {t} ELSE answered
    /\ crossed' = CASE fresh -> crossed \ {t}
                    [] web.post = "message" /\ status[t] = new -> crossed
                    [] OTHER -> crossed \cup {t}
    /\ web' = [IdleWeb EXCEPT !.op = "check", !.ok = TRUE]
    /\ UNCHANGED <<ended, job, order, poll, notices, spent, revived, begun, overlapped>>

(* Mutant: only the last class that is read counts.                       *)
CheckClassLast ==
    LET fulfilled == \A t \in OfKinds(Classes[web.next]) : status[t] = "DONE" IN
    /\ web.op = "check"
    /\ web' = IF web.next < Len(Classes) THEN [web EXCEPT !.next = @ + 1, !.ok = fulfilled]
              ELSE IF fulfilled THEN [IdleWeb EXCEPT !.op = "mail"]
              ELSE IdleWeb
    /\ UNCHANGED <<ended, taskVars, hand, late, poll, notices, spent, histVars>>

(* Mutant: a class without tasks is not fulfilled.                        *)
CheckClassStrict ==
    LET tasks == OfKinds(Classes[web.next])
        fulfilled == web.ok /\ tasks # {} /\ \A t \in tasks : status[t] = "DONE"
    IN
    /\ web.op = "check"
    /\ web' = IF web.next < Len(Classes) THEN [web EXCEPT !.next = @ + 1, !.ok = fulfilled]
              ELSE IF fulfilled THEN [IdleWeb EXCEPT !.op = "mail"]
              ELSE IdleWeb
    /\ UNCHANGED <<ended, taskVars, hand, late, poll, notices, spent, histVars>>

(* task_updated asks is_fulfilled, which reads one class of tasks after    *)
(* the other and wants every task of every class DONE.                     *)
CheckClass ==
    LET fulfilled == web.ok /\ \A t \in OfKinds(Classes[web.next]) : status[t] = "DONE" IN
    /\ web.op = "check"
    /\ web' = IF web.next < Len(Classes) THEN [web EXCEPT !.next = @ + 1, !.ok = fulfilled]
              ELSE IF fulfilled THEN [IdleWeb EXCEPT !.op = "mail"]
              ELSE IdleWeb
    /\ UNCHANGED <<ended, taskVars, hand, late, poll, notices, spent, histVars>>

(* email_job_fulfilled: "Your Booking is Ready" to every user.             *)
SendMail ==
    /\ web.op = "mail"
    /\ web' = IdleWeb
    /\ UNCHANGED <<ended, taskVars, hand, late, poll, notices, spent, histVars>>

(* The worker is killed, or the request raises.                            *)
WebCrash ==
    /\ web.op # "idle"
    /\ Spend("web", MaxCrashes)
    /\ web' = IdleWeb
    /\ crossed' = crossed \cup web.todo
    /\ UNCHANGED <<ended, taskVars, hand, late, poll, notices, answered, revived, begun, overlapped>>

EndBooking ==
    /\ ~ended
    /\ ended' = TRUE
    /\ UNCHANGED <<taskVars, hand, late, web, poll, notices, spent, histVars>>

(* The lab fetches the order of a task from jobs/new.                      *)
FetchTask(t) ==
    /\ web.op = "idle" /\ status[t] = "NEW" /\ t \notin hand
    /\ hand' = hand \cup {t}
    /\ UNCHANGED <<ended, taskVars, late, web, poll, notices, spent, histVars>>

----------------------------------------------------------------------------
(* booking_poll. *)

(* Mutant: the access of the users is not revoked.                        *)
PickJobKeepAccess(p) ==
    /\ poll[p].at = "idle" /\ ended /\ job = "open"
    /\ poll' = [poll EXCEPT ![p] = [IdlePoll EXCEPT !.at = "clean",
                                      !.todo = OfKinds(CleanedKinds \ {"vpn"})]]
    /\ begun' = TRUE
    /\ overlapped' = (overlapped \/ \E q \in Pollers : poll[q].at = "clean")
    /\ UNCHANGED <<ended, taskVars, hand, late, web, notices, spent, answered, crossed, revived>>

(* The booking has ended and its job is not complete.                      *)
PickJob(p) ==
    /\ poll[p].at = "idle" /\ ended /\ job = "open"
    /\ poll' = [poll EXCEPT ![p] = [IdlePoll EXCEPT !.at = "clean",
                                      !.todo = OfKinds(CleanedKinds)]]
    /\ begun' = TRUE
    /\ overlapped' = (overlapped \/ \E q \in Pollers : poll[q].at = "clean")
    /\ UNCHANGED <<ended, taskVars, hand, late, web, notices, spent, answered, crossed, revived>>

(* The config of the next task is saved: power off, no VLANs, no software, *)
(* access revoked.  An earlier run may have given the same order.          *)
CleanConfig(p, t) ==
    /\ poll[p].at = "clean" /\ poll[p].half = None /\ t \in poll[p].todo
    /\ \A u \in poll[p].todo : u[1] \notin CleanedBefore(t[1])
    /\ order' = [order EXCEPT ![t] = "cleanup"]
    /\ Replace({t} \ Cleaned)
    /\ poll' = [poll EXCEPT ![p] = [@ EXCEPT !.half = t, !.todo = poll[p].todo \ {t}]]
    /\ UNCHANGED <<ended, job, status, web, notices, spent, crossed, revived, begun, overlapped>>

(* Mutant: the status stays as it is.                                     *)
CleanStatusKeep(p) ==
    /\ poll[p].half # None
    /\ poll' = [poll EXCEPT ![p] = [@ EXCEPT !.half = None]]
    /\ UNCHANGED <<ended, job, status, order, hand, late, web, notices, spent, histVars>>

(* Then its relation, with status NEW.                                     *)
CleanStatus(p) ==
    /\ poll[p].half # None
    /\ status' = [status EXCEPT ![poll[p].half] = "NEW"]
    /\ crossed' = crossed \ {poll[p].half}
    /\ poll' = [poll EXCEPT ![p] = [@ EXCEPT !.half = None]]
    /\ UNCHANGED <<ended, job, order, hand, late, web, notices, spent, answered, revived,
                   begun, overlapped>>

(* Mutant: job.complete is not saved.                                     *)
CompleteJobUnsaved(p) ==
    /\ poll[p].at = "clean" /\ poll[p].half = None /\ poll[p].todo = {}
    /\ poll' = [poll EXCEPT ![p] = [@ EXCEPT !.at = "notify"]]
    /\ UNCHANGED <<ended, taskVars, hand, late, web, notices, spent, histVars>>

CompleteJob(p) ==
    /\ poll[p].at = "clean" /\ poll[p].half = None /\ poll[p].todo = {}
    /\ job' = "complete"
    /\ poll' = [poll EXCEPT ![p] = [@ EXCEPT !.at = "notify"]]
    /\ UNCHANGED <<ended, status, order, hand, late, web, notices, spent, histVars>>

(* notify_booking_end: "the machines have been cleaned up".                *)
Notify(p) ==
    /\ poll[p].at = "notify"
    /\ notices' = notices + 1
    /\ poll' = [poll EXCEPT ![p] = IdlePoll]
    /\ UNCHANGED <<ended, taskVars, hand, late, web, spent, histVars>>

PollCrash(p) ==
    /\ poll[p].at # "idle"
    /\ Spend("worker", MaxCrashes)
    /\ poll' = [poll EXCEPT ![p] = IdlePoll]
    /\ UNCHANGED <<ended, taskVars, hand, late, web, notices, histVars>>

----------------------------------------------------------------------------
WebProgress ==
    \/ SaveImage \/ \E t \in Tasks : ResetForImage(t)
    \/ SaveTask \/ CheckClass \/ SendMail

WebRequest ==
    \/ \E T \in SUBSET Tasks : MakeJob(T)
    \/ \E i \in Snapshots : MakeSnapshot(i)
    \/ \E h \in Hosts : StartReimage(h)

LabStep ==
    \E t \in Tasks :
        \/ FetchTask(t)
        \/ \E s \in LabPosts, fresh \in BOOLEAN : LoadTask(t, s, fresh)

LabMessage == \E t \in Tasks : LoadTask(t, "message", FALSE)

PollStep(p) ==
    \/ PickJob(p) \/ CleanStatus(p) \/ CompleteJob(p) \/ Notify(p)
    \/ \E t \in Tasks : CleanConfig(p, t)

Next ==
    \/ WebRequest \/ WebProgress \/ WebCrash
    \/ LabStep \/ LabMessage
    \/ EndBooking
    \/ \E p \in Pollers : PollStep(p) \/ PollCrash(p)

Spec == Init /\ [][Next]_vars

(* The web worker goes on with its request and the lab works off its list; *)
(* nothing makes a booking end or a user ask for anything.                 *)
Fairness == WF_vars(WebProgress) /\ SF_vars(LabStep)

FairSpec == Spec /\ Fairness

----------------------------------------------------------------------------
(* Until the cleanup begins, "Your Booking is Ready" is mailed only when   *)
(* every task the job has is DONE and the lab has carried out its present  *)
(* order, re-images and snapshots included; the exceptions are tasks whose *)
(* status was posted about another order or written back by a message.     *)
ReadyMailHonest ==
    web.op = "mail" /\ ~begun =>
        \A t \in Existing : status[t] = "DONE" /\ t \in answered \cup crossed

(* A DONE task of a complete job that needs cleaning has been cleaned, not *)
(* only deployed, with the same exceptions.                                *)
DoneMeansCleaned ==
    job = "complete" =>
        \A t \in OfKinds(CleanedKinds) :
            status[t] = "DONE" /\ t \notin crossed \cup revived =>
                order[t] = "cleanup" /\ t \in answered

(* When the users are told that the booking has ended, every machine, VLAN *)
(* and VPN access has its cleanup order, and keeps it, unless a re-image   *)
(* request that began before the end wrote an old row back.                *)
NoticeMeansOrdered ==
    notices > 0 => \A t \in OfKinds(CleanedKinds) : order[t] = "cleanup" \/ t \in revived

(* The users are told once, unless two runs treated the booking at a time. *)
OneNotice == notices <= 1 \/ overlapped

(* The inductive invariant behind these, by topic.                         *)

(* Before the cleanup begins nothing asks for it.                          *)
InvBegun ==
    /\ begun => ended /\ job # "none"
    /\ \A p \in Pollers : poll[p].at # "idle" => begun
    /\ ~begun => Cleaned = {} /\ job # "complete"
    /\ job = "none" => Existing = {}
    /\ web.op = "image" => web.row = "deploy"

(* Requests and runs work on tasks that exist; a message is not an answer. *)
InvLoaded ==
    /\ web.op \in {"save", "image"} => web.t \in Existing
    /\ web.op = "save" /\ web.fresh => web.post # "message"
    /\ web.op = "reset" => web.todo \subseteq Existing
    /\ \A p \in Pollers : poll[p].at = "clean" =>
         poll[p].todo \subseteq Existing /\ poll[p].half \in Existing \cup {None}

(* Runs of booking_poll that do not overlap.                               *)
InvRuns ==
    /\ \A p \in Pollers :
         /\ poll[p].at = "notify" => job = "complete" /\ poll[p].todo = {}
         /\ poll[p].half # None => poll[p].at = "clean"
    /\ notices > 0 => job = "complete"
    /\ ~overlapped =>
         /\ notices <= 1
         /\ \A p \in Pollers : poll[p].at = "clean" => job = "open"
         /\ \A p \in Pollers : poll[p].at = "notify" => notices = 0
         /\ \A p, q \in Pollers : poll[p].at # "idle" /\ poll[q].at # "idle" => p = q

(* What DONE means while users deploy, and what a check has read so far.   *)
InvDeployed ==
    ~begun =>
        \A t \in Existing : status[t] = "DONE" =>
            t \in answered \cup crossed \/ (web.op = "reset" /\ t \in web.todo)

InvCheck ==
    /\ web.op = "check" => web.next \in 1..Len(Classes)
    /\ web.op = "check" /\ web.ok /\ ~begun =>
         \A i \in 1..(web.next - 1) : \A t \in OfKinds(Classes[i]) : status[t] = "DONE"
    /\ web.op = "mail" /\ ~begun => \A t \in Existing : status[t] = "DONE"

(* A run leaves every task it is through with ordered to be cleaned.       *)
Processed(t) ==
    \/ t \in revived
    \/ order[t] = "cleanup" /\ (status[t] = "DONE" => t \in answered \cup crossed)

InvProcessed ==
    /\ \A p \in Pollers : poll[p].at # "idle" =>
         \A t \in OfKinds(CleanedKinds) :
             t \in poll[p].todo \/ t = poll[p].half \/ Processed(t)
    /\ \A p \in Pollers : poll[p].half # None =>
         poll[p].half \in revived \/ order[poll[p].half] = "cleanup"
    /\ job = "complete" => \A t \in OfKinds(CleanedKinds) : Processed(t)

IInv ==
    /\ TypeOK
    /\ InvBegun
    /\ InvLoaded
    /\ InvRuns
    /\ InvDeployed
    /\ InvCheck
    /\ InvProcessed

(* Liveness: whenever a task is still to be done, the users learn that the *)
(* job is ready some time later, unless the booking ends or the web worker *)
(* dies first.                                                             *)
ReadyMailComes ==
    (\E t \in Existing : status[t] # "DONE") ~>
        (web.op = "mail" \/ ended \/ spent["web"] > 0)
=============================================================================
