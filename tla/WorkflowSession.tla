--------------------------- MODULE WorkflowSession ---------------------------
(***************************************************************************)
(* The workflow of one browser session: a stack of wizards.  Each frame is *)
(* a Workflow with its Repository; the page of a frame may open a child    *)
(* workflow, whose result lands in the parent's repository when the child  *)
(* is finished.  Every page writes twice: into the repository, from which  *)
(* make_models saves at the end, and into the summary (shown) that the     *)
(* confirmation page prints and the user agrees to.                        *)
(*                                                                         *)
(* Leaving a page is one action: the browser posts the page's form to the  *)
(* active step, waits for the answer, and asks for the next or the         *)
(* previous step.  So is confirming: the post to the confirmation page and *)
(* the request to finish.  Names, descriptions, dates and images of the    *)
(* forms are left out; a form is right or wrong.  A template is a list of  *)
(* named machines, a configuration covers some machines of a template.     *)
(***************************************************************************)
EXTENDS Naturals, Sequences, SequencesExt

CONSTANTS
    Templates,          \* GenericResourceBundles
    HostNames,          \* [Templates -> their machines' names, in order]
    StockTemplates,     \* saved before the session
    Configs, StockConfigs,
    OpnfvConfigs,
    Users,              \* who may be a collaborator
    Machines,           \* <<booking, host>> of the user's running bookings
    MaxDepth, MaxBacks, \* bounds
    None

ASSUME TemplatesAssumption ==
    /\ None \notin Templates
    /\ \A t \in Templates :
          HostNames[t] \in Seq(Range(HostNames[t])) /\ HostNames[t] # <<>>
    /\ StockTemplates \subseteq Templates
ASSUME ConfigsAssumption ==
    /\ None \notin Configs \cup OpnfvConfigs
    /\ DOMAIN StockConfigs \subseteq Configs /\ Range(StockConfigs) \subseteq StockTemplates
ASSUME MachinesAssumption == None \notin Machines /\ \A m \in Machines : m[1] # None
ASSUME BoundsAssumption == MaxDepth \in Nat \ {0} /\ MaxBacks \in Nat

VARIABLES
    stack,      \* SessionManager.workflows, the active one last
    templates,  \* saved GenericResourceBundles
    configs,    \* ConfigBundle: its template and the machines it configures
    opnfvs,     \* OPNFVConfig: its config, the template of its networks, its machines
    made,       \* what the last step made, beside what the user agreed to
    backs       \* times a user has gone back

vars == <<stack, templates, configs, opnfvs, made, backs>>

----------------------------------------------------------------------------
Steps ==
    [booking  |-> <<"Booking_Resource_Select", "SWConfig_Select", "Booking_Meta",
                    "OPNFV_Select", "Confirmation_Step">>,
     resource |-> <<"Define_Hardware", "Define_Nets", "Resource_Meta_Info",
                    "Confirmation_Step">>,
     config   |-> <<"SWConf_Resource_Select", "Define_Software", "Config_Software",
                    "Confirmation_Step">>,
     snapshot |-> <<"Select_Host_Step", "Image_Meta_Step", "Confirmation_Step">>,
     opnfv    |-> <<"OPNFV_Resource_Select", "Pick_Installer", "Assign_Network_Roles",
                    "Assign_Host_Roles", "MetaInfo", "Confirmation_Step">>]
Types == DOMAIN Steps

(* addable_type_num: the workflow a page can open.                         *)
ChildType ==
    [Booking_Resource_Select |-> "resource", SWConf_Resource_Select |-> "resource",
     SWConfig_Select |-> "config", OPNFV_Resource_Select |-> "config",
     OPNFV_Select |-> "opnfv"]

(* The machines of a template, in order.                                   *)
HostsOf(t) == [i \in 1..Len(HostNames[t]) |-> <<t, HostNames[t][i]>>]
AllHosts == UNION {Range(HostsOf(t)) : t \in Templates}

Unsaved == [of |-> None, hosts |-> {}]
UnsavedOpnfv == [of |-> None, nets |-> None, roles |-> {}]
SavedConfigs == {c \in Configs : configs[c] # Unsaved}
SavedOpnfvs == {o \in OpnfvConfigs : opnfvs[o] # UnsavedOpnfv}

Nothing == [type |-> "nothing"]

(* A new Workflow and its Repository, which inherits SELECTED_GRESOURCE_-  *)
(* BUNDLE alone.                                                           *)
NewFrame(type, t) ==
    [type |-> type, at |-> 1, valid |-> {}, picker |-> FALSE,
     template |-> t, config |-> None, opnfv |-> None, users |-> {},
     draft |-> None, nets |-> None, hosts |-> <<>>, roles |-> None,
     machine |-> None, booking |-> None,
     shown |-> [template |-> None, config |-> None, opnfv |-> None, users |-> {},
                draft |-> None, hosts |-> <<>>, machine |-> None]]

Top == stack[Len(stack)]
PageOf(f) == Steps[f.type][f.at]
OnPages(P) == stack # <<>> /\ PageOf(Top) \in P

Init ==
    /\ stack = <<>>
    /\ templates = StockTemplates
    /\ configs = [c \in Configs |->
                    IF c \in DOMAIN StockConfigs
                    THEN [of |-> StockConfigs[c], hosts |-> Range(HostsOf(StockConfigs[c]))]
                    ELSE Unsaved]
    /\ opnfvs = [o \in OpnfvConfigs |-> UnsavedOpnfv]
    /\ made = Nothing
    /\ backs = 0

----------------------------------------------------------------------------
(* Moving between pages. *)

Valid(f) == [f EXCEPT !.valid = @ \cup {f.at}]
Invalid(f) == [f EXCEPT !.valid = @ \ {f.at}]

(* OPNFV_Select is the only step that starts disabled.                     *)
Enabled(f, p) == Steps[f.type][p] = "OPNFV_Select" => f.picker

(* Mutant: go_next asks whether a step is valid, not whether this one is.  *)
GoNextOnceValid(f) ==
    IF f.valid # {}
    THEN [f EXCEPT !.at = IF Enabled(f, @ + 1) THEN @ + 1 ELSE @ + 2]
    ELSE f

GoNext(f) ==
    IF f.at \in f.valid
    THEN [f EXCEPT !.at = IF Enabled(f, @ + 1) THEN @ + 1 ELSE @ + 2]
    ELSE f
GoPrev(f) == [f EXCEPT !.at = IF Enabled(f, @ - 1) THEN @ - 1 ELSE @ - 2]

(* The page has been posted, and f is what the post made of the workflow.  *)
LeaveWith(f) ==
    /\ \/ /\ stack' = [stack EXCEPT ![Len(stack)] = GoNext(f)]
          /\ UNCHANGED backs
       \/ /\ f.at > 1 /\ backs < MaxBacks
          /\ stack' = [stack EXCEPT ![Len(stack)] = GoPrev(f)]
          /\ backs' = backs + 1
    /\ made' = Nothing
    /\ UNCHANGED <<templates, configs, opnfvs>>

----------------------------------------------------------------------------
(* The pages on which the user selects or opens a child.  A form that was  *)
(* emptied raises and changes nothing.  So does a selection that is not in *)
(* the form's queryset (any more): the widget puts it into the form, fails *)
(* to show it, and lets the user change nothing.                           *)
SelectOrCreate(f, key, choices) ==
    \/ f[key] \in choices \cup {None}
       /\ \E x \in choices : LeaveWith(Valid([f EXCEPT ![key] = x, !.shown[key] = x]))
    \/ f[key] = None /\ LeaveWith(Invalid(f))
    \/ LeaveWith(f)

Resource_Select ==
    /\ OnPages({"Booking_Resource_Select", "SWConf_Resource_Select"})
    /\ SelectOrCreate(Top, "template", templates)

SWConfig_Select ==
    /\ OnPages({"SWConfig_Select"})
    /\ SelectOrCreate(Top, "config", {c \in SavedConfigs : configs[c].of = Top.template})

OPNFV_Select ==
    /\ OnPages({"OPNFV_Select"})
    /\ SelectOrCreate(Top, "opnfv", {o \in SavedOpnfvs : opnfvs[o].of = Top.config})

OPNFV_Resource_Select ==
    /\ OnPages({"OPNFV_Resource_Select"})
    /\ SelectOrCreate(Top, "config", SavedConfigs)

(* Booking_Meta starts its list of collaborators afresh, then switches the *)
(* OPNFV page.  Switching it off raises when it is on, because the page    *)
(* has no cleanup(): the list stays empty and the summary as it was.       *)
Booking_Meta ==
    /\ OnPages({"Booking_Meta"})
    /\ \/ \E U \in SUBSET Users, deploy \in BOOLEAN :
            IF Top.picker /\ ~deploy
            THEN LeaveWith([Top EXCEPT !.users = {}])
            ELSE LeaveWith(Valid([Top EXCEPT !.users = U, !.shown.users = U,
                                             !.picker = deploy]))
       \/ LeaveWith(Invalid(Top))

(* A resource under definition: its machines, then the networks they are   *)
(* on.  An invalid list may already have replaced the machines.            *)
Define_Hardware ==
    /\ OnPages({"Define_Hardware"})
    /\ \/ \E t \in Templates \ templates :
            LeaveWith(Valid([Top EXCEPT !.draft = t, !.shown.draft = t]))
       \/ \E t \in {Top.draft, None} : LeaveWith(Invalid([Top EXCEPT !.draft = t]))

Define_Nets ==
    /\ OnPages({"Define_Nets"})
    /\ \/ LeaveWith(Valid([Top EXCEPT !.nets = Top.draft]))
       \/ LeaveWith(Invalid([Top EXCEPT !.nets = None]))

(* The form has a row for each machine configured before, if any; the      *)
(* machines are then those of the template selected now, by their places.  *)
(* More rows than machines raise, after all machines have been taken.      *)
Define_Software ==
    LET machines == HostsOf(Top.template)
        rows == IF Top.hosts = <<>> THEN Len(machines) ELSE Len(Top.hosts)
        taken == [Top EXCEPT !.hosts = SubSeq(machines, 1, rows)]
    IN  /\ OnPages({"Define_Software"})
        /\ \/ LeaveWith(Invalid(Top))
           \/ /\ rows <= Len(machines)
              /\ \/ LeaveWith(Valid([taken EXCEPT !.shown.hosts = taken.hosts]))
                 \/ Top.hosts # <<>> /\ LeaveWith(Invalid(taken))    \* no headnode
           \/ /\ rows > Len(machines)
              /\ LeaveWith([Top EXCEPT !.hosts = machines])

(* Mutant: the networks' roles are kept like the machines' roles.          *)
Assign_Network_RolesKeep ==
    /\ OnPages({"Assign_Network_Roles"})
    /\ \/ LeaveWith(Valid([Top EXCEPT !.nets = IF @ = None THEN configs[Top.config].of ELSE @]))
       \/ LeaveWith(Invalid(Top))

Assign_Network_Roles ==
    /\ OnPages({"Assign_Network_Roles"})
    /\ \/ LeaveWith(Valid([Top EXCEPT !.nets = configs[Top.config].of]))
       \/ LeaveWith(Invalid(Top))

(* The machines' names are taken when the page is shown for the first time.*)
Assign_Host_Roles ==
    LET listed == [Top EXCEPT !.roles = IF @ = None THEN configs[Top.config].of ELSE @]
    IN  /\ OnPages({"Assign_Host_Roles"})
        /\ LeaveWith(Valid(listed)) \/ LeaveWith(Invalid(listed))

(* The first machine stays, the booking and the summary are of the last.   *)
Select_Host_Step ==
    /\ OnPages({"Select_Host_Step"})
    /\ \/ \E h \in Machines :
            LeaveWith(Valid([Top EXCEPT !.machine = IF @ = None THEN h ELSE @,
                                        !.booking = h[1], !.shown.machine = h]))
       \/ LeaveWith(Invalid(Top))

(* Pages of names and descriptions, and of an installer.                   *)
Describe ==
    /\ OnPages({"Resource_Meta_Info", "Config_Software", "Pick_Installer", "MetaInfo",
                "Image_Meta_Step"})
    /\ LeaveWith(Valid(Top)) \/ LeaveWith(Invalid(Top))

----------------------------------------------------------------------------
(* Sessions. *)

(* A new session replaces the one the browser had.                         *)
CreateSession(type) ==
    /\ stack' = <<NewFrame(type, None)>>
    /\ made' = Nothing
    /\ UNCHANGED <<templates, configs, opnfvs, backs>>

AddWorkflow ==
    /\ OnPages(DOMAIN ChildType)
    /\ Len(stack) < MaxDepth
    /\ stack' = Append(stack, NewFrame(ChildType[PageOf(Top)], Top.template))
    /\ made' = Nothing
    /\ UNCHANGED <<templates, configs, opnfvs, backs>>

(* Mutant: the result is put under SELECTED_GRESOURCE_BUNDLE always.       *)
PopWithTemplate(key, x) ==
    stack' = IF Len(stack) = 1 THEN <<>>
             ELSE [Front(stack) EXCEPT ![Len(stack) - 1]["template"] = x]

(* pop_workflow and delete_session: without a result, and with the result  *)
(* x under the parent's key.                                               *)
Pop == stack' = Front(stack)
PopWith(key, x) ==
    stack' = IF Len(stack) = 1 THEN <<>>
             ELSE [Front(stack) EXCEPT ![Len(stack) - 1][key] = x]

(* Cancel, Exit Workflow and Return to Parent.                             *)
Leave ==
    /\ stack # <<>>
    /\ Pop
    /\ made' = Nothing
    /\ UNCHANGED <<templates, configs, opnfvs, backs>>

(* Back from the confirmation page, which posts nothing.                   *)
BackFromConfirm ==
    /\ OnPages({"Confirmation_Step"}) /\ backs < MaxBacks
    /\ stack' = [stack EXCEPT ![Len(stack)] = GoPrev(Top)]
    /\ backs' = backs + 1
    /\ made' = Nothing
    /\ UNCHANGED <<templates, configs, opnfvs>>

(* The managers live in the memory of the web worker.                      *)
Restart ==
    /\ stack # <<>>
    /\ stack' = <<>>
    /\ made' = Nothing
    /\ UNCHANGED <<templates, configs, opnfvs, backs>>

----------------------------------------------------------------------------
(* make_models, by the kind of the workflow, and the pop that follows it.  *)
(* What raises or reports an error makes nothing and has no result.        *)

Confirming(type) == OnPages({"Confirmation_Step"}) /\ Top.type = type

Made(saved) == [type |-> Top.type, saved |-> saved, shown |-> Top.shown]

MakeResource ==
    /\ Confirming("resource")
    /\ templates' = templates \cup {Top.draft}
    /\ made' = Made([draft |-> Top.draft])
    /\ PopWith("template", Top.draft)
    /\ UNCHANGED <<configs, opnfvs, backs>>

MakeConfig ==
    \E c \in Configs \ SavedConfigs :
        /\ Confirming("config")
        /\ configs' = [configs EXCEPT ![c] = [of |-> Top.template, hosts |-> Range(Top.hosts)]]
        /\ made' = Made([template |-> Top.template, hosts |-> Top.hosts])
        /\ PopWith("config", c)
        /\ UNCHANGED <<templates, opnfvs, backs>>

(* The machines are looked up by name in the configuration; one that is    *)
(* not there raises, and leaves what has been saved so far.                *)
Configured(c) == {h[2] : h \in configs[c].hosts}
MakeOpnfv ==
    \E o \in OpnfvConfigs \ SavedOpnfvs :
        LET names == HostNames[Top.roles]
            found == {n \in DOMAIN names : \A i \in 1..n : names[i] \in Configured(Top.config)}
        IN  /\ Confirming("opnfv")
            /\ opnfvs' = [opnfvs EXCEPT ![o] = [of |-> Top.config, nets |-> Top.nets,
                                                roles |-> {names[i] : i \in found}]]
            /\ IF found = DOMAIN names
               THEN /\ PopWith("opnfv", o)
                    /\ made' = Made([config |-> Top.config])
               ELSE Pop /\ made' = Nothing
            /\ UNCHANGED <<templates, configs, backs>>

(* Mutant: machines without a configuration are booked as they are.        *)
BookableAnyway(f) == TRUE

(* convertResourceBundle looks up the configuration of every machine of    *)
(* the template; machines may be short, or the user not allowed them.  The *)
(* OPNFV configuration is not given to the booking.  A snapshot needs its  *)
(* booking to be active still.                                             *)
Bookable(f) == Range(HostsOf(f.template)) \subseteq configs[f.config].hosts
MakeBooking(available) ==
    /\ Confirming("booking")
    /\ made' = IF Bookable(Top) /\ available
               THEN Made([template |-> Top.template, config |-> Top.config,
                          opnfv |-> None, users |-> Top.users])
               ELSE Nothing
    /\ Pop
    /\ UNCHANGED <<templates, configs, opnfvs, backs>>

MakeSnapshot(active) ==
    /\ Confirming("snapshot")
    /\ made' = IF active THEN Made([machine |-> Top.machine, booking |-> Top.booking])
               ELSE Nothing
    /\ Pop
    /\ UNCHANGED <<templates, configs, opnfvs, backs>>

(* Which kind it is shows in what the pages have put into the repository.  *)
MakeModels ==
    \/ MakeResource \/ MakeConfig \/ MakeOpnfv
    \/ \E active \in BOOLEAN : MakeBooking(active) \/ MakeSnapshot(active)

Next ==
    \/ Resource_Select \/ SWConfig_Select \/ OPNFV_Select \/ OPNFV_Resource_Select
    \/ Booking_Meta \/ Define_Hardware \/ Define_Nets \/ Define_Software
    \/ Assign_Network_Roles \/ Assign_Host_Roles \/ Select_Host_Step \/ Describe
    \/ \E type \in Types : CreateSession(type)
    \/ AddWorkflow \/ Leave \/ BackFromConfirm \/ Restart \/ MakeModels

Spec == Init /\ [][Next]_vars

----------------------------------------------------------------------------
(* Properties. *)

Summaries ==
    [template : Templates \cup {None}, config : Configs \cup {None},
     opnfv : OpnfvConfigs \cup {None}, users : SUBSET Users,
     draft : Templates \cup {None}, hosts : Seq(AllHosts),
     machine : Machines \cup {None}]
Frames ==
    [type : Types, at : 1..6, valid : SUBSET (1..5), picker : BOOLEAN,
     template : Templates \cup {None}, config : Configs \cup {None},
     opnfv : OpnfvConfigs \cup {None}, users : SUBSET Users,
     draft : Templates \cup {None}, nets : Templates \cup {None},
     hosts : Seq(AllHosts), roles : Templates \cup {None},
     machine : Machines \cup {None}, booking : {m[1] : m \in Machines} \cup {None},
     shown : Summaries]

(* Every frame is on a page of its workflow, and has valid pages only.     *)
TypeOK ==
    /\ stack \in Seq(Frames) /\ Len(stack) <= MaxDepth
    /\ \A i \in DOMAIN stack :
        stack[i].at \in DOMAIN Steps[stack[i].type]
    /\ templates \subseteq Templates
    /\ configs \in [Configs -> [of : Templates \cup {None}, hosts : SUBSET AllHosts]]
    /\ opnfvs \in [OpnfvConfigs -> [of : Configs \cup {None}, nets : Templates \cup {None},
                                   roles : SUBSET UNION {Range(HostNames[s]) : s \in Templates}]]
    /\ made.type \in Types \cup {"nothing"}
    /\ backs \in 0..MaxBacks

(* make_models finds in the repository all that it reads, in every order   *)
(* of pages, children and going back: at the confirmation page nothing is  *)
(* missing, and what was derived from an earlier page is of what that page *)
(* says now.  (The machines' names of an OPNFV configuration are not.)     *)
Ready(f) ==
    CASE f.type = "booking"  -> /\ f.template # None /\ f.config # None
                                /\ f.picker => f.opnfv # None
      [] f.type = "resource" -> f.draft # None /\ f.nets = f.draft
      [] f.type = "config"   -> /\ f.template # None /\ f.hosts # <<>>
                                /\ Range(f.hosts) \subseteq Range(HostsOf(f.template))
      [] f.type = "opnfv"    -> /\ f.config # None /\ f.roles # None
                                /\ f.nets = configs[f.config].of
      [] f.type = "snapshot" -> f.machine # None /\ f.booking # None
ReadyAtConfirm ==
    \A i \in DOMAIN stack : PageOf(stack[i]) = "Confirmation_Step" => Ready(stack[i])

(* A booking the workflow makes has a software configuration made for its  *)
(* template, and in it one for each machine, whatever the user changed     *)
(* after choosing it.                                                      *)
BookingsConfigured ==
    made.type = "booking" =>
        /\ configs[made.saved.config].of = made.saved.template
        /\ Range(HostsOf(made.saved.template)) \subseteq configs[made.saved.config].hosts

(* What is saved fits what it was made from: a configuration has machines  *)
(* of its template only; an OPNFV configuration has the networks of its    *)
(* configuration's template and roles for configured machines.             *)
SavedObjectsFit ==
    /\ \A c \in SavedConfigs :
        configs[c].of \in templates /\ configs[c].hosts \subseteq Range(HostsOf(configs[c].of))
    /\ \A o \in SavedOpnfvs :
        /\ opnfvs[o].of \in SavedConfigs
        /\ opnfvs[o].nets = configs[opnfvs[o].of].of
        /\ opnfvs[o].roles \subseteq Configured(opnfvs[o].of)

(* Confirmation_Step asks "Does this all look right?" (workflow/models.py) *)
(* of the summary: what is made is what it says.                           *)
ConfirmationHonest ==
    made.type # "nothing" =>
        \A k \in DOMAIN made.saved \cap DOMAIN made.shown : made.saved[k] = made.shown[k]

----------------------------------------------------------------------------
(* The inductive invariant behind the properties.                          *)

(* A workflow that waits for a child is still on the page that opened it,  *)
(* so a result lands in front of everything derived from it.               *)
InvNested ==
    \A i \in 1..Len(stack) - 1 :
        /\ PageOf(stack[i]) \in DOMAIN ChildType
        /\ stack[i + 1].type = ChildType[PageOf(stack[i])]

(* What is selected has been saved, and what a page that was passed, or    *)
(* that counts as valid, had to provide is there.                          *)
Progress(f) ==
    /\ f.template \in templates \cup {None}
    /\ f.config \in SavedConfigs \cup {None}
    /\ f.type = "booking" =>
         /\ f.at > 1 \/ 1 \in f.valid => f.template # None
         /\ f.at > 2 \/ 2 \in f.valid => f.config # None
         /\ (f.at > 4 /\ f.picker) \/ 4 \in f.valid => f.opnfv # None
    /\ f.type = "resource" =>
         /\ f.at > 1 => f.draft # None
         /\ f.at > 2 => f.nets = f.draft
    /\ f.type = "config" =>
         /\ f.at > 1 \/ 1 \in f.valid => f.template # None
         /\ f.at > 2 => f.hosts # <<>> /\ Range(f.hosts) \subseteq Range(HostsOf(f.template))
    /\ f.type = "opnfv" =>
         /\ f.at > 1 \/ 1 \in f.valid => f.config # None
         /\ f.at > 3 => f.nets = configs[f.config].of
         /\ f.at > 4 => f.roles # None
    /\ f.type = "snapshot" /\ f.at > 1 => f.machine # None /\ f.booking # None

InvFrames == \A i \in DOMAIN stack : Progress(stack[i])

IInv ==
    /\ TypeOK
    /\ InvNested
    /\ InvFrames
    /\ SavedObjectsFit
    /\ BookingsConfigured

=============================================================================
