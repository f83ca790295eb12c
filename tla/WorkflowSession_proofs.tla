----------------------- MODULE WorkflowSession_proofs -----------------------
(***************************************************************************)
(* Proofs about WorkflowSession for any templates, machines and stock, any *)
(* depth of nested workflows and any number of steps back.                 *)
(***************************************************************************)
EXTENDS WorkflowSession, SequenceTheorems, TLAPS

(* The pages of the workflows, and where each of them is.                  *)
LEMMA Pages ==
  /\ Types = {"booking", "resource", "config", "snapshot", "opnfv"}
  /\ Steps["booking"] = <<"Booking_Resource_Select", "SWConfig_Select", "Booking_Meta",
                          "OPNFV_Select", "Confirmation_Step">>
  /\ Steps["resource"] = <<"Define_Hardware", "Define_Nets", "Resource_Meta_Info",
                           "Confirmation_Step">>
  /\ Steps["config"] = <<"SWConf_Resource_Select", "Define_Software", "Config_Software",
                         "Confirmation_Step">>
  /\ Steps["snapshot"] = <<"Select_Host_Step", "Image_Meta_Step", "Confirmation_Step">>
  /\ Steps["opnfv"] = <<"OPNFV_Resource_Select", "Pick_Installer", "Assign_Network_Roles",
                        "Assign_Host_Roles", "MetaInfo", "Confirmation_Step">>
BY DEF Types, Steps

LEMMA LastPage ==
  ASSUME NEW t \in Types
  PROVE  /\ DOMAIN Steps[t] = 1..Len(Steps[t]) /\ Len(Steps[t]) \in 3..6
         /\ t = "booking" => Len(Steps[t]) = 5
         /\ t \in {"resource", "config"} => Len(Steps[t]) = 4
         /\ t = "snapshot" => Len(Steps[t]) = 3
         /\ t = "opnfv" => Len(Steps[t]) = 6
<1>1. CASE t = "booking"
  BY <1>1, Pages
<1>2. CASE t = "resource"
  BY <1>2, Pages
<1>3. CASE t = "config"
  BY <1>3, Pages
<1>4. CASE t = "snapshot"
  BY <1>4, Pages
<1>5. CASE t = "opnfv"
  BY <1>5, Pages
<1>. QED BY <1>1, <1>2, <1>3, <1>4, <1>5, Pages

LEMMA PageAt ==
  ASSUME NEW t \in Types, NEW p \in DOMAIN Steps[t]
  PROVE  /\ t = "booking" =>
              /\ Steps[t][p] \in {"Booking_Resource_Select", "SWConfig_Select", "Booking_Meta",
                                  "OPNFV_Select", "Confirmation_Step"}
              /\ Steps[t][p] = "Booking_Resource_Select" <=> p = 1
              /\ Steps[t][p] = "SWConfig_Select" <=> p = 2
              /\ Steps[t][p] = "Booking_Meta" <=> p = 3
              /\ Steps[t][p] = "OPNFV_Select" <=> p = 4
              /\ Steps[t][p] = "Confirmation_Step" <=> p = 5
         /\ t = "resource" =>
              /\ Steps[t][p] \in {"Define_Hardware", "Define_Nets", "Resource_Meta_Info",
                                  "Confirmation_Step"}
              /\ Steps[t][p] = "Define_Hardware" <=> p = 1
              /\ Steps[t][p] = "Define_Nets" <=> p = 2
              /\ Steps[t][p] = "Resource_Meta_Info" <=> p = 3
              /\ Steps[t][p] = "Confirmation_Step" <=> p = 4
         /\ t = "config" =>
              /\ Steps[t][p] \in {"SWConf_Resource_Select", "Define_Software", "Config_Software",
                                  "Confirmation_Step"}
              /\ Steps[t][p] = "SWConf_Resource_Select" <=> p = 1
              /\ Steps[t][p] = "Define_Software" <=> p = 2
              /\ Steps[t][p] = "Config_Software" <=> p = 3
              /\ Steps[t][p] = "Confirmation_Step" <=> p = 4
         /\ t = "snapshot" =>
              /\ Steps[t][p] \in {"Select_Host_Step", "Image_Meta_Step", "Confirmation_Step"}
              /\ Steps[t][p] = "Select_Host_Step" <=> p = 1
              /\ Steps[t][p] = "Image_Meta_Step" <=> p = 2
              /\ Steps[t][p] = "Confirmation_Step" <=> p = 3
         /\ t = "opnfv" =>
              /\ Steps[t][p] \in {"OPNFV_Resource_Select", "Pick_Installer",
                                  "Assign_Network_Roles", "Assign_Host_Roles", "MetaInfo",
                                  "Confirmation_Step"}
              /\ Steps[t][p] = "OPNFV_Resource_Select" <=> p = 1
              /\ Steps[t][p] = "Pick_Installer" <=> p = 2
              /\ Steps[t][p] = "Assign_Network_Roles" <=> p = 3
              /\ Steps[t][p] = "Assign_Host_Roles" <=> p = 4
              /\ Steps[t][p] = "MetaInfo" <=> p = 5
              /\ Steps[t][p] = "Confirmation_Step" <=> p = 6
<1>0. p \in 1..Len(Steps[t])
  BY LastPage
<1>1. CASE t = "booking"
  <2>1. p \in 1..5
    BY <1>0, <1>1, LastPage
  <2>. QED BY <2>1, <1>1, Pages
<1>2. CASE t = "resource"
  <2>1. p \in 1..4
    BY <1>0, <1>2, LastPage
  <2>. QED BY <2>1, <1>2, Pages
<1>3. CASE t = "config"
  <2>1. p \in 1..4
    BY <1>0, <1>3, LastPage
  <2>. QED BY <2>1, <1>3, Pages
<1>4. CASE t = "snapshot"
  <2>1. p \in 1..3
    BY <1>0, <1>4, LastPage
  <2>. QED BY <2>1, <1>4, Pages
<1>5. CASE t = "opnfv"
  <2>1. p \in 1..6
    BY <1>0, <1>5, LastPage
  <2>. QED BY <2>1, <1>5, Pages
<1>. QED BY <1>1, <1>2, <1>3, <1>4, <1>5, Pages

LEMMA SpecialPages ==
  ASSUME NEW t \in Types, NEW p \in DOMAIN Steps[t]
  PROVE  /\ Steps[t][p] = "Confirmation_Step" <=> p = Len(Steps[t])
         /\ Steps[t][p] = "OPNFV_Select" <=> t = "booking" /\ p = 4
<1>0. p \in 1..Len(Steps[t])
  BY LastPage
<1>1. CASE t = "booking"
  <2>1. p \in 1..5 /\ Len(Steps[t]) = 5
    BY <1>0, <1>1, LastPage
  <2>. QED BY <2>1, <1>1, Pages
<1>2. CASE t = "resource"
  <2>1. p \in 1..4 /\ Len(Steps[t]) = 4
    BY <1>0, <1>2, LastPage
  <2>. QED BY <2>1, <1>2, Pages
<1>3. CASE t = "config"
  <2>1. p \in 1..4 /\ Len(Steps[t]) = 4
    BY <1>0, <1>3, LastPage
  <2>. QED BY <2>1, <1>3, Pages
<1>4. CASE t = "snapshot"
  <2>1. p \in 1..3 /\ Len(Steps[t]) = 3
    BY <1>0, <1>4, LastPage
  <2>. QED BY <2>1, <1>4, Pages
<1>5. CASE t = "opnfv"
  <2>1. p \in 1..6 /\ Len(Steps[t]) = 6
    BY <1>0, <1>5, LastPage
  <2>. QED BY <2>1, <1>5, Pages
<1>. QED BY <1>1, <1>2, <1>3, <1>4, <1>5, Pages

(* What a machine list is made of.                                         *)
LEMMA HostsOfType ==
  ASSUME NEW t \in Templates
  PROVE  /\ HostsOf(t) \in Seq(AllHosts) /\ HostsOf(t) # <<>> /\ Len(HostsOf(t)) \in Nat \ {0}
         /\ Len(HostsOf(t)) = Len(HostNames[t])
         /\ Range(HostsOf(t)) \subseteq AllHosts
         /\ \A h \in Range(HostsOf(t)) : h[1] = t /\ h[2] \in Range(HostNames[t])
<1>1. HostNames[t] \in Seq(Range(HostNames[t])) /\ Len(HostNames[t]) \in Nat \ {0}
      /\ DOMAIN HostNames[t] = 1..Len(HostNames[t])
  BY TemplatesAssumption
<1>2. Range(HostsOf(t)) \subseteq AllHosts
  BY DEF AllHosts
<1>3. /\ DOMAIN HostsOf(t) = 1..Len(HostNames[t])
      /\ \A i \in 1..Len(HostNames[t]) : HostsOf(t)[i] = <<t, HostNames[t][i]>>
  BY DEF HostsOf
<1>4. \A h \in Range(HostsOf(t)) : h[1] = t /\ h[2] \in Range(HostNames[t])
  BY <1>1, <1>3 DEF Range
<1>5. \A i \in 1..Len(HostNames[t]) : HostsOf(t)[i] \in AllHosts
  BY <1>2, <1>3 DEF Range
<1>6. HostsOf(t) \in Seq(AllHosts)
  <2>1. HostsOf(t) \in [1..Len(HostNames[t]) -> AllHosts]
    BY <1>5 DEF HostsOf
  <2>. QED BY <1>1, <2>1
<1>7. Len(HostsOf(t)) = Len(HostNames[t])
  BY <1>1, <1>3, <1>6
<1>8. HostsOf(t) # <<>>
  BY <1>1, <1>7, <1>6
<1>. QED BY <1>1, <1>2, <1>4, <1>6, <1>7, <1>8

----------------------------------------------------------------------------
(* Frames.                                                                 *)

(* What the active page had to provide, once it is valid.                  *)
Done(f) ==
  /\ f.type = "resource" /\ f.at = 1 => f.draft # None
  /\ f.type = "resource" /\ f.at = 2 => f.nets = f.draft
  /\ f.type = "config" /\ f.at = 2 =>
       f.hosts # <<>> /\ Range(f.hosts) \subseteq Range(HostsOf(f.template))
  /\ f.type = "opnfv" /\ f.at = 3 => f.nets = configs[f.config].of
  /\ f.type = "opnfv" /\ f.at = 4 => f.roles # None
  /\ f.type = "snapshot" /\ f.at = 1 => f.machine # None /\ f.booking # None

(* A frame of the right types on a page of its workflow.                   *)
FrameOK(f) == f \in Frames /\ f.at \in DOMAIN Steps[f.type]

LEMMA FrameAt ==
  ASSUME NEW f, FrameOK(f)
  PROVE  /\ f.type \in Types /\ f.at \in 1..Len(Steps[f.type]) /\ Len(Steps[f.type]) \in 3..6
         /\ PageOf(f) = "Confirmation_Step" <=> f.at = Len(Steps[f.type])
         /\ f.valid \subseteq 1..5
         /\ f.at \in 1..6 /\ DOMAIN Steps[f.type] \subseteq 1..6
<1>1. f.type \in Types /\ f.valid \subseteq 1..5
  BY DEF FrameOK, Frames
<1>2. f.at \in DOMAIN Steps[f.type] /\ DOMAIN Steps[f.type] = 1..Len(Steps[f.type])
      /\ Len(Steps[f.type]) \in 3..6
  BY <1>1, LastPage DEF FrameOK
<1>3. PageOf(f) = "Confirmation_Step" <=> f.at = Len(Steps[f.type])
  BY <1>1, <1>2, SpecialPages DEF PageOf
<1>4. DOMAIN Steps[f.type] \subseteq 1..6
  <2>. DEFINE n == Len(Steps[f.type])
  <2>1. DOMAIN Steps[f.type] = 1..n /\ n \in 3..6
    BY <1>2
  <2>. HIDE DEF n
  <2>. QED BY <2>1
<1>. QED BY <1>1, <1>2, <1>3, <1>4

(* The same frame on another page.                                         *)
LEMMA AtPage ==
  ASSUME NEW f \in Frames, NEW q \in 1..6
  PROVE  LET g == [f EXCEPT !.at = q] IN
         /\ g \in Frames /\ g.at = q
         /\ g.type = f.type /\ g.valid = f.valid /\ g.picker = f.picker
         /\ g.template = f.template /\ g.config = f.config /\ g.opnfv = f.opnfv
         /\ g.draft = f.draft /\ g.nets = f.nets /\ g.hosts = f.hosts /\ g.roles = f.roles
         /\ g.machine = f.machine /\ g.booking = f.booking
BY ZenonT(60) DEF Frames

(* Where go_next and go_prev lead.                                         *)
LEMMA Moves ==
  ASSUME NEW f, FrameOK(f), PageOf(f) # "Confirmation_Step"
  PROVE  \E q \in DOMAIN Steps[f.type] :
            /\ GoNext(f) = [f EXCEPT !.at = q]
            /\ \/ q = f.at
               \/ q = f.at + 1 /\ f.at \in f.valid
               \/ /\ f.type = "booking" /\ f.at = 3 /\ q = 5 /\ ~f.picker
                  /\ f.at \in f.valid
<1>1. /\ f.type \in Types /\ f.at \in 1..Len(Steps[f.type]) /\ Len(Steps[f.type]) \in 3..6
      /\ f.at # Len(Steps[f.type]) /\ DOMAIN Steps[f.type] = 1..Len(Steps[f.type])
  BY FrameAt, LastPage
<1>2. f.at + 1 \in DOMAIN Steps[f.type]
  BY <1>1
<1>3. CASE f.at \notin f.valid
  <2>1. GoNext(f) = f
    BY <1>3 DEF GoNext
  <2>2. f = [f EXCEPT !.at = f.at]
    BY DEF FrameOK, Frames
  <2>. QED BY <1>1, <2>1, <2>2
<1>4. CASE f.at \in f.valid /\ Enabled(f, f.at + 1)
  BY <1>2, <1>4 DEF GoNext
<1>5. CASE f.at \in f.valid /\ ~Enabled(f, f.at + 1)
  <2>1. Steps[f.type][f.at + 1] = "OPNFV_Select" /\ ~f.picker
    BY <1>5 DEF Enabled
  <2>2. f.type = "booking" /\ f.at = 3
    BY <1>1, <1>2, <2>1, SpecialPages
  <2>3. 5 \in DOMAIN Steps[f.type] /\ f.at + 2 = 5
    BY <1>1, <2>2, LastPage, SMTT(30)
  <2>. QED BY <1>5, <2>1, <2>2, <2>3 DEF GoNext
<1>. QED BY <1>3, <1>4, <1>5

LEMMA MovesBack ==
  ASSUME NEW f, FrameOK(f), f.at > 1
  PROVE  \E q \in DOMAIN Steps[f.type] : q < f.at /\ GoPrev(f) = [f EXCEPT !.at = q]
<1>1. /\ f.type \in Types /\ f.at \in 1..Len(Steps[f.type]) /\ Len(Steps[f.type]) \in 3..6
      /\ DOMAIN Steps[f.type] = 1..Len(Steps[f.type])
  BY FrameAt, LastPage
<1>2. f.at - 1 \in DOMAIN Steps[f.type]
  BY <1>1
<1>3. CASE Enabled(f, f.at - 1)
  BY <1>1, <1>2, <1>3 DEF GoPrev
<1>4. CASE ~Enabled(f, f.at - 1)
  <2>1. Steps[f.type][f.at - 1] = "OPNFV_Select"
    BY <1>4 DEF Enabled
  <2>2. f.at = 5
    BY <1>1, <1>2, <2>1, SpecialPages
  <2>3. f.at - 2 \in DOMAIN Steps[f.type] /\ f.at - 2 < f.at
    BY <1>1, <2>2
  <2>. QED BY <1>4, <2>3 DEF GoPrev
<1>. QED BY <1>3, <1>4

(* Going back keeps what was there, going on adds what the page provides.  *)
LEMMA ProgressBack ==
  ASSUME NEW f, FrameOK(f), Progress(f), NEW q \in DOMAIN Steps[f.type], q <= f.at
  PROVE  FrameOK([f EXCEPT !.at = q]) /\ Progress([f EXCEPT !.at = q])
<1>. DEFINE g == [f EXCEPT !.at = q]
<1>1. q \in 1..6 /\ f.at \in 1..6 /\ f \in Frames
  BY FrameAt, LastPage DEF FrameOK
<1>2. /\ g \in Frames /\ g.at = q
      /\ g.type = f.type /\ g.valid = f.valid /\ g.picker = f.picker
      /\ g.template = f.template /\ g.config = f.config /\ g.opnfv = f.opnfv
      /\ g.draft = f.draft /\ g.nets = f.nets /\ g.hosts = f.hosts /\ g.roles = f.roles
      /\ g.machine = f.machine /\ g.booking = f.booking
  BY <1>1, AtPage
<1>. HIDE DEF g
<1>3. FrameOK(g)
  BY <1>2 DEF FrameOK
<1>4. Progress(g)
  BY <1>1, <1>2 DEF Progress
<1>. QED BY <1>3, <1>4 DEF g

LEMMA ProgressOn ==
  ASSUME NEW f, FrameOK(f), Progress(f), Done(f), f.at \in f.valid,
         NEW q \in DOMAIN Steps[f.type],
         q = f.at + 1 \/ (f.type = "booking" /\ f.at = 3 /\ q = 5 /\ ~f.picker)
  PROVE  FrameOK([f EXCEPT !.at = q]) /\ Progress([f EXCEPT !.at = q])
<1>. DEFINE g == [f EXCEPT !.at = q]
<1>1. q \in 1..6 /\ f.at \in 1..6 /\ f \in Frames
  BY FrameAt, LastPage DEF FrameOK
<1>2. /\ g \in Frames /\ g.at = q
      /\ g.type = f.type /\ g.valid = f.valid /\ g.picker = f.picker
      /\ g.template = f.template /\ g.config = f.config /\ g.opnfv = f.opnfv
      /\ g.draft = f.draft /\ g.nets = f.nets /\ g.hosts = f.hosts /\ g.roles = f.roles
      /\ g.machine = f.machine /\ g.booking = f.booking
  BY <1>1, AtPage
<1>. HIDE DEF g
<1>3. FrameOK(g)
  BY <1>2 DEF FrameOK
<1>4. Progress(g)
  BY <1>1, <1>2 DEF Progress, Done
<1>. QED BY <1>3, <1>4 DEF g

(* The post has marked the page.                                           *)
LEMMA Marked ==
  ASSUME NEW f, FrameOK(f), PageOf(f) # "Confirmation_Step"
  PROVE  /\ FrameOK(Valid(f)) /\ FrameOK(Invalid(f))
         /\ \A g \in {Valid(f), Invalid(f)} :
              /\ g.type = f.type /\ g.at = f.at /\ g.picker = f.picker
              /\ g.template = f.template /\ g.config = f.config /\ g.opnfv = f.opnfv
              /\ g.draft = f.draft /\ g.nets = f.nets /\ g.hosts = f.hosts /\ g.roles = f.roles
              /\ g.machine = f.machine /\ g.booking = f.booking
         /\ Valid(f).valid = f.valid \cup {f.at} /\ Invalid(f).valid = f.valid \ {f.at}
<1>1. f \in Frames /\ f.valid \subseteq 1..5 /\ f.at \in 1..Len(Steps[f.type])
      /\ Len(Steps[f.type]) \in 3..6 /\ f.at # Len(Steps[f.type])
  BY FrameAt DEF FrameOK
<1>2. f.at \in 1..5
  <2>. DEFINE n == Len(Steps[f.type])
  <2>1. f.at \in 1..n /\ n \in 3..6 /\ f.at # n
    BY <1>1
  <2>. HIDE DEF n
  <2>. QED BY <2>1
<1>3. ASSUME NEW V \in SUBSET (1..5), NEW g, g = [f EXCEPT !.valid = V]
      PROVE  /\ g \in Frames /\ g.valid = V
             /\ g.type = f.type /\ g.at = f.at /\ g.picker = f.picker
             /\ g.template = f.template /\ g.config = f.config /\ g.opnfv = f.opnfv
             /\ g.draft = f.draft /\ g.nets = f.nets /\ g.hosts = f.hosts /\ g.roles = f.roles
             /\ g.machine = f.machine /\ g.booking = f.booking
  BY <1>1, <1>3 DEF Frames
<1>4. /\ Valid(f) = [f EXCEPT !.valid = f.valid \cup {f.at}]
      /\ Invalid(f) = [f EXCEPT !.valid = f.valid \ {f.at}]
  BY DEF Valid, Invalid
<1>5. f.valid \cup {f.at} \in SUBSET (1..5) /\ f.valid \ {f.at} \in SUBSET (1..5)
  BY <1>1, <1>2
<1>. QED BY <1>3, <1>4, <1>5 DEF FrameOK

----------------------------------------------------------------------------
(* The stack.                                                              *)

LEMMA FramesOfStack ==
  ASSUME TypeOK
  PROVE  /\ stack \in Seq(Frames) /\ Len(stack) \in Nat /\ DOMAIN stack = 1..Len(stack)
         /\ \A i \in DOMAIN stack : FrameOK(stack[i])
         /\ stack # <<>> => Len(stack) \in DOMAIN stack /\ FrameOK(Top)
<1>1. stack \in Seq(Frames) /\ Len(stack) \in Nat /\ DOMAIN stack = 1..Len(stack)
  BY DEF TypeOK
<1>2. \A i \in DOMAIN stack : FrameOK(stack[i])
  BY <1>1 DEF TypeOK, FrameOK
<1>3. stack # <<>> => Len(stack) \in DOMAIN stack
  BY <1>1
<1>. QED BY <1>1, <1>2, <1>3 DEF Top

(* What the stack is after a step.                                         *)
StackKept ==
  /\ stack' \in Seq(Frames) /\ Len(stack') <= MaxDepth
  /\ \A i \in DOMAIN stack' : stack'[i].at \in DOMAIN Steps[stack'[i].type]
  /\ InvNested'

(* The active frame becomes another one of its kind.                       *)
LEMMA ReplaceTop ==
  ASSUME TypeOK, InvNested, stack # <<>>, NEW g, FrameOK(g), g.type = Top.type,
         stack' = [stack EXCEPT ![Len(stack)] = g]
  PROVE  /\ StackKept
         /\ \A i \in DOMAIN stack' : i \in DOMAIN stack /\ stack'[i] \in {g, stack[i]}
<1>1. /\ stack \in Seq(Frames) /\ Len(stack) \in Nat \ {0} /\ Len(stack) <= MaxDepth
      /\ \A i \in 1..Len(stack) : FrameOK(stack[i])
  BY FramesOfStack DEF TypeOK
<1>2. g \in Frames
  BY DEF FrameOK
<1>3. /\ stack' \in Seq(Frames) /\ Len(stack') = Len(stack)
      /\ \A i \in 1..Len(stack) : stack'[i] = IF i = Len(stack) THEN g ELSE stack[i]
  BY <1>1, <1>2, ExceptSeq
<1>4. DOMAIN stack' = 1..Len(stack) /\ DOMAIN stack = 1..Len(stack)
  BY <1>1, <1>3
<1>5. \A i \in DOMAIN stack' : stack'[i].at \in DOMAIN Steps[stack'[i].type]
  BY <1>1, <1>3, <1>4 DEF FrameOK
<1>6. InvNested'
  <2>. SUFFICES ASSUME NEW i \in 1..Len(stack) - 1
                PROVE  /\ PageOf(stack'[i]) \in DOMAIN ChildType
                       /\ stack'[i + 1].type = ChildType[PageOf(stack'[i])]
    BY <1>3 DEF InvNested, PageOf
  <2>1. i \in 1..Len(stack) /\ i + 1 \in 1..Len(stack) /\ i # Len(stack)
    BY <1>1
  <2>2. stack'[i] = stack[i] /\ stack'[i + 1].type = stack[i + 1].type
    BY <1>3, <2>1 DEF Top
  <2>. QED BY <2>2 DEF InvNested
<1>. QED BY <1>1, <1>3, <1>4, <1>5, <1>6 DEF StackKept

(* The active frame goes.                                                  *)
LEMMA FrontFrames ==
  ASSUME TypeOK, stack # <<>>
  PROVE  /\ Front(stack) \in Seq(Frames) /\ Len(Front(stack)) = Len(stack) - 1
         /\ DOMAIN Front(stack) = 1..Len(stack) - 1
         /\ \A i \in 1..Len(stack) - 1 : Front(stack)[i] = stack[i]
<1>1. /\ stack \in Seq(Frames) /\ Len(stack) \in Nat \ {0}
      /\ \A i \in 1..Len(stack) - 1 : stack[i] \in Frames
  BY FramesOfStack
<1>2. /\ Front(stack) \in Seq(Frames)
      /\ Len(Front(stack)) = IF 1 <= Len(stack) - 1 THEN Len(stack) - 1 - 1 + 1 ELSE 0
      /\ \A i \in 1..Len(stack) - 1 - 1 + 1 : Front(stack)[i] = stack[1 + i - 1]
  BY <1>1, SubSeqProperties DEF Front
<1>3. Len(Front(stack)) = Len(stack) - 1
  <2>. DEFINE n == Len(stack)
  <2>1. n \in Nat \ {0} /\ Len(Front(stack)) = IF 1 <= n - 1 THEN n - 1 - 1 + 1 ELSE 0
    BY <1>1, <1>2
  <2>. HIDE DEF n
  <2>2. Len(Front(stack)) = n - 1
    BY <2>1
  <2>. QED BY <2>2 DEF n
<1>4. \A i \in 1..Len(stack) - 1 : Front(stack)[i] = stack[i]
  BY <1>1, <1>2
<1>. QED BY <1>2, <1>3, <1>4

LEMMA PopTop ==
  ASSUME TypeOK, InvNested, stack # <<>>, stack' = Front(stack)
  PROVE  /\ StackKept
         /\ \A i \in DOMAIN stack' : i \in DOMAIN stack /\ stack'[i] = stack[i]
<1>1. /\ Len(stack) \in Nat \ {0} /\ Len(stack) <= MaxDepth /\ DOMAIN stack = 1..Len(stack)
      /\ \A i \in 1..Len(stack) : FrameOK(stack[i])
  BY FramesOfStack DEF TypeOK
<1>2. /\ stack' \in Seq(Frames) /\ Len(stack') = Len(stack) - 1
      /\ DOMAIN stack' = 1..Len(stack) - 1
      /\ \A i \in 1..Len(stack) - 1 : stack'[i] = stack[i]
  BY FrontFrames
<1>3. \A i \in DOMAIN stack' : stack'[i].at \in DOMAIN Steps[stack'[i].type]
  BY <1>1, <1>2 DEF FrameOK
<1>4. InvNested'
  <2>. SUFFICES ASSUME NEW i \in 1..(Len(stack) - 1) - 1
                PROVE  /\ PageOf(stack'[i]) \in DOMAIN ChildType
                       /\ stack'[i + 1].type = ChildType[PageOf(stack'[i])]
    BY <1>2 DEF InvNested, PageOf
  <2>1. i \in 1..Len(stack) - 1 /\ i + 1 \in 1..Len(stack) - 1
    BY <1>1
  <2>. QED BY <1>2, <2>1 DEF InvNested
<1>5. Len(stack') <= MaxDepth
  BY <1>1, <1>2, BoundsAssumption
<1>. QED BY <1>1, <1>2, <1>3, <1>4, <1>5 DEF StackKept

(* It goes, and its parent becomes another frame of its kind.              *)
LEMMA PopInto ==
  ASSUME TypeOK, InvNested, Len(stack) > 1, NEW g, FrameOK(g),
         g.type = stack[Len(stack) - 1].type,
         stack' = [Front(stack) EXCEPT ![Len(stack) - 1] = g]
  PROVE  /\ StackKept
         /\ \A i \in DOMAIN stack' : i \in DOMAIN stack /\ stack'[i] \in {g, stack[i]}
<1>1. /\ Len(stack) \in Nat /\ Len(stack) <= MaxDepth /\ DOMAIN stack = 1..Len(stack)
      /\ stack # <<>> /\ MaxDepth \in Nat
      /\ \A i \in 1..Len(stack) : FrameOK(stack[i])
  BY FramesOfStack, BoundsAssumption DEF TypeOK
<1>. DEFINE n == Len(stack) - 1
<1>2. n \in Nat \ {0} /\ Len(stack) = n + 1
  BY <1>1
<1>3. /\ Front(stack) \in Seq(Frames) /\ Len(Front(stack)) = n
      /\ \A i \in 1..n : Front(stack)[i] = stack[i]
  BY <1>1, FrontFrames
<1>. HIDE DEF n
<1>4. g \in Frames /\ n \in 1..n /\ stack' = [Front(stack) EXCEPT ![n] = g]
  BY <1>2 DEF FrameOK, n
<1>5. /\ stack' \in Seq(Frames) /\ Len(stack') = n
      /\ \A i \in 1..n : stack'[i] = IF i = n THEN g ELSE stack[i]
  <2>1. n \in 1..Len(Front(stack))
    BY <1>3, <1>4
  <2>2. /\ stack' \in Seq(Frames) /\ Len(stack') = Len(Front(stack))
        /\ \A i \in 1..Len(Front(stack)) :
             stack'[i] = IF i = n THEN g ELSE Front(stack)[i]
    <3>. DEFINE f == Front(stack)
    <3>1. f \in Seq(Frames) /\ n \in 1..Len(f) /\ stack' = [f EXCEPT ![n] = g]
      BY <1>3, <1>4, <2>1
    <3>. HIDE DEF f
    <3>2. g \in Frames
      BY <1>4
    <3>. DEFINE h == [f EXCEPT ![n] = g]
    <3>3. /\ h \in Seq(Frames) /\ Len(h) = Len(f)
          /\ \A i \in 1..Len(f) : h[i] = IF i = n THEN g ELSE f[i]
      BY <3>1, <3>2, ExceptSeq
    <3>. QED BY <3>1, <3>3 DEF f
  <2>. QED BY <1>3, <2>2
<1>6. DOMAIN stack' = 1..n /\ \A i \in 1..n : i \in DOMAIN stack
  BY <1>1, <1>2, <1>5
<1>7. \A i \in DOMAIN stack' : stack'[i].at \in DOMAIN Steps[stack'[i].type]
  BY <1>1, <1>5, <1>6 DEF FrameOK
<1>8. InvNested'
  <2>. SUFFICES ASSUME NEW i \in 1..n - 1
                PROVE  /\ PageOf(stack'[i]) \in DOMAIN ChildType
                       /\ stack'[i + 1].type = ChildType[PageOf(stack'[i])]
    BY <1>5 DEF InvNested, PageOf
  <2>1. i \in 1..n /\ i + 1 \in 1..n /\ i # n /\ i \in 1..Len(stack) - 1
    BY <1>2
  <2>2. stack'[i] = stack[i] /\ stack'[i + 1].type = stack[i + 1].type
    BY <1>5, <2>1 DEF n
  <2>. QED BY <2>1, <2>2 DEF InvNested
<1>9. Len(stack') <= MaxDepth
  BY <1>1, <1>2, <1>5
<1>. QED BY <1>5, <1>6, <1>7, <1>8, <1>9 DEF StackKept

(* A new frame on top of the others.                                       *)
LEMMA PushFrame ==
  ASSUME TypeOK, InvNested, Len(stack) < MaxDepth, NEW g, FrameOK(g),
         stack' = Append(stack, g),
         stack # <<>> => PageOf(Top) \in DOMAIN ChildType /\ g.type = ChildType[PageOf(Top)]
  PROVE  /\ StackKept
         /\ \A i \in DOMAIN stack' :
               stack'[i] = g \/ (i \in DOMAIN stack /\ stack'[i] = stack[i])
<1>1. /\ stack \in Seq(Frames) /\ Len(stack) \in Nat /\ DOMAIN stack = 1..Len(stack)
      /\ \A i \in 1..Len(stack) : FrameOK(stack[i])
  BY FramesOfStack
<1>2. g \in Frames
  BY DEF FrameOK
<1>3. /\ stack' \in Seq(Frames) /\ Len(stack') = Len(stack) + 1
      /\ \A i \in 1..Len(stack) : stack'[i] = stack[i]
      /\ stack'[Len(stack) + 1] = g
  BY <1>1, <1>2, AppendProperties
<1>4. DOMAIN stack' = 1..Len(stack) + 1
  BY <1>3
<1>5. \A i \in DOMAIN stack' : i \in 1..Len(stack) \/ i = Len(stack) + 1
  BY <1>1, <1>4
<1>6. \A i \in DOMAIN stack' : stack'[i].at \in DOMAIN Steps[stack'[i].type]
  BY <1>1, <1>3, <1>5 DEF FrameOK
<1>7. InvNested'
  <2>. SUFFICES ASSUME NEW i \in 1..Len(stack)
                PROVE  /\ PageOf(stack'[i]) \in DOMAIN ChildType
                       /\ stack'[i + 1].type = ChildType[PageOf(stack'[i])]
    BY <1>1, <1>3 DEF InvNested, PageOf
  <2>1. stack'[i] = stack[i]
    BY <1>3
  <2>2. CASE i = Len(stack)
    <3>1. stack # <<>> /\ stack'[i + 1] = g /\ stack[i] = Top
      BY <1>1, <1>3, <2>2 DEF Top
    <3>. QED BY <2>1, <3>1
  <2>3. CASE i # Len(stack)
    <3>1. i \in 1..Len(stack) - 1 /\ i + 1 \in 1..Len(stack)
      <4>. DEFINE n == Len(stack)
      <4>1. n \in Nat /\ i \in 1..n /\ i # n
        BY <1>1, <2>3
      <4>. HIDE DEF n
      <4>2. i \in 1..n - 1 /\ i + 1 \in 1..n
        BY <4>1
      <4>. QED BY <4>2 DEF n
    <3>2. stack'[i + 1] = stack[i + 1]
      BY <1>3, <3>1
    <3>. QED BY <2>1, <3>1, <3>2 DEF InvNested
  <2>. QED BY <2>2, <2>3
<1>8. Len(stack') <= MaxDepth
  BY <1>1, <1>3, BoundsAssumption
<1>9. \A i \in DOMAIN stack' :
         stack'[i] = g \/ (i \in DOMAIN stack /\ stack'[i] = stack[i])
  <2>. SUFFICES ASSUME NEW i \in DOMAIN stack'
                PROVE  stack'[i] = g \/ (i \in DOMAIN stack /\ stack'[i] = stack[i])
    OBVIOUS
  <2>1. CASE i = Len(stack) + 1
    BY <1>3, <2>1
  <2>2. CASE i \in 1..Len(stack)
    BY <1>1, <1>3, <2>2
  <2>. QED BY <1>5, <2>1, <2>2
<1>. QED BY <1>3, <1>6, <1>7, <1>8, <1>9 DEF StackKept

----------------------------------------------------------------------------
(* Steps that save nothing.                                                *)

LEMMA NothingSaved ==
  ASSUME IInv, StackKept, UNCHANGED <<templates, configs, opnfvs>>, made' = Nothing,
         backs' \in 0..MaxBacks, \A i \in DOMAIN stack' : Progress(stack'[i])
  PROVE  IInv'
<1>1. SavedConfigs' = SavedConfigs /\ SavedOpnfvs' = SavedOpnfvs
  BY DEF SavedConfigs, SavedOpnfvs
<1>2. InvFrames'
  BY <1>1 DEF InvFrames, Progress
<1>3. TypeOK'
  BY DEF IInv, TypeOK, StackKept, Nothing
<1>4. SavedObjectsFit'
  BY <1>1 DEF IInv, SavedObjectsFit, Configured
<1>5. BookingsConfigured'
  BY DEF BookingsConfigured, Nothing
<1>. QED BY <1>2, <1>3, <1>4, <1>5 DEF IInv, StackKept

LEMMA ActiveFrame ==
  ASSUME IInv, stack # <<>>
  PROVE  FrameOK(Top) /\ Top \in Frames /\ Progress(Top) /\ Top.type \in Types
<1>1. FrameOK(Top) /\ Len(stack) \in DOMAIN stack
  BY FramesOfStack DEF IInv
<1>. QED BY <1>1 DEF IInv, InvFrames, Top, FrameOK, Frames

(* Leaving a page whose post made f of the active frame.                   *)
LEMMA Leaving ==
  ASSUME IInv, stack # <<>>, PageOf(Top) # "Confirmation_Step",
         NEW f, FrameOK(f), f.type = Top.type, f.at = Top.at, Progress(f),
         f.at \in f.valid => Done(f), LeaveWith(f)
  PROVE  IInv'
<1>1. f \in Frames /\ PageOf(f) # "Confirmation_Step"
  BY DEF FrameOK, PageOf
<1>2. \E g : /\ FrameOK(g) /\ Progress(g) /\ g.type = f.type
             /\ stack' = [stack EXCEPT ![Len(stack)] = g]
             /\ backs' \in 0..MaxBacks
  <2>1. backs \in 0..MaxBacks /\ MaxBacks \in Nat
    BY BoundsAssumption DEF IInv, TypeOK
  <2>2. CASE stack' = [stack EXCEPT ![Len(stack)] = GoNext(f)] /\ UNCHANGED backs
    <3>1. PICK q \in DOMAIN Steps[f.type] :
            /\ GoNext(f) = [f EXCEPT !.at = q]
            /\ \/ q = f.at
               \/ q = f.at + 1 /\ f.at \in f.valid
               \/ /\ f.type = "booking" /\ f.at = 3 /\ q = 5 /\ ~f.picker
                  /\ f.at \in f.valid
      BY <1>1, Moves
    <3>2. q \in 1..6 /\ f.at \in 1..6
      BY FrameAt
    <3>3. FrameOK([f EXCEPT !.at = q]) /\ Progress([f EXCEPT !.at = q])
      <4>1. CASE q = f.at
        BY <3>2, <4>1, ProgressBack
      <4>2. CASE q # f.at
        BY <3>1, <4>2, ProgressOn
      <4>. QED BY <4>1, <4>2
    <3>4. [f EXCEPT !.at = q].type = f.type
      BY <1>1, <3>2, AtPage
    <3>. QED BY <2>1, <2>2, <3>1, <3>3, <3>4
  <2>3. CASE /\ f.at > 1 /\ backs < MaxBacks
             /\ stack' = [stack EXCEPT ![Len(stack)] = GoPrev(f)]
             /\ backs' = backs + 1
    <3>1. PICK q \in DOMAIN Steps[f.type] : q < f.at /\ GoPrev(f) = [f EXCEPT !.at = q]
      BY <2>3, MovesBack
    <3>2. q \in 1..6 /\ f.at \in 1..6 /\ q <= f.at
      BY <3>1, FrameAt
    <3>3. FrameOK([f EXCEPT !.at = q]) /\ Progress([f EXCEPT !.at = q])
      BY <3>2, ProgressBack
    <3>4. [f EXCEPT !.at = q].type = f.type
      BY <1>1, <3>2, AtPage
    <3>5. backs' \in 0..MaxBacks
      BY <2>1, <2>3
    <3>. QED BY <2>3, <3>1, <3>3, <3>4, <3>5
  <2>. QED BY <2>2, <2>3 DEF LeaveWith
<1>3. PICK g : /\ FrameOK(g) /\ Progress(g) /\ g.type = f.type
               /\ stack' = [stack EXCEPT ![Len(stack)] = g]
               /\ backs' \in 0..MaxBacks
  BY <1>2
<1>4. /\ StackKept
      /\ \A i \in DOMAIN stack' : i \in DOMAIN stack /\ stack'[i] \in {g, stack[i]}
  BY <1>3, ReplaceTop DEF IInv
<1>5. \A i \in DOMAIN stack' : Progress(stack'[i])
  BY <1>3, <1>4 DEF IInv, InvFrames
<1>6. UNCHANGED <<templates, configs, opnfvs>> /\ made' = Nothing
  BY DEF LeaveWith
<1>. QED BY <1>3, <1>4, <1>5, <1>6, NothingSaved

(* Leaving a page whose post only marked the active frame.                 *)
LEMMA LeavingMarked ==
  ASSUME IInv, stack # <<>>, PageOf(Top) # "Confirmation_Step",
         NEW f, FrameOK(f), f.type = Top.type, f.at = Top.at, Progress(f),
         \/ LeaveWith(Invalid(f))
         \/ LeaveWith(Valid(f)) /\ Done(f) /\ Progress(Valid(f))
  PROVE  IInv'
<1>1. PageOf(f) # "Confirmation_Step"
  BY DEF PageOf
<1>2. /\ FrameOK(Valid(f)) /\ FrameOK(Invalid(f))
      /\ \A g \in {Valid(f), Invalid(f)} :
           /\ g.type = f.type /\ g.at = f.at /\ g.picker = f.picker
           /\ g.template = f.template /\ g.config = f.config /\ g.opnfv = f.opnfv
           /\ g.draft = f.draft /\ g.nets = f.nets /\ g.hosts = f.hosts /\ g.roles = f.roles
           /\ g.machine = f.machine /\ g.booking = f.booking
      /\ Valid(f).valid = f.valid \cup {f.at} /\ Invalid(f).valid = f.valid \ {f.at}
  BY <1>1, Marked
<1>3. CASE LeaveWith(Invalid(f))
  <2>. DEFINE g == Invalid(f)
  <2>1. /\ FrameOK(g) /\ g.type = f.type /\ g.at = f.at /\ g.picker = f.picker
        /\ g.template = f.template /\ g.config = f.config /\ g.opnfv = f.opnfv
        /\ g.draft = f.draft /\ g.nets = f.nets /\ g.hosts = f.hosts /\ g.roles = f.roles
        /\ g.machine = f.machine /\ g.booking = f.booking
        /\ g.valid = f.valid \ {f.at} /\ LeaveWith(g)
    BY <1>2, <1>3
  <2>. HIDE DEF g
  <2>2. Progress(g) /\ g.at \notin g.valid
    BY <2>1 DEF Progress
  <2>. QED BY <2>1, <2>2, Leaving
<1>4. CASE LeaveWith(Valid(f)) /\ Done(f) /\ Progress(Valid(f))
  <2>. DEFINE g == Valid(f)
  <2>1. /\ FrameOK(g) /\ g.type = f.type /\ g.at = f.at
        /\ g.template = f.template /\ g.config = f.config
        /\ g.draft = f.draft /\ g.nets = f.nets /\ g.hosts = f.hosts /\ g.roles = f.roles
        /\ g.machine = f.machine /\ g.booking = f.booking
        /\ Progress(g) /\ LeaveWith(g)
    BY <1>2, <1>4
  <2>2. Done(g)
    BY <1>4, <2>1 DEF Done
  <2>. HIDE DEF g
  <2>. QED BY <2>1, <2>2, Leaving
<1>. QED BY <1>3, <1>4

----------------------------------------------------------------------------
(* The pages.                                                              *)

LEMMA Places ==
  ASSUME NEW f, FrameOK(f)
  PROVE  /\ PageOf(f) = "Booking_Resource_Select" => f.type = "booking" /\ f.at = 1
         /\ PageOf(f) = "SWConfig_Select" => f.type = "booking" /\ f.at = 2
         /\ PageOf(f) = "Booking_Meta" => f.type = "booking" /\ f.at = 3
         /\ PageOf(f) = "OPNFV_Select" => f.type = "booking" /\ f.at = 4
         /\ PageOf(f) = "Define_Hardware" => f.type = "resource" /\ f.at = 1
         /\ PageOf(f) = "Define_Nets" => f.type = "resource" /\ f.at = 2
         /\ PageOf(f) = "Resource_Meta_Info" => f.type = "resource" /\ f.at = 3
         /\ PageOf(f) = "SWConf_Resource_Select" => f.type = "config" /\ f.at = 1
         /\ PageOf(f) = "Define_Software" => f.type = "config" /\ f.at = 2
         /\ PageOf(f) = "Config_Software" => f.type = "config" /\ f.at = 3
         /\ PageOf(f) = "Select_Host_Step" => f.type = "snapshot" /\ f.at = 1
         /\ PageOf(f) = "Image_Meta_Step" => f.type = "snapshot" /\ f.at = 2
         /\ PageOf(f) = "OPNFV_Resource_Select" => f.type = "opnfv" /\ f.at = 1
         /\ PageOf(f) = "Pick_Installer" => f.type = "opnfv" /\ f.at = 2
         /\ PageOf(f) = "Assign_Network_Roles" => f.type = "opnfv" /\ f.at = 3
         /\ PageOf(f) = "Assign_Host_Roles" => f.type = "opnfv" /\ f.at = 4
         /\ PageOf(f) = "MetaInfo" => f.type = "opnfv" /\ f.at = 5
<1>1. f.type \in Types /\ f.at \in DOMAIN Steps[f.type] /\ PageOf(f) = Steps[f.type][f.at]
  BY DEF FrameOK, Frames, PageOf
<1>2. CASE f.type = "booking"
  BY <1>1, <1>2, PageAt
<1>3. CASE f.type = "resource"
  BY <1>1, <1>3, PageAt
<1>4. CASE f.type = "config"
  BY <1>1, <1>4, PageAt
<1>5. CASE f.type = "snapshot"
  BY <1>1, <1>5, PageAt
<1>6. CASE f.type = "opnfv"
  BY <1>1, <1>6, PageAt
<1>. QED BY <1>1, <1>2, <1>3, <1>4, <1>5, <1>6, Pages

(* The frame with x selected.                                              *)
Select(f, key, x) == [f EXCEPT ![key] = x, !.shown[key] = x]

(* A selection replaces one entry, in the repository and in the summary.   *)
LEMMA Selected ==
  ASSUME NEW f, FrameOK(f), NEW key, NEW x,
         \/ key = "template" /\ x \in Templates
         \/ key = "config" /\ x \in Configs
         \/ key = "opnfv" /\ x \in OpnfvConfigs
  PROVE  LET g == Select(f, key, x) IN
         /\ FrameOK(g)
         /\ g.type = f.type /\ g.at = f.at /\ g.valid = f.valid /\ g.picker = f.picker
         /\ g.template = IF key = "template" THEN x ELSE f.template
         /\ g.config = IF key = "config" THEN x ELSE f.config
         /\ g.opnfv = IF key = "opnfv" THEN x ELSE f.opnfv
         /\ g.draft = f.draft /\ g.nets = f.nets /\ g.hosts = f.hosts /\ g.roles = f.roles
         /\ g.machine = f.machine /\ g.booking = f.booking
<1>1. f \in Frames
  BY DEF FrameOK
<1>2. CASE key = "template" /\ x \in Templates
  <2>. DEFINE y == [f.shown EXCEPT !.template = x]
              g == [f EXCEPT !.template = x, !.shown = y]
  <2>1. y \in Summaries
    BY <1>1, <1>2 DEF Frames, Summaries
  <2>2. Select(f, key, x) = g
    BY <1>2 DEF Select
  <2>. HIDE DEF y
  <2>3. /\ g \in Frames
        /\ g.type = f.type /\ g.at = f.at /\ g.valid = f.valid /\ g.picker = f.picker
        /\ g.template = IF key = "template" THEN x ELSE f.template
        /\ g.config = IF key = "config" THEN x ELSE f.config
        /\ g.opnfv = IF key = "opnfv" THEN x ELSE f.opnfv
        /\ g.draft = f.draft /\ g.nets = f.nets /\ g.hosts = f.hosts /\ g.roles = f.roles
        /\ g.machine = f.machine /\ g.booking = f.booking
    BY <1>1, <1>2, <2>1 DEF Frames
  <2>. HIDE DEF g
  <2>. QED BY <1>2, <2>2, <2>3 DEF FrameOK
<1>3. CASE key = "config" /\ x \in Configs
  <2>. DEFINE y == [f.shown EXCEPT !.config = x]
              g == [f EXCEPT !.config = x, !.shown = y]
  <2>1. y \in Summaries
    BY <1>1, <1>3 DEF Frames, Summaries
  <2>2. Select(f, key, x) = g
    BY <1>3 DEF Select
  <2>. HIDE DEF y
  <2>3. /\ g \in Frames
        /\ g.type = f.type /\ g.at = f.at /\ g.valid = f.valid /\ g.picker = f.picker
        /\ g.template = IF key = "template" THEN x ELSE f.template
        /\ g.config = IF key = "config" THEN x ELSE f.config
        /\ g.opnfv = IF key = "opnfv" THEN x ELSE f.opnfv
        /\ g.draft = f.draft /\ g.nets = f.nets /\ g.hosts = f.hosts /\ g.roles = f.roles
        /\ g.machine = f.machine /\ g.booking = f.booking
    BY <1>1, <1>3, <2>1, ZenonT(60) DEF Frames
  <2>. HIDE DEF g
  <2>. QED BY <1>3, <2>2, <2>3 DEF FrameOK
<1>4. CASE key = "opnfv" /\ x \in OpnfvConfigs
  <2>. DEFINE y == [f.shown EXCEPT !.opnfv = x]
              g == [f EXCEPT !.opnfv = x, !.shown = y]
  <2>1. y \in Summaries
    BY <1>1, <1>4 DEF Frames, Summaries
  <2>2. Select(f, key, x) = g
    BY <1>4 DEF Select
  <2>. HIDE DEF y
  <2>3. /\ g \in Frames
        /\ g.type = f.type /\ g.at = f.at /\ g.valid = f.valid /\ g.picker = f.picker
        /\ g.template = IF key = "template" THEN x ELSE f.template
        /\ g.config = IF key = "config" THEN x ELSE f.config
        /\ g.opnfv = IF key = "opnfv" THEN x ELSE f.opnfv
        /\ g.draft = f.draft /\ g.nets = f.nets /\ g.hosts = f.hosts /\ g.roles = f.roles
        /\ g.machine = f.machine /\ g.booking = f.booking
    BY <1>1, <1>4, <2>1, ZenonT(60) DEF Frames
  <2>. HIDE DEF g
  <2>. QED BY <1>4, <2>2, <2>3 DEF FrameOK
<1>. QED BY <1>2, <1>3, <1>4

LEMMA SelectionStep ==
  ASSUME IInv, stack # <<>>, PageOf(Top) # "Confirmation_Step", Done(Top),
         NEW key, NEW choices, SelectOrCreate(Top, key, choices),
         \A x \in choices :
            LET g == Select(Top, key, x) IN
            /\ FrameOK(g) /\ g.type = Top.type /\ g.at = Top.at
            /\ Progress(g) /\ Done(g) /\ Progress(Valid(g))
  PROVE  IInv'
<1>1. FrameOK(Top) /\ Progress(Top)
  BY ActiveFrame
<1>2. ASSUME NEW x \in choices,
             LeaveWith(Valid(Select(Top, key, x)))
      PROVE  IInv'
  <2>. DEFINE g == Select(Top, key, x)
  <2>1. /\ FrameOK(g) /\ g.type = Top.type /\ g.at = Top.at
        /\ Progress(g) /\ Done(g) /\ Progress(Valid(g)) /\ LeaveWith(Valid(g))
    BY <1>2
  <2>. HIDE DEF g
  <2>. QED BY <2>1, LeavingMarked
<1>3. CASE LeaveWith(Invalid(Top))
  BY <1>1, <1>3, LeavingMarked
<1>4. CASE LeaveWith(Top)
  BY <1>1, <1>4, Leaving
<1>. QED BY <1>2, <1>3, <1>4 DEF SelectOrCreate, Select

(* What can be selected, is saved.                                         *)
LEMMA SavedThings ==
  ASSUME IInv
  PROVE  /\ templates \subseteq Templates /\ None \notin templates
         /\ SavedConfigs \subseteq Configs /\ None \notin SavedConfigs
         /\ SavedOpnfvs \subseteq OpnfvConfigs /\ None \notin SavedOpnfvs
         /\ \A c \in SavedConfigs : configs[c].of \in templates
BY TemplatesAssumption, ConfigsAssumption
   DEF IInv, TypeOK, SavedConfigs, SavedOpnfvs, SavedObjectsFit

LEMMA ChoiceOf ==
  ASSUME IInv, NEW f, FrameOK(f), Progress(f), PageOf(f) # "Confirmation_Step",
         NEW key, NEW x,
         \/ /\ key = "template" /\ x \in templates
            /\ f.type \in {"booking", "config"} /\ f.at = 1
         \/ key = "config" /\ x \in SavedConfigs /\ f.type = "booking" /\ f.at = 2
         \/ key = "opnfv" /\ x \in SavedOpnfvs /\ f.type = "booking" /\ f.at = 4
         \/ key = "config" /\ x \in SavedConfigs /\ f.type = "opnfv" /\ f.at = 1,
         NEW g, FrameOK(g),
         g.type = f.type, g.at = f.at, g.valid = f.valid, g.picker = f.picker,
         g.template = IF key = "template" THEN x ELSE f.template,
         g.config = IF key = "config" THEN x ELSE f.config,
         g.opnfv = IF key = "opnfv" THEN x ELSE f.opnfv,
         g.draft = f.draft, g.nets = f.nets, g.hosts = f.hosts, g.roles = f.roles,
         g.machine = f.machine, g.booking = f.booking
  PROVE  Progress(g) /\ Done(g) /\ Progress(Valid(g))
<1>1. x # None
  BY SavedThings
<1>2. PageOf(g) # "Confirmation_Step"
  BY DEF PageOf
<1>3. /\ Valid(g).type = g.type /\ Valid(g).at = g.at /\ Valid(g).picker = g.picker
      /\ Valid(g).template = g.template /\ Valid(g).config = g.config
      /\ Valid(g).opnfv = g.opnfv
      /\ Valid(g).draft = g.draft /\ Valid(g).nets = g.nets /\ Valid(g).hosts = g.hosts
      /\ Valid(g).roles = g.roles
      /\ Valid(g).machine = g.machine /\ Valid(g).booking = g.booking
      /\ Valid(g).valid = g.valid \cup {g.at}
  BY <1>2, Marked
<1>4. Done(g)
  BY DEF Done
<1>5. Progress(g)
  BY <1>1 DEF Progress
<1>. DEFINE v == Valid(g)
<1>. HIDE DEF v
<1>6. Progress(v)
  BY <1>1, <1>3, <1>5 DEF Progress, v
<1>. QED BY <1>4, <1>5, <1>6 DEF v

LEMMA Choice ==
  ASSUME IInv, stack # <<>>, PageOf(Top) # "Confirmation_Step", NEW key, NEW x,
         \/ /\ key = "template" /\ x \in templates
            /\ Top.type \in {"booking", "config"} /\ Top.at = 1
         \/ key = "config" /\ x \in SavedConfigs /\ Top.type = "booking" /\ Top.at = 2
         \/ key = "opnfv" /\ x \in SavedOpnfvs /\ Top.type = "booking" /\ Top.at = 4
         \/ key = "config" /\ x \in SavedConfigs /\ Top.type = "opnfv" /\ Top.at = 1
  PROVE  LET g == Select(Top, key, x) IN
         /\ FrameOK(g) /\ g.type = Top.type /\ g.at = Top.at
         /\ Progress(g) /\ Done(g) /\ Progress(Valid(g))
<1>1. FrameOK(Top) /\ Progress(Top)
  BY ActiveFrame
<1>2. \/ key = "template" /\ x \in Templates
      \/ key = "config" /\ x \in Configs
      \/ key = "opnfv" /\ x \in OpnfvConfigs
  BY SavedThings
<1>. DEFINE g == Select(Top, key, x)
<1>3. /\ FrameOK(g)
      /\ g.type = Top.type /\ g.at = Top.at /\ g.valid = Top.valid /\ g.picker = Top.picker
      /\ g.template = IF key = "template" THEN x ELSE Top.template
      /\ g.config = IF key = "config" THEN x ELSE Top.config
      /\ g.opnfv = IF key = "opnfv" THEN x ELSE Top.opnfv
      /\ g.draft = Top.draft /\ g.nets = Top.nets /\ g.hosts = Top.hosts
      /\ g.roles = Top.roles /\ g.machine = Top.machine /\ g.booking = Top.booking
  BY <1>1, <1>2, Selected
<1>. HIDE DEF g
<1>4. Progress(g) /\ Done(g) /\ Progress(Valid(g))
  BY <1>1, <1>3, ChoiceOf
<1>. QED BY <1>3, <1>4 DEF g

LEMMA SelectPages ==
  ASSUME IInv,
         Resource_Select \/ SWConfig_Select \/ OPNFV_Select \/ OPNFV_Resource_Select
  PROVE  IInv'
<1>1. stack # <<>> /\ PageOf(Top) # "Confirmation_Step"
  BY DEF Resource_Select, SWConfig_Select, OPNFV_Select, OPNFV_Resource_Select, OnPages
<1>2. FrameOK(Top)
  BY <1>1, ActiveFrame
<1>3. CASE Resource_Select
  <2>1. Top.type \in {"booking", "config"} /\ Top.at = 1
    BY <1>2, <1>3, Places DEF Resource_Select, OnPages
  <2>2. Done(Top)
    BY <2>1 DEF Done
  <2>. DEFINE choices == templates
  <2>3. SelectOrCreate(Top, "template", choices)
    BY <1>3 DEF Resource_Select
  <2>4. \A x \in choices :
           LET g == Select(Top, "template", x) IN
           /\ FrameOK(g) /\ g.type = Top.type /\ g.at = Top.at
           /\ Progress(g) /\ Done(g) /\ Progress(Valid(g))
    BY <1>1, <2>1, Choice
  <2>. HIDE DEF choices
  <2>. QED BY <1>1, <2>2, <2>3, <2>4, SelectionStep
<1>4. CASE SWConfig_Select
  <2>1. Top.type = "booking" /\ Top.at = 2
    BY <1>2, <1>4, Places DEF SWConfig_Select, OnPages
  <2>2. Done(Top)
    BY <2>1 DEF Done
  <2>. DEFINE choices == {c \in SavedConfigs : configs[c].of = Top.template}
  <2>3. SelectOrCreate(Top, "config", choices)
    BY <1>4 DEF SWConfig_Select
  <2>4. \A x \in choices :
           LET g == Select(Top, "config", x) IN
           /\ FrameOK(g) /\ g.type = Top.type /\ g.at = Top.at
           /\ Progress(g) /\ Done(g) /\ Progress(Valid(g))
    BY <1>1, <2>1, Choice
  <2>. HIDE DEF choices
  <2>. QED BY <1>1, <2>2, <2>3, <2>4, SelectionStep
<1>5. CASE OPNFV_Select
  <2>1. Top.type = "booking" /\ Top.at = 4
    BY <1>2, <1>5, Places DEF OPNFV_Select, OnPages
  <2>2. Done(Top)
    BY <2>1 DEF Done
  <2>. DEFINE choices == {o \in SavedOpnfvs : opnfvs[o].of = Top.config}
  <2>3. SelectOrCreate(Top, "opnfv", choices)
    BY <1>5 DEF OPNFV_Select
  <2>4. \A x \in choices :
           LET g == Select(Top, "opnfv", x) IN
           /\ FrameOK(g) /\ g.type = Top.type /\ g.at = Top.at
           /\ Progress(g) /\ Done(g) /\ Progress(Valid(g))
    BY <1>1, <2>1, Choice
  <2>. HIDE DEF choices
  <2>. QED BY <1>1, <2>2, <2>3, <2>4, SelectionStep
<1>6. CASE OPNFV_Resource_Select
  <2>1. Top.type = "opnfv" /\ Top.at = 1
    BY <1>2, <1>6, Places DEF OPNFV_Resource_Select, OnPages
  <2>2. Done(Top)
    BY <2>1 DEF Done
  <2>. DEFINE choices == SavedConfigs
  <2>3. SelectOrCreate(Top, "config", choices)
    BY <1>6 DEF OPNFV_Resource_Select
  <2>4. \A x \in choices :
           LET g == Select(Top, "config", x) IN
           /\ FrameOK(g) /\ g.type = Top.type /\ g.at = Top.at
           /\ Progress(g) /\ Done(g) /\ Progress(Valid(g))
    BY <1>1, <2>1, Choice
  <2>. HIDE DEF choices
  <2>. QED BY <1>1, <2>2, <2>3, <2>4, SelectionStep
<1>. QED BY <1>3, <1>4, <1>5, <1>6

(* What two frames have in common on the pages that fill in a form.        *)
Alike(f, g) ==
  /\ g.type = f.type /\ g.at = f.at /\ g.valid = f.valid
  /\ g.template = f.template /\ g.config = f.config /\ g.opnfv = f.opnfv

LEMMA Filled ==
  ASSUME IInv, stack # <<>>, PageOf(Top) # "Confirmation_Step",
         PageOf(Top) \notin DOMAIN ChildType,
         NEW f, FrameOK(f), f.type = Top.type, f.at = Top.at, Progress(f),
         LeaveWith(Invalid(f)) \/ (LeaveWith(Valid(f)) /\ Done(f))
  PROVE  IInv'
<1>1. PageOf(f) # "Confirmation_Step" /\ PageOf(f) \notin DOMAIN ChildType
  BY DEF PageOf
<1>2. f.type \in Types /\ f.at \in DOMAIN Steps[f.type] /\ PageOf(f) = Steps[f.type][f.at]
  BY DEF FrameOK, Frames, PageOf
<1>3. PageOf(f) \notin {"Booking_Resource_Select", "SWConf_Resource_Select", "SWConfig_Select",
                        "OPNFV_Resource_Select", "OPNFV_Select"}
  BY <1>1 DEF ChildType
<1>4. /\ f.type = "booking" => f.at \notin {1, 2, 4}
      /\ f.type = "config" => f.at # 1
      /\ f.type = "opnfv" => f.at # 1
  BY <1>2, <1>3, PageAt
<1>5. /\ Valid(f).type = f.type /\ Valid(f).at = f.at /\ Valid(f).picker = f.picker
      /\ Valid(f).template = f.template /\ Valid(f).config = f.config
      /\ Valid(f).opnfv = f.opnfv
      /\ Valid(f).draft = f.draft /\ Valid(f).nets = f.nets /\ Valid(f).hosts = f.hosts
      /\ Valid(f).roles = f.roles
      /\ Valid(f).machine = f.machine /\ Valid(f).booking = f.booking
      /\ Valid(f).valid = f.valid \cup {f.at}
  BY <1>1, Marked
<1>. DEFINE v == Valid(f)
<1>. HIDE DEF v
<1>6. Progress(v)
  BY <1>4, <1>5 DEF Progress, v
<1>. QED BY <1>6, LeavingMarked DEF v

LEMMA MetaPage ==
  ASSUME IInv, Booking_Meta
  PROVE  IInv'
<1>1. stack # <<>> /\ PageOf(Top) # "Confirmation_Step" /\ PageOf(Top) = "Booking_Meta"
  BY DEF Booking_Meta, OnPages
<1>2. FrameOK(Top) /\ Top \in Frames /\ Progress(Top)
  BY <1>1, ActiveFrame
<1>3. Top.type = "booking" /\ Top.at = 3
  BY <1>1, <1>2, Places
<1>4. PageOf(Top) \notin DOMAIN ChildType
  BY <1>1 DEF ChildType
<1>5. CASE LeaveWith([Top EXCEPT !.users = {}])
  <2>. DEFINE g == [Top EXCEPT !.users = {}]
  <2>1. g \in Frames /\ Alike(Top, g) /\ LeaveWith(g) /\ g.picker = Top.picker
    BY <1>2, <1>5 DEF Frames, Alike
  <2>. HIDE DEF g
  <2>2. FrameOK(g) /\ Progress(g) /\ Done(g)
    BY <1>2, <1>3, <2>1 DEF FrameOK, Progress, Done, Alike
  <2>. QED BY <1>1, <2>1, <2>2, Leaving DEF Alike
<1>6. ASSUME NEW U \in SUBSET Users, NEW deploy \in BOOLEAN,
             LeaveWith(Valid([Top EXCEPT !.users = U, !.shown.users = U, !.picker = deploy]))
      PROVE  IInv'
  <2>. DEFINE y == [Top.shown EXCEPT !.users = U]
              g == [Top EXCEPT !.users = U, !.shown = y, !.picker = deploy]
  <2>1. y \in Summaries
    BY <1>2 DEF Frames, Summaries
  <2>2. LeaveWith(Valid(g))
    BY <1>6
  <2>. HIDE DEF y
  <2>3. g \in Frames /\ Alike(Top, g)
    BY <1>2, <2>1, ZenonT(60) DEF Frames, Alike
  <2>. HIDE DEF g
  <2>4. FrameOK(g) /\ Progress(g) /\ Done(g)
    BY <1>2, <1>3, <2>3 DEF FrameOK, Progress, Done, Alike
  <2>. QED BY <1>1, <1>4, <2>2, <2>3, <2>4, Filled DEF Alike
<1>7. CASE LeaveWith(Invalid(Top))
  BY <1>1, <1>2, <1>4, <1>7, Filled
<1>. QED BY <1>5, <1>6, <1>7 DEF Booking_Meta

LEMMA ResourcePages ==
  ASSUME IInv, Define_Hardware \/ Define_Nets
  PROVE  IInv'
<1>1. stack # <<>> /\ PageOf(Top) # "Confirmation_Step"
      /\ PageOf(Top) \in {"Define_Hardware", "Define_Nets"}
  BY DEF Define_Hardware, Define_Nets, OnPages
<1>2. FrameOK(Top) /\ Top \in Frames /\ Progress(Top)
  BY <1>1, ActiveFrame
<1>3. PageOf(Top) \notin DOMAIN ChildType
  BY <1>1 DEF ChildType
<1>4. CASE Define_Hardware
  <2>1. Top.type = "resource" /\ Top.at = 1
    BY <1>2, <1>4, Places DEF Define_Hardware, OnPages
  <2>2. ASSUME NEW t \in Templates \ templates,
               LeaveWith(Valid([Top EXCEPT !.draft = t, !.shown.draft = t]))
        PROVE  IInv'
    <3>. DEFINE y == [Top.shown EXCEPT !.draft = t]
                g == [Top EXCEPT !.draft = t, !.shown = y]
    <3>1. y \in Summaries
      BY <1>2 DEF Frames, Summaries
    <3>2. LeaveWith(Valid(g))
      BY <2>2
    <3>. HIDE DEF y
    <3>3. g \in Frames /\ Alike(Top, g) /\ g.draft = t
      BY <1>2, <3>1, ZenonT(60) DEF Frames, Alike
    <3>. HIDE DEF g
    <3>4. FrameOK(g) /\ Progress(g) /\ Done(g)
      BY <1>2, <2>1, <3>3, TemplatesAssumption DEF FrameOK, Progress, Done, Alike
    <3>. QED BY <1>1, <1>3, <3>2, <3>3, <3>4, Filled DEF Alike
  <2>3. ASSUME NEW t \in {Top.draft, None}, LeaveWith(Invalid([Top EXCEPT !.draft = t]))
        PROVE  IInv'
    <3>. DEFINE g == [Top EXCEPT !.draft = t]
    <3>1. g \in Frames /\ Alike(Top, g) /\ LeaveWith(Invalid(g))
      BY <1>2, <2>3 DEF Frames, Alike
    <3>. HIDE DEF g
    <3>2. FrameOK(g) /\ Progress(g)
      BY <1>2, <2>1, <3>1 DEF FrameOK, Progress, Alike
    <3>. QED BY <1>1, <1>3, <3>1, <3>2, Filled DEF Alike
  <2>. QED BY <1>4, <2>2, <2>3 DEF Define_Hardware
<1>5. CASE Define_Nets
  <2>1. Top.type = "resource" /\ Top.at = 2
    BY <1>2, <1>5, Places DEF Define_Nets, OnPages
  <2>2. ASSUME NEW t \in {Top.draft, None}, NEW g, g = [Top EXCEPT !.nets = t]
        PROVE  FrameOK(g) /\ Alike(Top, g) /\ Progress(g) /\ g.draft = Top.draft /\ g.nets = t
    <3>1. g \in Frames /\ Alike(Top, g) /\ g.draft = Top.draft /\ g.nets = t
      BY <1>2, <2>2 DEF Frames, Alike
    <3>. QED BY ONLY <1>2, <2>1, <3>1 DEF FrameOK, Progress, Alike
  <2>3. CASE LeaveWith(Valid([Top EXCEPT !.nets = Top.draft]))
    <3>. DEFINE g == [Top EXCEPT !.nets = Top.draft]
    <3>1. FrameOK(g) /\ Alike(Top, g) /\ Progress(g) /\ g.nets = g.draft
          /\ LeaveWith(Valid(g))
      BY <2>2, <2>3
    <3>. HIDE DEF g
    <3>2. Done(g)
      BY <2>1, <3>1 DEF Done, Alike
    <3>. QED BY <1>1, <1>3, <3>1, <3>2, Filled DEF Alike
  <2>4. CASE LeaveWith(Invalid([Top EXCEPT !.nets = None]))
    <3>. DEFINE g == [Top EXCEPT !.nets = None]
    <3>1. FrameOK(g) /\ Alike(Top, g) /\ Progress(g) /\ LeaveWith(Invalid(g))
      BY <2>2, <2>4
    <3>. HIDE DEF g
    <3>. QED BY <1>1, <1>3, <3>1, Filled DEF Alike
  <2>. QED BY <1>5, <2>3, <2>4 DEF Define_Nets
<1>. QED BY <1>4, <1>5

LEMMA SoftwarePage ==
  ASSUME IInv, Define_Software
  PROVE  IInv'
<1>1. stack # <<>> /\ PageOf(Top) # "Confirmation_Step" /\ PageOf(Top) = "Define_Software"
  BY DEF Define_Software, OnPages
<1>2. FrameOK(Top) /\ Top \in Frames /\ Progress(Top)
  BY <1>1, ActiveFrame
<1>3. Top.type = "config" /\ Top.at = 2 /\ Top.hosts \in Seq(AllHosts)
  BY <1>1, <1>2, Places DEF Frames
<1>4. PageOf(Top) \notin DOMAIN ChildType
  BY <1>1 DEF ChildType
<1>. DEFINE machines == HostsOf(Top.template)
            rows == IF Top.hosts = <<>> THEN Len(machines) ELSE Len(Top.hosts)
<1>5. machines \in Seq(AllHosts) /\ Len(machines) \in Nat \ {0} /\ machines # <<>>
  <2>1. Top.template \in Templates
    BY <1>2, <1>3, SavedThings DEF Progress
  <2>. QED BY <2>1, HostsOfType
<1>6. rows \in Nat \ {0}
  <2>1. CASE Top.hosts = <<>>
    BY <1>5, <2>1
  <2>2. CASE Top.hosts # <<>>
    <3>1. Len(Top.hosts) \in Nat \ {0}
      BY <1>3, <2>2, EmptySeq
    <3>. QED BY <2>2, <3>1
  <2>. QED BY <2>1, <2>2
<1>7. ASSUME NEW h \in Seq(AllHosts), NEW g, g = [Top EXCEPT !.hosts = h]
      PROVE  /\ FrameOK(g) /\ Alike(Top, g) /\ Progress(g) /\ g.hosts = h
             /\ g.shown = Top.shown
  <2>1. g \in Frames /\ Alike(Top, g) /\ g.hosts = h /\ g.shown = Top.shown
    BY <1>2, <1>7 DEF Frames, Alike
  <2>. QED BY ONLY <1>2, <1>3, <2>1 DEF FrameOK, Progress, Alike
<1>8. CASE LeaveWith(Invalid(Top))
  BY <1>1, <1>2, <1>4, <1>8, Filled
<1>9. CASE rows <= Len(machines)
  <2>. DEFINE h == SubSeq(machines, 1, rows)
              taken == [Top EXCEPT !.hosts = h]
              z == [taken EXCEPT !.shown.hosts = taken.hosts]
  <2>1. h \in Seq(AllHosts) /\ h # <<>> /\ Range(h) \subseteq Range(machines)
    <3>1. /\ h \in Seq(AllHosts) /\ Len(h) = rows
          /\ \A i \in 1..rows : h[i] = machines[i]
      <4>. HIDE DEF machines, rows
      <4>1. rows \in 1..Len(machines) /\ 1 \in Nat
        BY <1>5, <1>6, <1>9
      <4>2. \A i \in 1..rows : i \in 1..Len(machines) /\ machines[i] \in AllHosts
        BY <1>5, <1>6, <1>9
      <4>. QED BY <1>5, <1>6, <1>9, <4>1, <4>2
    <3>2. DOMAIN h = 1..rows /\ \A i \in 1..rows : i \in DOMAIN machines
      <4>. HIDE DEF machines, rows
      <4>. QED BY <1>5, <1>6, <1>9, <3>1
    <3>. HIDE DEF machines, rows, h
    <3>3. Range(h) \subseteq Range(machines)
      BY <3>1, <3>2 DEF Range
    <3>4. h # <<>>
      BY <1>6, <3>1
    <3>. QED BY <3>1, <3>3, <3>4
  <2>. HIDE DEF h
  <2>2. FrameOK(taken) /\ Alike(Top, taken) /\ Progress(taken) /\ taken.hosts = h
        /\ taken.shown = Top.shown
    BY <1>7, <2>1
  <2>. HIDE DEF taken
  <2>3. CASE LeaveWith(Invalid(taken))
    BY <1>1, <1>4, <2>2, <2>3, Filled DEF Alike
  <2>4. CASE LeaveWith(Valid(z))
    <3>. DEFINE y == [taken.shown EXCEPT !.hosts = h]
    <3>1. y \in Summaries
      BY <2>1, <2>2 DEF FrameOK, Frames, Summaries
    <3>2. z = [taken EXCEPT !.shown = y]
      BY <2>2
    <3>. HIDE DEF y
    <3>3. z \in Frames /\ Alike(taken, z) /\ z.hosts = h
      BY <2>2, <3>1, <3>2 DEF FrameOK, Frames, Alike
    <3>. HIDE DEF z, machines
    <3>4. FrameOK(z) /\ Progress(z)
      BY <1>2, <1>3, <2>2, <3>3 DEF FrameOK, Progress, Alike
    <3>5. Done(z)
      BY <1>3, <2>1, <2>2, <3>3 DEF Done, Alike, machines
    <3>. QED BY <1>1, <1>4, <2>2, <2>4, <3>3, <3>4, <3>5, Filled DEF Alike
  <2>5. CASE LeaveWith([Top EXCEPT !.hosts = machines]) /\ rows > Len(machines)
    <3>. HIDE DEF machines, rows
    <3>. QED BY <1>5, <1>6, <1>9, <2>5
  <2>. QED BY <1>8, <1>9, <2>3, <2>4, <2>5 DEF Define_Software, h, taken
<1>10. CASE ~(rows <= Len(machines)) /\ LeaveWith([Top EXCEPT !.hosts = machines])
  <2>. DEFINE g == [Top EXCEPT !.hosts = machines]
  <2>1. FrameOK(g) /\ Alike(Top, g) /\ Progress(g) /\ g.hosts = machines /\ LeaveWith(g)
    BY <1>5, <1>7, <1>10
  <2>. HIDE DEF g
  <2>2. Done(g)
    BY <1>3, <1>5, <2>1 DEF Done, Alike
  <2>. QED BY <1>1, <2>1, <2>2, Leaving DEF Alike
<1>. QED BY <1>8, <1>9, <1>10 DEF Define_Software

LEMMA RolePages ==
  ASSUME IInv, Assign_Network_Roles \/ Assign_Host_Roles
  PROVE  IInv'
<1>1. stack # <<>> /\ PageOf(Top) # "Confirmation_Step"
      /\ PageOf(Top) \in {"Assign_Network_Roles", "Assign_Host_Roles"}
  BY DEF Assign_Network_Roles, Assign_Host_Roles, OnPages
<1>2. FrameOK(Top) /\ Top \in Frames /\ Progress(Top)
  BY <1>1, ActiveFrame
<1>3. PageOf(Top) \notin DOMAIN ChildType
  BY <1>1 DEF ChildType
<1>4. Top.type = "opnfv" /\ Top.at \in {3, 4}
  BY <1>1, <1>2, Places
<1>. DEFINE t == configs[Top.config].of
<1>5. t \in Templates /\ t # None
  BY <1>2, <1>4, SavedThings DEF Progress
<1>. HIDE DEF t
<1>6. CASE Assign_Network_Roles
  <2>1. Top.at = 3
    BY <1>2, <1>6, Places DEF Assign_Network_Roles, OnPages
  <2>2. CASE LeaveWith(Valid([Top EXCEPT !.nets = t]))
    <3>. DEFINE g == [Top EXCEPT !.nets = t]
    <3>1. g \in Frames /\ Alike(Top, g) /\ g.nets = t /\ LeaveWith(Valid(g))
      BY <1>2, <1>5, <2>2 DEF Frames, Alike
    <3>. HIDE DEF g
    <3>2. FrameOK(g) /\ Progress(g) /\ Done(g)
      BY <1>2, <1>4, <2>1, <3>1 DEF FrameOK, Progress, Done, Alike, t
    <3>. QED BY <1>1, <1>3, <3>1, <3>2, Filled DEF Alike
  <2>3. CASE LeaveWith(Invalid(Top))
    BY <1>1, <1>2, <1>3, <2>3, Filled
  <2>. QED BY <1>6, <2>2, <2>3 DEF Assign_Network_Roles, t
<1>7. CASE Assign_Host_Roles
  <2>1. Top.at = 4
    BY <1>2, <1>7, Places DEF Assign_Host_Roles, OnPages
  <2>. DEFINE r == IF Top.roles = None THEN t ELSE Top.roles
              g == [Top EXCEPT !.roles = r]
  <2>2. r \in Templates /\ r # None
    BY <1>2, <1>5, TemplatesAssumption DEF Frames
  <2>3. LeaveWith(Valid(g)) \/ LeaveWith(Invalid(g))
    BY <1>7 DEF Assign_Host_Roles, t
  <2>. HIDE DEF r
  <2>4. g \in Frames /\ Alike(Top, g) /\ g.roles = r /\ g.nets = Top.nets
    BY <1>2, <2>2 DEF Frames, Alike
  <2>. HIDE DEF g
  <2>5. FrameOK(g) /\ Progress(g) /\ Done(g)
    BY <1>2, <1>4, <2>1, <2>2, <2>4 DEF FrameOK, Progress, Done, Alike
  <2>. QED BY <1>1, <1>3, <2>3, <2>4, <2>5, Filled DEF Alike
<1>. QED BY <1>6, <1>7

LEMMA HostPage ==
  ASSUME IInv, Select_Host_Step
  PROVE  IInv'
<1>1. stack # <<>> /\ PageOf(Top) # "Confirmation_Step" /\ PageOf(Top) = "Select_Host_Step"
  BY DEF Select_Host_Step, OnPages
<1>2. FrameOK(Top) /\ Top \in Frames /\ Progress(Top)
  BY <1>1, ActiveFrame
<1>3. PageOf(Top) \notin DOMAIN ChildType
  BY <1>1 DEF ChildType
<1>4. Top.type = "snapshot" /\ Top.at = 1
  BY <1>1, <1>2, Places
<1>5. ASSUME NEW h \in Machines,
             LeaveWith(Valid([Top EXCEPT !.machine = IF @ = None THEN h ELSE @,
                                         !.booking = h[1], !.shown.machine = h]))
      PROVE  IInv'
  <2>. DEFINE y == [Top.shown EXCEPT !.machine = h]
              m == IF Top.machine = None THEN h ELSE Top.machine
              b == h[1]
              g == [Top EXCEPT !.machine = m, !.booking = b, !.shown = y]
  <2>1. y \in Summaries
    BY <1>2 DEF Frames, Summaries
  <2>2. m \in Machines /\ m # None
    BY <1>2, MachinesAssumption DEF Frames
  <2>3. b \in {x[1] : x \in Machines} /\ b # None
    BY MachinesAssumption
  <2>4. LeaveWith(Valid(g))
    BY <1>5
  <2>. HIDE DEF y, m, b
  <2>5. g \in Frames /\ Alike(Top, g) /\ g.machine = m /\ g.booking = b
    BY <1>2, <2>1, <2>2, <2>3, ZenonT(60) DEF Frames, Alike
  <2>. HIDE DEF g
  <2>6. FrameOK(g) /\ Progress(g) /\ Done(g)
    BY <1>2, <1>4, <2>2, <2>3, <2>5 DEF FrameOK, Progress, Done, Alike
  <2>. QED BY <1>1, <1>3, <2>4, <2>5, <2>6, Filled DEF Alike
<1>6. CASE LeaveWith(Invalid(Top))
  BY <1>1, <1>2, <1>3, <1>6, Filled
<1>. QED BY <1>5, <1>6 DEF Select_Host_Step

LEMMA DescribePages ==
  ASSUME IInv, Describe
  PROVE  IInv'
<1>1. stack # <<>> /\ PageOf(Top) # "Confirmation_Step"
      /\ PageOf(Top) \in {"Resource_Meta_Info", "Config_Software", "Pick_Installer",
                          "MetaInfo", "Image_Meta_Step"}
  BY DEF Describe, OnPages
<1>2. FrameOK(Top) /\ Progress(Top)
  BY <1>1, ActiveFrame
<1>3. PageOf(Top) \notin DOMAIN ChildType
  BY <1>1 DEF ChildType
<1>4. Done(Top)
  BY <1>1, <1>2, Places DEF Done
<1>. QED BY <1>1, <1>2, <1>3, <1>4, Filled DEF Describe

----------------------------------------------------------------------------
(* Sessions.                                                               *)

LEMMA FreshFrame ==
  ASSUME IInv, NEW type \in Types, NEW t \in templates \cup {None}
  PROVE  /\ FrameOK(NewFrame(type, t)) /\ Progress(NewFrame(type, t))
         /\ NewFrame(type, t).type = type
<1>1. t \in Templates \cup {None}
  BY SavedThings
<1>2. <<>> \in Seq(AllHosts)
  OBVIOUS
<1>. DEFINE y == [template |-> None, config |-> None, opnfv |-> None, users |-> {},
                  draft |-> None, hosts |-> <<>>, machine |-> None]
            g == [type |-> type, at |-> 1, valid |-> {}, picker |-> FALSE,
                  template |-> t, config |-> None, opnfv |-> None, users |-> {},
                  draft |-> None, nets |-> None, hosts |-> <<>>, roles |-> None,
                  machine |-> None, booking |-> None, shown |-> y]
<1>3. y \in Summaries
  BY <1>2 DEF Summaries
<1>4. NewFrame(type, t) = g
  BY DEF NewFrame
<1>. HIDE DEF y
<1>5. /\ g \in Frames /\ g.type = type /\ g.at = 1 /\ g.valid = {} /\ g.template = t
      /\ g.config = None
  BY <1>1, <1>2, <1>3 DEF Frames
<1>. HIDE DEF g
<1>6. 1 \in DOMAIN Steps[type]
  <2>. DEFINE n == Len(Steps[type])
  <2>1. DOMAIN Steps[type] = 1..n /\ n \in 3..6
    BY LastPage
  <2>. HIDE DEF n
  <2>. QED BY <2>1
<1>7. FrameOK(g)
  BY <1>5, <1>6 DEF FrameOK
<1>8. Progress(g)
  BY <1>5 DEF Progress
<1>. QED BY <1>4, <1>5, <1>7, <1>8

LEMMA SessionSteps ==
  ASSUME IInv, \/ \E type \in Types : CreateSession(type)
               \/ AddWorkflow \/ Leave \/ BackFromConfirm \/ Restart
  PROVE  IInv'
<1>1. TypeOK /\ InvNested /\ (\A i \in DOMAIN stack : Progress(stack[i]))
      /\ backs \in 0..MaxBacks /\ MaxBacks \in Nat /\ MaxDepth \in Nat \ {0}
  BY BoundsAssumption DEF IInv, InvFrames, TypeOK
<1>2. ASSUME NEW type \in Types, CreateSession(type)
      PROVE  IInv'
  <2>. DEFINE g == NewFrame(type, None)
  <2>1. FrameOK(g) /\ Progress(g) /\ stack' = <<g>>
    BY <1>2, FreshFrame DEF CreateSession
  <2>. HIDE DEF g
  <2>2. /\ stack' \in Seq(Frames) /\ Len(stack') = 1 /\ DOMAIN stack' = {1}
        /\ \A i \in DOMAIN stack' : stack'[i] = g
    BY <2>1 DEF FrameOK
  <2>3. StackKept
    BY <1>1, <2>1, <2>2 DEF StackKept, InvNested, FrameOK
  <2>. QED BY <1>1, <1>2, <2>1, <2>2, <2>3, NothingSaved DEF CreateSession
<1>3. CASE AddWorkflow
  <2>1. stack # <<>> /\ PageOf(Top) \in DOMAIN ChildType
    BY <1>3 DEF AddWorkflow, OnPages
  <2>. DEFINE type == ChildType[PageOf(Top)]
              g == NewFrame(type, Top.template)
  <2>2. type \in Types
    BY <2>1, Pages DEF ChildType
  <2>3. Top.template \in templates \cup {None}
    BY <2>1, ActiveFrame DEF Progress
  <2>4. FrameOK(g) /\ Progress(g) /\ g.type = ChildType[PageOf(Top)]
        /\ stack' = Append(stack, g) /\ Len(stack) < MaxDepth
    BY <1>3, <2>2, <2>3, FreshFrame DEF AddWorkflow
  <2>. HIDE DEF g
  <2>5. /\ StackKept
        /\ \A i \in DOMAIN stack' :
              stack'[i] = g \/ (i \in DOMAIN stack /\ stack'[i] = stack[i])
    BY <1>1, <2>1, <2>4, PushFrame
  <2>6. \A i \in DOMAIN stack' : Progress(stack'[i])
    BY <1>1, <2>4, <2>5
  <2>. QED BY <1>1, <1>3, <2>5, <2>6, NothingSaved DEF AddWorkflow
<1>4. CASE Leave
  <2>1. /\ StackKept
        /\ \A i \in DOMAIN stack' : i \in DOMAIN stack /\ stack'[i] = stack[i]
    BY <1>1, <1>4, PopTop DEF Leave, Pop
  <2>2. \A i \in DOMAIN stack' : Progress(stack'[i])
    BY <1>1, <2>1
  <2>. QED BY <1>1, <1>4, <2>1, <2>2, NothingSaved DEF Leave
<1>5. CASE BackFromConfirm
  <2>1. stack # <<>> /\ PageOf(Top) = "Confirmation_Step" /\ backs < MaxBacks
        /\ stack' = [stack EXCEPT ![Len(stack)] = GoPrev(Top)]
        /\ backs' = backs + 1
    BY <1>5 DEF BackFromConfirm, OnPages
  <2>2. FrameOK(Top) /\ Progress(Top)
    BY <2>1, ActiveFrame
  <2>3. Top.at > 1
    <3>. DEFINE n == Len(Steps[Top.type])
    <3>1. Top.at = n /\ n \in 3..6
      BY <2>1, <2>2, FrameAt
    <3>. HIDE DEF n
    <3>. QED BY <3>1
  <2>. DEFINE f == Top
              g == GoPrev(f)
  <2>4. FrameOK(f) /\ Progress(f) /\ f.at > 1
    BY <2>2, <2>3
  <2>. HIDE DEF f
  <2>5. PICK q \in DOMAIN Steps[f.type] : q < f.at /\ g = [f EXCEPT !.at = q]
    BY <2>4, MovesBack
  <2>6. q \in 1..6 /\ f.at \in 1..6 /\ q <= f.at /\ f \in Frames
    BY <2>4, <2>5, FrameAt DEF FrameOK
  <2>7. FrameOK(g) /\ Progress(g) /\ g.type = f.type
    BY <2>4, <2>5, <2>6, ProgressBack, AtPage
  <2>8. stack' = [stack EXCEPT ![Len(stack)] = g] /\ g.type = Top.type
    BY <2>1, <2>7 DEF f
  <2>. HIDE DEF g
  <2>9. /\ StackKept
        /\ \A i \in DOMAIN stack' : i \in DOMAIN stack /\ stack'[i] \in {g, stack[i]}
    BY <1>1, <2>1, <2>7, <2>8, ReplaceTop
  <2>10. \A i \in DOMAIN stack' : Progress(stack'[i])
    BY <1>1, <2>7, <2>9
  <2>11. backs' \in 0..MaxBacks
    BY <1>1, <2>1
  <2>. QED BY <1>5, <2>9, <2>10, <2>11, NothingSaved DEF BackFromConfirm
<1>6. CASE Restart
  <2>1. stack' = <<>> /\ DOMAIN stack' = {} /\ Len(stack') = 0
    BY <1>6 DEF Restart
  <2>2. StackKept
    BY <1>1, <2>1 DEF StackKept, InvNested
  <2>. QED BY <1>1, <1>6, <2>1, <2>2, NothingSaved DEF Restart
<1>. QED BY <1>2, <1>3, <1>4, <1>5, <1>6

----------------------------------------------------------------------------
(* Saving.                                                                 *)

(* Progress, of what is saved at another time.                             *)
Fits(f, T, S, C) ==
    /\ f.template \in T \cup {None}
    /\ f.config \in S \cup {None}
    /\ f.type = "booking" =>
         /\ f.at > 1 \/ 1 \in f.valid => f.template # None
         /\ f.at > 2 \/ 2 \in f.valid => f.config # None
         /\ (f.at > 4 /\ f.picker) \/ 4 \in f.valid => f.opnfv # None
    /\ f.type = "resource" =>
         /\ f.at > 1 => f.draft # None
         /\ f.at > 2 => f.nets = f.draft
    /\ f.type = "config" =>
         /\ f.at > 1 \/ 1 \in f.valid => f.template # None
         /\ f.at > 2 => f.hosts # <<>> /\ Range(f.hosts) \subseteq Range(HostsOf(f.template))
    /\ f.type = "opnfv" =>
         /\ f.at > 1 \/ 1 \in f.valid => f.config # None
         /\ f.at > 3 => f.nets = C[f.config].of
         /\ f.at > 4 => f.roles # None
    /\ f.type = "snapshot" /\ f.at > 1 => f.machine # None /\ f.booking # None

(* Nothing is unsaved, and what is saved does not change.                  *)
SavesMore ==
  /\ templates \subseteq templates' /\ SavedConfigs \subseteq SavedConfigs'
  /\ \A c \in SavedConfigs : configs'[c] = configs[c]

LEMMA FitsLater ==
  ASSUME IInv, SavesMore, NEW f, FrameOK(f), Progress(f)
  PROVE  Fits(f, templates', SavedConfigs', configs')
<1>. DEFINE T == templates'
            S == SavedConfigs'
            C == configs'
<1>1. templates \subseteq T /\ SavedConfigs \subseteq S
      /\ \A c \in SavedConfigs : C[c] = configs[c]
  BY DEF SavesMore
<1>. HIDE DEF T, S, C
<1>2. f.config = None \/ C[f.config] = configs[f.config]
  BY <1>1 DEF Progress
<1>3. f.at \in 1..6
  BY FrameAt
<1>4. Fits(f, T, S, C)
  BY <1>1, <1>2, <1>3 DEF Progress, Fits
<1>. QED BY <1>4 DEF T, S, C

LEMMA FramesLater ==
  ASSUME \A i \in DOMAIN stack' : Fits(stack'[i], templates', SavedConfigs', configs')
  PROVE  InvFrames'
BY DEF InvFrames, Progress, Fits

(* The result of a child, in its parent's repository.                      *)
Give(f, key, x) == [f EXCEPT ![key] = x]

LEMMA Given ==
  ASSUME NEW f, FrameOK(f), NEW key, NEW x,
         \/ key = "template" /\ x \in Templates
         \/ key = "config" /\ x \in Configs
         \/ key = "opnfv" /\ x \in OpnfvConfigs
  PROVE  LET g == Give(f, key, x) IN
         /\ FrameOK(g)
         /\ g.type = f.type /\ g.at = f.at /\ g.valid = f.valid /\ g.picker = f.picker
         /\ g.template = IF key = "template" THEN x ELSE f.template
         /\ g.config = IF key = "config" THEN x ELSE f.config
         /\ g.opnfv = IF key = "opnfv" THEN x ELSE f.opnfv
         /\ g.draft = f.draft /\ g.nets = f.nets /\ g.hosts = f.hosts /\ g.roles = f.roles
         /\ g.machine = f.machine /\ g.booking = f.booking
<1>1. f \in Frames
  BY DEF FrameOK
<1>2. CASE key = "template" /\ x \in Templates
  <2>1. Give(f, key, x) = [f EXCEPT !.template = x]
    BY <1>2 DEF Give
  <2>. QED BY <1>1, <1>2, <2>1 DEF Frames, FrameOK
<1>3. CASE key = "config" /\ x \in Configs
  <2>1. Give(f, key, x) = [f EXCEPT !.config = x]
    BY <1>3 DEF Give
  <2>. QED BY <1>1, <1>3, <2>1 DEF Frames, FrameOK
<1>4. CASE key = "opnfv" /\ x \in OpnfvConfigs
  <2>1. Give(f, key, x) = [f EXCEPT !.opnfv = x]
    BY <1>4 DEF Give
  <2>. QED BY <1>1, <1>4, <2>1 DEF Frames, FrameOK
<1>. QED BY <1>2, <1>3, <1>4

(* The page a parent waits on, by the kind of its child.                   *)
LEMMA Parent ==
  ASSUME IInv, Len(stack) > 1
  PROVE  LET p == stack[Len(stack) - 1] IN
         /\ Len(stack) - 1 \in DOMAIN stack /\ FrameOK(p) /\ Progress(p)
         /\ Top.type = "resource" => p.type \in {"booking", "config"} /\ p.at = 1
         /\ Top.type = "config" =>
               (p.type = "booking" /\ p.at = 2) \/ (p.type = "opnfv" /\ p.at = 1)
         /\ Top.type = "opnfv" => p.type = "booking" /\ p.at = 4
<1>. DEFINE n == Len(stack) - 1
            p == stack[n]
<1>1. Len(stack) \in Nat /\ DOMAIN stack = 1..Len(stack)
  BY FramesOfStack DEF IInv
<1>2. n \in DOMAIN stack /\ n \in 1..Len(stack) - 1 /\ n + 1 = Len(stack)
  BY <1>1
<1>3. FrameOK(p) /\ Progress(p)
  BY <1>2, FramesOfStack DEF IInv, InvFrames
<1>4. PageOf(p) \in DOMAIN ChildType /\ Top.type = ChildType[PageOf(p)]
  BY <1>2 DEF IInv, InvNested, Top
<1>. HIDE DEF p
<1>5. /\ Top.type = "resource" =>
           PageOf(p) \in {"Booking_Resource_Select", "SWConf_Resource_Select"}
      /\ Top.type = "config" => PageOf(p) \in {"SWConfig_Select", "OPNFV_Resource_Select"}
      /\ Top.type = "opnfv" => PageOf(p) = "OPNFV_Select"
  BY <1>4 DEF ChildType
<1>6. /\ Top.type = "resource" => p.type \in {"booking", "config"} /\ p.at = 1
      /\ Top.type = "config" =>
            (p.type = "booking" /\ p.at = 2) \/ (p.type = "opnfv" /\ p.at = 1)
      /\ Top.type = "opnfv" => p.type = "booking" /\ p.at = 4
  BY <1>3, <1>5, Places
<1>. QED BY <1>2, <1>3, <1>6 DEF p

(* A workflow ends without a result.                                       *)
LEMMA Popped ==
  ASSUME IInv, SavesMore, stack # <<>>, Pop
  PROVE  StackKept /\ InvFrames'
<1>1. /\ StackKept
      /\ \A i \in DOMAIN stack' : i \in DOMAIN stack /\ stack'[i] = stack[i]
  BY PopTop DEF IInv, Pop
<1>2. \A i \in DOMAIN stack' : FrameOK(stack'[i]) /\ Progress(stack'[i])
  BY <1>1, FramesOfStack DEF IInv, InvFrames
<1>3. \A i \in DOMAIN stack' : Fits(stack'[i], templates', SavedConfigs', configs')
  BY <1>2, FitsLater
<1>. QED BY <1>1, <1>3, FramesLater

(* A workflow ends with a result, saved by now, for the page that waits.   *)
LEMMA PoppedWith ==
  ASSUME IInv, SavesMore, stack # <<>>, NEW key, NEW x, PopWith(key, x), x # None,
         \/ /\ key = "template" /\ Top.type = "resource"
            /\ x \in Templates /\ x \in templates'
         \/ /\ key = "config" /\ Top.type = "config"
            /\ x \in Configs /\ x \in SavedConfigs'
         \/ /\ key = "opnfv" /\ Top.type = "opnfv"
            /\ x \in OpnfvConfigs
  PROVE  StackKept /\ InvFrames'
<1>1. Len(stack) \in Nat \ {0}
  BY FramesOfStack DEF IInv
<1>2. CASE Len(stack) = 1
  <2>1. stack' = <<>> /\ DOMAIN stack' = {} /\ Len(stack') = 0
    BY <1>2 DEF PopWith
  <2>2. StackKept
    BY <2>1, BoundsAssumption DEF StackKept, InvNested
  <2>. QED BY <2>1, <2>2, FramesLater
<1>3. CASE Len(stack) # 1
  <2>1. Len(stack) > 1
    <3>. DEFINE m == Len(stack)
    <3>1. m \in Nat \ {0} /\ m # 1
      BY <1>1, <1>3
    <3>. HIDE DEF m
    <3>2. m > 1
      BY <3>1
    <3>. QED BY <3>2 DEF m
  <2>. DEFINE n == Len(stack) - 1
              p == stack[n]
              g == Give(p, key, x)
              T == templates'
              S == SavedConfigs'
              C == configs'
  <2>2. /\ n \in DOMAIN stack /\ FrameOK(p) /\ Progress(p)
        /\ Top.type = "resource" => p.type \in {"booking", "config"} /\ p.at = 1
        /\ Top.type = "config" =>
              (p.type = "booking" /\ p.at = 2) \/ (p.type = "opnfv" /\ p.at = 1)
        /\ Top.type = "opnfv" => p.type = "booking" /\ p.at = 4
    BY <2>1, Parent
  <2>3. Fits(p, T, S, C)
    BY <2>2, FitsLater
  <2>4. stack' = [Front(stack) EXCEPT ![n] = g]
    <3>1. n \in 1..n /\ Front(stack)[n] = p
      BY <2>1, <1>1, FrontFrames DEF IInv
    <3>2. stack' = [Front(stack) EXCEPT ![n][key] = x]
      BY <1>3 DEF PopWith
    <3>. HIDE DEF p, n
    <3>. DEFINE f == Front(stack)
    <3>3. f[n] = p /\ stack' = [f EXCEPT ![n][key] = x]
      BY <3>1, <3>2
    <3>. HIDE DEF f
    <3>4. stack' = [f EXCEPT ![n] = g]
      BY <3>3 DEF Give
    <3>. QED BY <3>4 DEF f
  <2>5. /\ FrameOK(g)
        /\ g.type = p.type /\ g.at = p.at /\ g.valid = p.valid /\ g.picker = p.picker
        /\ g.template = IF key = "template" THEN x ELSE p.template
        /\ g.config = IF key = "config" THEN x ELSE p.config
        /\ g.opnfv = IF key = "opnfv" THEN x ELSE p.opnfv
        /\ g.draft = p.draft /\ g.nets = p.nets /\ g.hosts = p.hosts /\ g.roles = p.roles
        /\ g.machine = p.machine /\ g.booking = p.booking
    BY <2>2, Given
  <2>6. \/ key = "template" /\ x \in T /\ p.type \in {"booking", "config"} /\ p.at = 1
        \/ /\ key = "config" /\ x \in S
           /\ (p.type = "booking" /\ p.at = 2) \/ (p.type = "opnfv" /\ p.at = 1)
        \/ key = "opnfv" /\ p.type = "booking" /\ p.at = 4
    BY <2>2
  <2>7. /\ StackKept
        /\ \A i \in DOMAIN stack' : i \in DOMAIN stack /\ stack'[i] \in {g, stack[i]}
    BY <2>1, <2>4, <2>5, PopInto DEF IInv
  <2>. HIDE DEF g, p, T, S, C
  <2>8. Fits(g, T, S, C)
    BY <2>3, <2>5, <2>6 DEF Fits
  <2>9. \A i \in DOMAIN stack : Fits(stack[i], T, S, C)
    BY FitsLater, FramesOfStack DEF IInv, InvFrames, T, S, C
  <2>10. \A i \in DOMAIN stack' : Fits(stack'[i], T, S, C)
    BY <2>7, <2>8, <2>9
  <2>. QED BY <2>7, <2>10, FramesLater DEF T, S, C
<1>. QED BY <1>2, <1>3

(* At the confirmation page every other page has been passed.              *)
LEMMA AtConfirm ==
  ASSUME NEW f, FrameOK(f), Progress(f), PageOf(f) = "Confirmation_Step"
  PROVE  /\ f.type = "booking" => f.template # None /\ f.config # None
                                  /\ (f.picker => f.opnfv # None)
         /\ f.type = "resource" => f.draft # None /\ f.nets = f.draft
         /\ f.type = "config" => /\ f.template # None /\ f.hosts # <<>>
                                 /\ Range(f.hosts) \subseteq Range(HostsOf(f.template))
         /\ f.type = "opnfv" => /\ f.config # None /\ f.roles # None
                                /\ f.nets = configs[f.config].of
         /\ f.type = "snapshot" => f.machine # None /\ f.booking # None
<1>. DEFINE n == Len(Steps[f.type])
<1>1. f.type \in Types /\ f.at = n
  BY FrameAt
<1>2. /\ f.type = "booking" => n = 5
      /\ f.type \in {"resource", "config"} => n = 4
      /\ f.type = "snapshot" => n = 3
      /\ f.type = "opnfv" => n = 6
  BY <1>1, LastPage
<1>. HIDE DEF n
<1>. QED BY <1>1, <1>2 DEF Progress

LEMMA ReadyFrame ==
  ASSUME NEW f, FrameOK(f), Progress(f), PageOf(f) = "Confirmation_Step"
  PROVE  Ready(f)
<1>1. f.type \in {"booking", "resource", "config", "snapshot", "opnfv"}
  BY Pages DEF FrameOK, Frames
<1>2. CASE f.type = "booking"
  BY <1>2, AtConfirm DEF Ready
<1>3. CASE f.type = "resource"
  BY <1>3, AtConfirm DEF Ready
<1>4. CASE f.type = "config"
  BY <1>4, AtConfirm DEF Ready
<1>5. CASE f.type = "snapshot"
  BY <1>5, AtConfirm DEF Ready
<1>6. CASE f.type = "opnfv"
  BY <1>6, AtConfirm DEF Ready
<1>. QED BY <1>1, <1>2, <1>3, <1>4, <1>5, <1>6

(* The frame whose models are made.                                        *)
LEMMA ConfirmedTop ==
  ASSUME IInv, NEW type \in Types, Confirming(type)
  PROVE  /\ stack # <<>> /\ Top.type = type /\ Top \in Frames
         /\ type = "booking" => Top.template \in templates /\ Top.config \in SavedConfigs
         /\ type = "resource" => Top.draft \in Templates /\ Top.draft # None
         /\ type = "config" => /\ Top.template \in templates /\ Top.template # None
                               /\ Top.hosts \in Seq(AllHosts)
                               /\ Range(Top.hosts) \subseteq Range(HostsOf(Top.template))
         /\ type = "opnfv" => /\ Top.config \in SavedConfigs /\ Top.roles \in Templates
                              /\ Top.nets = configs[Top.config].of
<1>1. stack # <<>> /\ Top.type = type /\ PageOf(Top) = "Confirmation_Step"
  BY DEF Confirming, OnPages
<1>2. FrameOK(Top) /\ Progress(Top) /\ Top \in Frames
  BY <1>1, ActiveFrame
<1>3. /\ Top.template \in templates \cup {None} /\ Top.config \in SavedConfigs \cup {None}
      /\ Top.draft \in Templates \cup {None} /\ Top.roles \in Templates \cup {None}
      /\ Top.hosts \in Seq(AllHosts)
  BY <1>2 DEF Frames, Progress
<1>. QED BY <1>1, <1>2, <1>3, AtConfirm

LEMMA MadeTypes ==
  ASSUME IInv, stack # <<>>, NEW saved
  PROVE  Made(saved).type = Top.type /\ Made(saved).saved = saved /\ Made(saved).type \in Types
BY ActiveFrame DEF Made

LEMMA ResourceMade ==
  ASSUME IInv, MakeResource
  PROVE  IInv'
<1>1. /\ stack # <<>> /\ Top.type = "resource"
      /\ Top.draft \in Templates /\ Top.draft # None
  BY ConfirmedTop, Pages DEF MakeResource
<1>2. /\ templates' = templates \cup {Top.draft} /\ PopWith("template", Top.draft)
      /\ UNCHANGED <<configs, opnfvs, backs>>
  BY DEF MakeResource
<1>3. made'.type = "resource"
  BY <1>1, MadeTypes DEF MakeResource
<1>4. SavedConfigs' = SavedConfigs /\ SavedOpnfvs' = SavedOpnfvs /\ SavesMore
  BY <1>2 DEF SavedConfigs, SavedOpnfvs, SavesMore
<1>5. StackKept /\ InvFrames'
  BY <1>1, <1>2, <1>4, PoppedWith
<1>6. TypeOK'
  BY <1>1, <1>2, <1>3, <1>5, Pages DEF IInv, TypeOK, StackKept
<1>7. SavedObjectsFit'
  BY <1>2, <1>4 DEF IInv, SavedObjectsFit, Configured
<1>8. BookingsConfigured'
  BY <1>3 DEF BookingsConfigured
<1>. QED BY <1>5, <1>6, <1>7, <1>8 DEF IInv, StackKept

LEMMA ConfigMade ==
  ASSUME IInv, MakeConfig
  PROVE  IInv'
<1>1. PICK c \in Configs \ SavedConfigs :
        /\ Confirming("config")
        /\ configs' = [configs EXCEPT ![c] = [of |-> Top.template, hosts |-> Range(Top.hosts)]]
        /\ made' = Made([template |-> Top.template, hosts |-> Top.hosts])
        /\ PopWith("config", c)
        /\ UNCHANGED <<templates, opnfvs, backs>>
  BY DEF MakeConfig
<1>2. /\ stack # <<>> /\ Top.type = "config"
      /\ Top.template \in templates /\ Top.template # None /\ Top.hosts \in Seq(AllHosts)
      /\ Range(Top.hosts) \subseteq Range(HostsOf(Top.template))
  BY <1>1, ConfirmedTop, Pages
<1>3. made'.type = "config"
  BY <1>1, <1>2, MadeTypes
<1>. DEFINE new == [of |-> Top.template, hosts |-> Range(Top.hosts)]
            D == [of : Templates \cup {None}, hosts : SUBSET AllHosts]
<1>4. new \in D /\ new # Unsaved /\ new.of = Top.template /\ new.hosts = Range(Top.hosts)
  <2>1. Range(Top.hosts) \subseteq AllHosts
    BY <1>2 DEF Range
  <2>2. new.of # Unsaved.of
    BY <1>2 DEF Unsaved
  <2>. QED BY <1>2, <2>1, <2>2, SavedThings
<1>5. configs' = [configs EXCEPT ![c] = new] /\ configs \in [Configs -> D]
  BY <1>1 DEF IInv, TypeOK
<1>. HIDE DEF new, D
<1>6. configs' \in [Configs -> D] /\ configs'[c] = new
      /\ \A d \in Configs \ {c} : configs'[d] = configs[d]
  BY <1>4, <1>5
<1>7. SavedConfigs' = SavedConfigs \cup {c} /\ SavedOpnfvs' = SavedOpnfvs /\ SavesMore
  <2>1. SavedConfigs' = SavedConfigs \cup {c}
    BY <1>4, <1>6 DEF SavedConfigs, Unsaved
  <2>2. SavedOpnfvs' = SavedOpnfvs
    BY <1>1 DEF SavedOpnfvs
  <2>3. \A d \in SavedConfigs : configs'[d] = configs[d]
    BY <1>6, SavedThings
  <2>. QED BY <1>1, <2>1, <2>2, <2>3 DEF SavesMore
<1>8. StackKept /\ InvFrames'
  <2>1. c # None /\ c \in SavedConfigs'
    BY <1>7, ConfigsAssumption
  <2>. QED BY <1>1, <1>2, <1>7, <2>1, PoppedWith
<1>9. TypeOK'
  <2>1. made'.type \in Types
    BY <1>3, Pages
  <2>. QED BY <1>1, <1>6, <1>8, <2>1 DEF IInv, TypeOK, StackKept, D
<1>10. SavedObjectsFit'
  <2>1. \A d \in SavedConfigs' :
           configs'[d].of \in templates' /\ configs'[d].hosts \subseteq Range(HostsOf(configs'[d].of))
    <3>1. \A d \in SavedConfigs :
             configs'[d].of \in templates' /\ configs'[d].hosts \subseteq Range(HostsOf(configs'[d].of))
      BY <1>1, <1>7 DEF IInv, SavedObjectsFit, SavesMore
    <3>2. configs'[c].of \in templates' /\ configs'[c].hosts \subseteq Range(HostsOf(configs'[c].of))
      BY <1>1, <1>2, <1>4, <1>6
    <3>. QED BY <1>7, <3>1, <3>2
  <2>2. \A o \in SavedOpnfvs' :
           /\ opnfvs'[o].of \in SavedConfigs'
           /\ opnfvs'[o].nets = configs'[opnfvs'[o].of].of
           /\ opnfvs'[o].roles \subseteq {h[2] : h \in configs'[opnfvs'[o].of].hosts}
    <3>. SUFFICES ASSUME NEW o \in SavedOpnfvs
                  PROVE  /\ opnfvs[o].of \in SavedConfigs'
                         /\ opnfvs[o].nets = configs'[opnfvs[o].of].of
                         /\ opnfvs[o].roles \subseteq {h[2] : h \in configs'[opnfvs[o].of].hosts}
      BY <1>1, <1>7
    <3>1. /\ opnfvs[o].of \in SavedConfigs
          /\ opnfvs[o].nets = configs[opnfvs[o].of].of
          /\ opnfvs[o].roles \subseteq {h[2] : h \in configs[opnfvs[o].of].hosts}
      BY DEF IInv, SavedObjectsFit, Configured
    <3>2. configs'[opnfvs[o].of] = configs[opnfvs[o].of] /\ opnfvs[o].of \in SavedConfigs'
      BY <1>7, <3>1 DEF SavesMore
    <3>. QED BY <3>1, <3>2
  <2>. QED BY <2>1, <2>2 DEF SavedObjectsFit, Configured
<1>11. BookingsConfigured'
  BY <1>3 DEF BookingsConfigured
<1>. QED BY <1>8, <1>9, <1>10, <1>11 DEF IInv, StackKept

LEMMA OpnfvMade ==
  ASSUME IInv, MakeOpnfv
  PROVE  IInv'
<1>. DEFINE names == HostNames[Top.roles]
            found == {n \in DOMAIN names :
                        \A i \in 1..n : names[i] \in Configured(Top.config)}
            new == [of |-> Top.config, nets |-> Top.nets, roles |-> {names[i] : i \in found}]
<1>1. PICK o \in OpnfvConfigs \ SavedOpnfvs :
        /\ Confirming("opnfv")
        /\ opnfvs' = [opnfvs EXCEPT ![o] = new]
        /\ \/ PopWith("opnfv", o) /\ made' = Made([config |-> Top.config])
           \/ Pop /\ made' = Nothing
        /\ UNCHANGED <<templates, configs, backs>>
  BY DEF MakeOpnfv
<1>2. /\ stack # <<>> /\ Top.type = "opnfv"
      /\ Top.config \in SavedConfigs /\ Top.roles \in Templates
      /\ Top.nets = configs[Top.config].of
  BY <1>1, ConfirmedTop, Pages
<1>3. made'.type \in {"opnfv", "nothing"}
  BY <1>1, <1>2, MadeTypes DEF Nothing
<1>. DEFINE D == [of : Configs \cup {None}, nets : Templates \cup {None},
                  roles : SUBSET UNION {Range(HostNames[s]) : s \in Templates}]
<1>4. /\ new \in D /\ new.of = Top.config /\ new.nets = Top.nets
      /\ new.roles \subseteq Configured(Top.config)
  <2>1. {names[i] : i \in found} \subseteq Range(HostNames[Top.roles])
    BY DEF Range
  <2>2. {names[i] : i \in found} \subseteq Configured(Top.config)
    <3>1. DOMAIN names \subseteq Nat \ {0}
      <4>1. names \in Seq(Range(names))
        BY <1>2, TemplatesAssumption
      <4>. HIDE DEF names
      <4>. QED BY <4>1
    <3>2. \A i \in found : i \in 1..i
      BY <3>1
    <3>. HIDE DEF names
    <3>. QED BY <3>2
  <2>3. Top.config \in Configs /\ Top.nets \in Templates
    BY <1>2, SavedThings
  <2>4. {names[i] : i \in found} \subseteq UNION {Range(HostNames[s]) : s \in Templates}
    BY <1>2, <2>1
  <2>. DEFINE R == {names[i] : i \in found}
  <2>. HIDE DEF names, found, R
  <2>5. new = [of |-> Top.config, nets |-> Top.nets, roles |-> R]
    BY DEF R
  <2>. QED BY <2>2, <2>3, <2>4, <2>5 DEF R
<1>5. opnfvs' = [opnfvs EXCEPT ![o] = new] /\ opnfvs \in [OpnfvConfigs -> D]
  BY <1>1 DEF IInv, TypeOK
<1>. HIDE DEF new, D
<1>6. opnfvs' \in [OpnfvConfigs -> D] /\ opnfvs'[o] = new
      /\ \A p \in OpnfvConfigs \ {o} : opnfvs'[p] = opnfvs[p]
  BY <1>4, <1>5
<1>7. SavedConfigs' = SavedConfigs /\ SavesMore
      /\ \A p \in SavedOpnfvs' : p = o \/ (p \in SavedOpnfvs /\ opnfvs'[p] = opnfvs[p])
  <2>1. SavedConfigs' = SavedConfigs
    BY <1>1 DEF SavedConfigs
  <2>2. \A p \in SavedOpnfvs' : p = o \/ (p \in SavedOpnfvs /\ opnfvs'[p] = opnfvs[p])
    BY <1>6 DEF SavedOpnfvs, UnsavedOpnfv
  <2>. QED BY <1>1, <2>1, <2>2 DEF SavesMore
<1>8. StackKept /\ InvFrames'
  <2>1. o # None
    BY ConfigsAssumption
  <2>2. CASE PopWith("opnfv", o)
    BY <1>2, <1>7, <2>1, <2>2, PoppedWith
  <2>3. CASE Pop
    BY <1>2, <1>7, <2>3, Popped
  <2>. QED BY <1>1, <2>2, <2>3
<1>9. TypeOK'
  <2>1. made'.type \in Types \cup {"nothing"}
    BY <1>3, Pages
  <2>. QED BY <1>1, <1>6, <1>8, <2>1 DEF IInv, TypeOK, StackKept, D
<1>10. SavedObjectsFit'
  <2>1. \A c \in SavedConfigs' :
           configs'[c].of \in templates' /\ configs'[c].hosts \subseteq Range(HostsOf(configs'[c].of))
    BY <1>1, <1>7 DEF IInv, SavedObjectsFit
  <2>2. \A p \in SavedOpnfvs' :
           /\ opnfvs'[p].of \in SavedConfigs'
           /\ opnfvs'[p].nets = configs'[opnfvs'[p].of].of
           /\ opnfvs'[p].roles \subseteq {h[2] : h \in configs'[opnfvs'[p].of].hosts}
    <3>. SUFFICES ASSUME NEW p \in SavedOpnfvs'
                  PROVE  /\ opnfvs'[p].of \in SavedConfigs
                         /\ opnfvs'[p].nets = configs[opnfvs'[p].of].of
                         /\ opnfvs'[p].roles \subseteq Configured(opnfvs'[p].of)
      BY <1>1, <1>7 DEF Configured
    <3>1. CASE p = o
      BY <1>2, <1>4, <1>6, <3>1
    <3>2. CASE p \in SavedOpnfvs /\ opnfvs'[p] = opnfvs[p]
      BY <3>2 DEF IInv, SavedObjectsFit
    <3>. QED BY <1>7, <3>1, <3>2
  <2>. QED BY <2>1, <2>2 DEF SavedObjectsFit, Configured
<1>11. BookingsConfigured'
  BY <1>3 DEF BookingsConfigured
<1>. QED BY <1>8, <1>9, <1>10, <1>11 DEF IInv, StackKept

(* A workflow that saves nothing of the session ends.                      *)
LEMMA EndsBare ==
  ASSUME IInv, stack # <<>>, Pop, UNCHANGED <<templates, configs, opnfvs, backs>>,
         made'.type \in Types \cup {"nothing"}, BookingsConfigured'
  PROVE  IInv'
<1>1. SavedConfigs' = SavedConfigs /\ SavedOpnfvs' = SavedOpnfvs /\ SavesMore
  BY DEF SavedConfigs, SavedOpnfvs, SavesMore
<1>2. StackKept /\ InvFrames'
  BY <1>1, Popped
<1>3. TypeOK'
  BY <1>2 DEF IInv, TypeOK, StackKept
<1>4. SavedObjectsFit'
  BY <1>1 DEF IInv, SavedObjectsFit, Configured
<1>. QED BY <1>2, <1>3, <1>4 DEF IInv, StackKept

LEMMA BookingMade ==
  ASSUME IInv, NEW available \in BOOLEAN, MakeBooking(available)
  PROVE  IInv'
<1>1. /\ stack # <<>> /\ Top.type = "booking"
      /\ Top.template \in templates /\ Top.config \in SavedConfigs
  BY ConfirmedTop, Pages DEF MakeBooking
<1>. DEFINE s == [template |-> Top.template, config |-> Top.config,
                  opnfv |-> None, users |-> Top.users]
<1>2. CASE Bookable(Top) /\ made' = Made(s)
  <2>1. made'.type = "booking" /\ made'.saved = s /\ made'.type \in Types
    BY <1>1, <1>2, MadeTypes
  <2>2. Range(HostsOf(Top.template)) \subseteq configs[Top.config].hosts
    BY <1>2 DEF Bookable
  <2>3. Top.template \in Templates /\ configs[Top.config].of \in Templates
        /\ configs[Top.config].hosts \subseteq Range(HostsOf(configs[Top.config].of))
    BY <1>1, SavedThings DEF IInv, SavedObjectsFit
  <2>4. PICK h : h \in Range(HostsOf(Top.template))
    <3>1. 1 \in DOMAIN HostsOf(Top.template)
      BY <2>3, HostsOfType
    <3>. QED BY <3>1 DEF Range
  <2>5. h[1] = Top.template /\ h[1] = configs[Top.config].of
    BY <2>2, <2>3, <2>4, HostsOfType
  <2>6. UNCHANGED <<templates, configs, opnfvs, backs>> /\ Pop
    BY DEF MakeBooking
  <2>7. BookingsConfigured'
    BY <2>1, <2>2, <2>5, <2>6 DEF BookingsConfigured
  <2>. QED BY <1>1, <2>1, <2>6, <2>7, EndsBare
<1>3. CASE made' = Nothing
  <2>1. made'.type = "nothing" /\ UNCHANGED <<templates, configs, opnfvs, backs>> /\ Pop
    BY <1>3 DEF MakeBooking, Nothing
  <2>2. BookingsConfigured'
    BY <2>1 DEF BookingsConfigured
  <2>. QED BY <1>1, <2>1, <2>2, EndsBare
<1>. QED BY <1>2, <1>3 DEF MakeBooking

LEMMA SnapshotMade ==
  ASSUME IInv, NEW active \in BOOLEAN, MakeSnapshot(active)
  PROVE  IInv'
<1>1. stack # <<>> /\ Top.type = "snapshot"
  BY DEF MakeSnapshot, Confirming, OnPages
<1>2. made'.type \in {"snapshot", "nothing"}
  BY <1>1, MadeTypes DEF MakeSnapshot, Nothing
<1>3. UNCHANGED <<templates, configs, opnfvs, backs>> /\ Pop
  BY DEF MakeSnapshot
<1>4. BookingsConfigured' /\ made'.type \in Types \cup {"nothing"}
  BY <1>2, Pages DEF BookingsConfigured
<1>. QED BY <1>1, <1>3, <1>4, EndsBare

----------------------------------------------------------------------------
(* The invariant.                                                          *)

LEMMA SessionInit ==
  ASSUME Init
  PROVE  IInv
<1>. USE DEF Init
<1>1. stack = <<>> /\ DOMAIN stack = {} /\ Len(stack) = 0
  OBVIOUS
<1>2. InvNested /\ InvFrames
  BY <1>1 DEF InvNested, InvFrames
<1>. DEFINE stocked(c) == [of |-> StockConfigs[c], hosts |-> Range(HostsOf(StockConfigs[c]))]
            D == [of : Templates \cup {None}, hosts : SUBSET AllHosts]
<1>3. \A c \in DOMAIN StockConfigs :
         /\ StockConfigs[c] \in StockTemplates
         /\ stocked(c) \in D
  <2>. SUFFICES ASSUME NEW c \in DOMAIN StockConfigs
                PROVE  StockConfigs[c] \in StockTemplates /\ stocked(c) \in D
    OBVIOUS
  <2>1. StockConfigs[c] \in StockTemplates /\ StockTemplates \subseteq Templates
    BY ConfigsAssumption, TemplatesAssumption DEF Range
  <2>2. Range(HostsOf(StockConfigs[c])) \subseteq AllHosts
    BY <2>1, HostsOfType
  <2>. QED BY <2>1, <2>2
<1>4. Unsaved \in D
  BY DEF Unsaved
<1>5. configs = [c \in Configs |-> IF c \in DOMAIN StockConfigs THEN stocked(c) ELSE Unsaved]
  OBVIOUS
<1>6. configs \in [Configs -> D]
  <2>. HIDE DEF stocked, D
  <2>. QED BY <1>3, <1>4, <1>5
<1>7. SavedConfigs \subseteq DOMAIN StockConfigs
      /\ \A c \in SavedConfigs : configs[c] = stocked(c)
  BY <1>5 DEF SavedConfigs
<1>8. \A c \in SavedConfigs :
         configs[c].of \in templates /\ configs[c].hosts \subseteq Range(HostsOf(configs[c].of))
  <2>. SUFFICES ASSUME NEW c \in SavedConfigs
                PROVE  /\ configs[c].of \in templates
                       /\ configs[c].hosts \subseteq Range(HostsOf(configs[c].of))
    OBVIOUS
  <2>1. configs[c] = stocked(c) /\ StockConfigs[c] \in templates
    BY <1>3, <1>7
  <2>2. configs[c].of = StockConfigs[c] /\ configs[c].hosts = Range(HostsOf(StockConfigs[c]))
    BY <2>1
  <2>. QED BY <2>1, <2>2
<1>9. SavedOpnfvs = {}
  BY DEF SavedOpnfvs
<1>10. SavedObjectsFit
  BY <1>8, <1>9 DEF SavedObjectsFit
<1>11. BookingsConfigured
  BY DEF BookingsConfigured, Nothing
<1>12. TypeOK
  <2>1. /\ stack \in Seq(Frames) /\ Len(stack) <= MaxDepth
        /\ \A i \in DOMAIN stack : stack[i].at \in DOMAIN Steps[stack[i].type]
    BY <1>1, BoundsAssumption
  <2>2. templates \subseteq Templates /\ backs \in 0..MaxBacks /\ made.type = "nothing"
    BY TemplatesAssumption, BoundsAssumption DEF Nothing
  <2>3. opnfvs \in [OpnfvConfigs -> [of : Configs \cup {None}, nets : Templates \cup {None},
                              roles : SUBSET UNION {Range(HostNames[s]) : s \in Templates}]]
    BY DEF UnsavedOpnfv
  <2>. QED BY <1>6, <2>1, <2>2, <2>3 DEF TypeOK
<1>. QED BY <1>2, <1>10, <1>11, <1>12 DEF IInv

LEMMA SessionNext ==
  ASSUME IInv, [Next]_vars
  PROVE  IInv'
<1>1. CASE Resource_Select \/ SWConfig_Select \/ OPNFV_Select \/ OPNFV_Resource_Select
  BY <1>1, SelectPages
<1>2. CASE Booking_Meta
  BY <1>2, MetaPage
<1>3. CASE Define_Hardware \/ Define_Nets
  BY <1>3, ResourcePages
<1>4. CASE Define_Software
  BY <1>4, SoftwarePage
<1>5. CASE Assign_Network_Roles \/ Assign_Host_Roles
  BY <1>5, RolePages
<1>6. CASE Select_Host_Step
  BY <1>6, HostPage
<1>7. CASE Describe
  BY <1>7, DescribePages
<1>8. CASE \/ \E type \in Types : CreateSession(type)
           \/ AddWorkflow \/ Leave \/ BackFromConfirm \/ Restart
  BY <1>8, SessionSteps
<1>9. CASE MakeModels
  BY <1>9, ResourceMade, ConfigMade, OpnfvMade, BookingMade, SnapshotMade DEF MakeModels
<1>10. CASE UNCHANGED vars
  BY <1>10 DEF vars, IInv, TypeOK, InvNested, InvFrames, Progress, SavedObjectsFit,
       BookingsConfigured, SavedConfigs, SavedOpnfvs, Configured, PageOf
<1>. QED BY <1>1, <1>2, <1>3, <1>4, <1>5, <1>6, <1>7, <1>8, <1>9, <1>10 DEF Next

(* Every step of a session, of whichever workflow of the stack, keeps the  *)
(* invariant: a waiting workflow is on the page that opened its child, and *)
(* what a page had to provide is there once the user is past it.           *)
THEOREM SessionInvariant == Spec => []IInv
BY SessionInit, SessionNext, PTL DEF Spec

(* Every frame of the stack is on a page of its own workflow, and every    *)
(* entry of its repository is of the kind its key says.                    *)
THEOREM SessionTypes == Spec => []TypeOK
<1>1. IInv => TypeOK
  BY DEF IInv
<1>. QED BY <1>1, SessionInvariant, PTL

(* make_models finds what it reads: at the confirmation page of any        *)
(* workflow, on top of the stack or waiting, the repository is complete.   *)
THEOREM ReadyHolds == Spec => []ReadyAtConfirm
<1>1. IInv => ReadyAtConfirm
  BY FramesOfStack, ReadyFrame DEF IInv, InvFrames, ReadyAtConfirm
<1>. QED BY <1>1, SessionInvariant, PTL

(* A booking is made only with a configuration of its own template that    *)
(* covers every machine of it, though the user may have gone back and      *)
(* chosen another template after choosing the configuration.               *)
THEOREM BookingsFit == Spec => []BookingsConfigured
<1>1. IInv => BookingsConfigured
  BY DEF IInv
<1>. QED BY <1>1, SessionInvariant, PTL

(* What the workflows save stays consistent: configurations with saved     *)
(* templates, OPNFV configurations with saved configurations.              *)
THEOREM SavedFit == Spec => []SavedObjectsFit
<1>1. IInv => SavedObjectsFit
  BY DEF IInv
<1>. QED BY <1>1, SessionInvariant, PTL

=============================================================================
