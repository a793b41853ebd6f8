------------------------------ MODULE Desktops ------------------------------
(***************************************************************************)
(* The supervisor: it makes, reuses, replaces, stops and removes the       *)
(* desktop containers, and keeps them on a network on which they cannot    *)
(* talk to each other.                                                     *)
(*                                                                         *)
(* Every request is a thread (ThreadingHTTPServer) and every Docker call   *)
(* of it is a step: nothing is locked between them.  Docker itself keeps   *)
(* container names unique and refuses to delete a network in use.          *)
(***************************************************************************)
EXTENDS Integers, Sequences, FiniteSets

CONSTANTS Homes, Creators, MaxContainers, MaxReboots

ASSUME DesktopsAssumption == MaxContainers \in Nat /\ MaxReboots \in Nat

VARIABLES
  boxes,      \* containers: [home, current, state, net]; "gone" when removed
  net,      \* the network artek-computers: "none", "open" or "isolated"
  creator,  \* per creating request its Docker call, home and container
  reboots

desktopVars == <<boxes, net, creator, reboots>>

NoCreate == [pc |-> "idle", home |-> "none", boxes |-> 0]

(* An older release may have left a network that does not isolate and a
   desktop that is not hardened; a desktop that runs is on a network. *)
DesktopsInit ==
  /\ net \in {"none", "open", "isolated"}
  /\ boxes \in {<<>>} \cup
       {<<[home |-> h, current |-> FALSE, state |-> s, net |-> net]>> :
          h \in Homes, s \in {"exited", "running"} \ (IF net = "none" THEN {"running"} ELSE {})}
  /\ creator = [c \in Creators |-> NoCreate] /\ reboots = 0

CreatorAt(c, pc) == creator[c].pc = pc
CreatorGoes(c, pc) == creator' = [creator EXCEPT ![c].pc = pc]
CreatorFails(c) == creator' = [creator EXCEPT ![c] = NoCreate]

Present(h) == {b \in DOMAIN boxes : boxes[b].home = h /\ boxes[b].state # "gone"}
OnNetwork == {b \in DOMAIN boxes : boxes[b].state = "running"}

----------------------------------------------------------------------------
(* _create: find_by_name, and what is found there.  A desktop of this image
   that is hardened is used as it is, or started; any other is replaced. *)
FindByName(c, h) ==
  /\ CreatorAt(c, "idle")
  /\ \/ /\ Present(h) = {}
        /\ creator' = [creator EXCEPT ![c] = [pc |-> "network", home |-> h, boxes |-> 0]]
     \/ \E b \in Present(h) :
          /\ ~(boxes[b].current /\ boxes[b].state = "running")
          /\ creator' = [creator EXCEPT ![c] =
                           [pc |-> IF boxes[b].current THEN "start" ELSE "remove", home |-> h, boxes |-> b]]
  /\ UNCHANGED <<boxes, net, reboots>>

(* Mutant: by its name. *)
ReplacedByName(c) == Present(creator[c].home)

(* What is removed is the container that was found, by its id. *)
Replaced(c) == {creator[c].boxes}

RemoveReplaced(c) ==
  /\ CreatorAt(c, "remove")
  /\ boxes' = [b \in DOMAIN boxes |->
               IF b \in Replaced(c) THEN [boxes[b] EXCEPT !.state = "gone"] ELSE boxes[b]]
  /\ CreatorGoes(c, "network")
  /\ UNCHANGED <<net, reboots>>

----------------------------------------------------------------------------
(* Mutant: a network of that name is enough. *)
BridgeExists == net # "none"

(* ensure_network.  bridge_icc_off tells whether the network isolates. *)
BridgeIccOff == net = "isolated"

LookUpNetwork(c) ==
  /\ CreatorAt(c, "network")
  /\ \/ BridgeIccOff /\ CreatorGoes(c, "create")
     \/ net = "none" /\ CreatorGoes(c, "make")
     \/ net # "none" /\ ~BridgeIccOff /\ OnNetwork # {} /\ CreatorFails(c)
     \/ net # "none" /\ ~BridgeIccOff /\ OnNetwork = {} /\ CreatorGoes(c, "unmake")
  /\ UNCHANGED <<boxes, net, reboots>>

DeleteNetwork(c) ==
  /\ CreatorAt(c, "unmake")
  /\ \/ OnNetwork = {} /\ net' = "none" /\ CreatorGoes(c, "make")
     \/ OnNetwork # {} /\ CreatorFails(c) /\ UNCHANGED net
  /\ UNCHANGED <<boxes, reboots>>

(* Created, or there already (409): then looked at once more. *)
MakeNetwork(c) ==
  /\ CreatorAt(c, "make")
  /\ IF net = "none" THEN net' = "isolated" /\ CreatorGoes(c, "create")
     ELSE CreatorGoes(c, "again") /\ UNCHANGED net
  /\ UNCHANGED <<boxes, reboots>>

LookAgain(c) ==
  /\ CreatorAt(c, "again")
  /\ IF BridgeIccOff THEN CreatorGoes(c, "create") ELSE CreatorFails(c)
  /\ UNCHANGED <<boxes, net, reboots>>

----------------------------------------------------------------------------
(* The container; its name may be taken by now. *)
NewDesktop(h) == [home |-> h, current |-> TRUE, state |-> "created", net |-> "none"]

CreateContainer(c) ==
  LET h == creator[c].home
  IN /\ CreatorAt(c, "create") /\ Len(boxes) < MaxContainers
     /\ IF Present(h) = {}
        THEN /\ boxes' = Append(boxes, NewDesktop(h))
             /\ creator' = [creator EXCEPT ![c] = [pc |-> "start", home |-> h, boxes |-> Len(boxes) + 1]]
        ELSE CreatorFails(c) /\ UNCHANGED boxes
     /\ UNCHANGED <<net, reboots>>

(* A container's record once Docker runs it on network n. *)
StartedOn(n, box) == [box EXCEPT !.state = "running", !.net = n]

(* Started on the network of that name, if there is one just then. *)
StartContainer(c) ==
  LET b == creator[c].boxes
  IN /\ CreatorAt(c, "start")
     /\ \/ /\ boxes[b].state \in {"created", "exited"} /\ net # "none"
           /\ boxes' = [boxes EXCEPT ![b] = StartedOn(net, boxes[b])]
        \/ UNCHANGED boxes
     /\ CreatorFails(c)
     /\ UNCHANGED <<net, reboots>>

(* The host's other requests, and what happens to a desktop by itself. *)
StopContainer(b) ==
  /\ boxes[b].state = "running"
  /\ boxes' = [boxes EXCEPT ![b].state = "exited"]
  /\ UNCHANGED <<net, creator, reboots>>

RemoveContainer(b) ==
  /\ boxes[b].state # "gone"
  /\ boxes' = [boxes EXCEPT ![b].state = "gone"]
  /\ UNCHANGED <<net, creator, reboots>>

(* The machine reboots: no container has a restart policy. *)
Reboot ==
  /\ reboots < MaxReboots /\ reboots' = reboots + 1
  /\ boxes' = [b \in DOMAIN boxes |-> IF boxes[b].state = "running"
                                  THEN [boxes[b] EXCEPT !.state = "exited"] ELSE boxes[b]]
  /\ creator' = [c \in Creators |-> NoCreate]
  /\ UNCHANGED net

DesktopsNext ==
  \/ \E c \in Creators :
       \/ \E h \in Homes : FindByName(c, h)
       \/ RemoveReplaced(c)
       \/ LookUpNetwork(c) \/ DeleteNetwork(c) \/ MakeNetwork(c) \/ LookAgain(c)
       \/ CreateContainer(c) \/ StartContainer(c)
  \/ \E b \in DOMAIN boxes : StopContainer(b) \/ RemoveContainer(b)
  \/ Reboot

DesktopsSpec == DesktopsInit /\ [][DesktopsNext]_desktopVars

----------------------------------------------------------------------------
DesktopsTypeOK ==
  /\ \A b \in DOMAIN boxes : boxes[b] \in
       [home : Homes, current : BOOLEAN, state : {"created", "running", "exited", "gone"},
        net : {"none", "open", "isolated"}]
  /\ net \in {"none", "open", "isolated"}
  /\ \A c \in Creators : creator[c].boxes \in 0..Len(boxes)

(* A desktop of this release runs only on the network that keeps desktops
   apart, although requests run in parallel and an older release left a network
   that does not (ensure_network, bridge_icc_off). *)
IsolatedDesktops ==
  \A b \in DOMAIN boxes : boxes[b].current /\ boxes[b].state = "running" => boxes[b].net = "isolated"

(* A request that replaces an outdated desktop removes no desktop of this
   release, which a parallel request may have made under the same name. *)
ReplaceSparesCurrent ==
  [][\A c \in Creators : CreatorAt(c, "remove") =>
       \/ creator'[c] = creator[c] \/ creator'[c] = NoCreate
       \/ \A b \in DOMAIN boxes : boxes[b].current => boxes'[b].state = boxes[b].state]_desktopVars
=============================================================================
