------------------------------- MODULE Pushes -------------------------------
(***************************************************************************)
(* How devices hear of changes.  A request writes a new version of the     *)
(* schedule, reads the version and starts a goroutine, which lists the     *)
(* devices of a group, or of all groups in turn, and sends them the        *)
(* version one by one.  Goroutines overtake each other; a send can fail;   *)
(* the goroutine has a timeout, after which every send fails.              *)
(***************************************************************************)
EXTENDS Values, Integers

CONSTANTS
  Phones,        \* devices, numbered in the order of their ids
  Classes,       \* groups, numbered
  Senders,       \* goroutines at a time
  MaxVersion,    \* bound: changes of the schedule
  MaxMoves       \* bound: registrations

ASSUME PushConstants == None \notin Classes

VARIABLES
  classOf,       \* device_tokens: the group of a device, or None
  version,       \* of the schedule
  saved,         \* changes whose goroutine is not started yet
  sender,        \* [pc, version, classes, phones, late]
  heard,         \* the versions that a device was told of
  moves,
  due            \* history: the version that a device has to hear of, or 0

pushVars == <<classOf, version, saved, sender, heard, moves, due>>

Round(pc, v, classes, phones, late) ==
  [pc |-> pc, version |-> v, classes |-> classes, phones |-> phones, late |-> late]
Resting == Round("rest", 0, {}, {}, FALSE)

PushInit ==
  /\ classOf \in [Phones -> Classes \cup {None}]
  /\ version = 0
  /\ saved = {}
  /\ sender = [s \in Senders |-> Resting]
  /\ heard = [d \in Phones |-> {}]
  /\ moves = 0
  /\ due = [d \in Phones |-> 0]

FirstById(S) == {x \in S : \A y \in S : x <= y}

(* A change of one group, or of all: the version is written.               *)
SaveChange(gs) ==
  /\ version < MaxVersion
  /\ version' = version + 1
  /\ saved' = saved \cup {[version |-> version + 1, classes |-> gs]}
  /\ due' = [d \in Phones |-> IF classOf[d] \in gs THEN version + 1 ELSE due[d]]
  /\ UNCHANGED <<classOf, sender, heard, moves>>

(* The version that is read can be newer than the one that was written.    *)
NotifyScheduleUpdatedAsync(s, change) ==
  /\ sender[s] = Resting
  /\ sender' = [sender EXCEPT ![s] =
       IF change.classes = Classes THEN Round("groups", version, {}, {}, FALSE)
       ELSE Round("devices", version, change.classes, {}, FALSE)]
  /\ saved' = saved \ {change}
  /\ UNCHANGED <<classOf, version, heard, moves, due>>

ListSubscribedGroupIDs(s) ==
  /\ sender[s].pc = "groups"
  /\ sender' = [sender EXCEPT ![s] =
       Round("devices", sender[s].version, {classOf[d] : d \in Phones} \ {None}, {}, sender[s].late)]
  /\ UNCHANGED <<classOf, version, saved, heard, moves, due>>

(* The devices of the next group are listed.                               *)
ListDeviceTokensByGroup(s, g) ==
  /\ sender[s].phones = {}
  /\ sender' = [sender EXCEPT ![s] =
       Round("devices", sender[s].version, sender[s].classes \ {g}, {d \in Phones : classOf[d] = g},
             sender[s].late)]
  /\ UNCHANGED <<classOf, version, saved, heard, moves, due>>

(* What device d has still to hear of when version v cannot be sent to it. *)
Owed(d, v) == IF due[d] <= v THEN 0 ELSE due[d]

(* A list that fails: nobody in the group is told, and the next group is   *)
(* its turn; when it was the list of the groups, nobody at all.            *)
Unlisted(s, gs) ==
  /\ sender[s].phones = {}
  /\ due' = [d \in Phones |-> IF classOf[d] \in gs THEN Owed(d, sender[s].version) ELSE due[d]]
  /\ sender' = [sender EXCEPT ![s] =
       IF sender[s].pc = "groups" THEN Resting
       ELSE Round("devices", sender[s].version, sender[s].classes \ gs, {}, sender[s].late)]
  /\ UNCHANGED <<classOf, version, saved, heard, moves>>

Finish(s) ==
  /\ sender[s].pc = "devices" /\ sender[s].classes = {} /\ sender[s].phones = {}
  /\ sender' = [sender EXCEPT ![s] = Resting]
  /\ UNCHANGED <<classOf, version, saved, heard, moves, due>>

(* A send that fails is logged, and the next device gets its own.          *)
\* Mutant: the devices after it are given up.
FailedForAll(phones, d) == {}
Failed(phones, d) == phones \ {d}

Rest(s, phones) ==
  Round("devices", sender[s].version, sender[s].classes, phones, sender[s].late)

Send(s, d) ==
  /\ ~sender[s].late
  /\ heard' = [heard EXCEPT ![d] = @ \cup {sender[s].version}]
  /\ sender' = [sender EXCEPT ![s] = Rest(s, sender[s].phones \ {d})]
  /\ UNCHANGED <<classOf, version, saved, moves, due>>

SendFails(s, d) ==
  /\ sender' = [sender EXCEPT ![s] = Rest(s, Failed(sender[s].phones, d))]
  /\ due' = [due EXCEPT ![d] = Owed(d, sender[s].version)]
  /\ UNCHANGED <<classOf, version, saved, heard, moves>>

TimeIsUp(s) ==
  /\ sender[s] # Resting /\ ~sender[s].late
  /\ sender' = [sender EXCEPT ![s] =
       Round(sender[s].pc, sender[s].version, sender[s].classes, sender[s].phones, TRUE)]
  /\ UNCHANGED <<classOf, version, saved, heard, moves, due>>

(* The process stops; goroutines and what waits for one are lost.          *)
Restart ==
  /\ saved # {} \/ \E s \in Senders : sender[s] # Resting
  /\ saved' = {}
  /\ sender' = [s \in Senders |-> Resting]
  /\ due' = [d \in Phones |-> 0]
  /\ UNCHANGED <<classOf, version, heard, moves>>

(* A device belongs to one group, the last that it was registered for.     *)
Register(d, g) ==
  /\ moves < MaxMoves /\ moves' = moves + 1
  /\ classOf' = [classOf EXCEPT ![d] = g]
  /\ due' = [due EXCEPT ![d] = 0]
  /\ UNCHANGED <<version, saved, sender, heard>>

PushNext ==
  \/ \E gs \in {{g} : g \in Classes} \cup {Classes} : SaveChange(gs)
  \/ \E s \in Senders :
       \/ \E change \in saved : NotifyScheduleUpdatedAsync(s, change)
       \/ ListSubscribedGroupIDs(s) \/ Finish(s) \/ TimeIsUp(s)
       \/ sender[s].pc = "groups" /\ Unlisted(s, Classes)
       \/ \E g \in FirstById(sender[s].classes) : ListDeviceTokensByGroup(s, g) \/ Unlisted(s, {g})
       \/ \E d \in FirstById(sender[s].phones) : Send(s, d) \/ SendFails(s, d)
  \/ Restart
  \/ \E d \in Phones, g \in Classes : Register(d, g)

PushSpec == PushInit /\ [][PushNext]_pushVars

-----------------------------------------------------------------------------
(* When nothing is under way, a device that has stayed in its group has    *)
(* heard of the group's last change or of a later version, whatever order  *)
(* goroutines and sends came in and whichever other devices they failed    *)
(* for, unless the send of such a version to this device, or the list that *)
(* it is on, failed or the process stopped.                                *)
NewestHeard ==
  saved = {} /\ (\A s \in Senders : sender[s] = Resting) =>
    \A d \in Phones : due[d] # 0 => \E v \in heard[d] : v >= due[d]
=============================================================================
