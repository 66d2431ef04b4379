---------------------------- MODULE CaptureStore ----------------------------
(***************************************************************************)
(* What the server keeps of one session's files: an entry per tracked      *)
(* path, reserved by a pre-edit capture, filled with what a probe of the   *)
(* file found, or marked unproven.  Operators on one record; CaptureFlow   *)
(* gives each session one and steps through the requests.                  *)
(***************************************************************************)
EXTENDS Naturals, FiniteSets

CONSTANTS
    Paths,    \* files of the project
    MaxPaths  \* tracked paths per session (500 in the server)

ASSUME PathsAssumption == MaxPaths \in Nat \ {0}

(* An entry: its reservation, the capture that last owned it, whether an   *)
(* original is acknowledged, and whether the stored bytes were read before *)
(* a tool of the session was let loose on the file.                        *)
Entries == [st : {"none", "pending", "sealed"}, id : Nat, ack : BOOLEAN, orig : BOOLEAN]
NoEntry == [st |-> "none", id |-> 0, ack |-> FALSE, orig |-> TRUE]
EmptyRecord == [p \in Paths |-> NoEntry]

Tracked(rec) == {p \in Paths : rec[p].st # "none"}
Full(rec) == Cardinality(Tracked(rec)) >= MaxPaths

Sealed(id) == [st |-> "sealed", id |-> id, ack |-> FALSE, orig |-> TRUE]
Pending(id) == [st |-> "pending", id |-> id, ack |-> FALSE, orig |-> TRUE]

UnprovenKeepsOriginal(rec, p, id) ==
    CASE rec[p].st = "none" /\ ~Full(rec) -> [rec EXCEPT ![p] = Sealed(id)]
      [] OTHER -> rec

(* Mode unproven: a new path is sealed without an original, an entry the   *)
(* same capture owns loses what it holds, any other entry stands.          *)
Unproven(rec, p, id) ==
    CASE rec[p].st = "none" /\ ~Full(rec) -> [rec EXCEPT ![p] = Sealed(id)]
      [] rec[p].st # "none" /\ rec[p].id = id -> [rec EXCEPT ![p] = Sealed(id)]
      [] OTHER -> rec

(* Mode preEdit, first pass: an acknowledged original stands, an entry     *)
(* without one is sealed so that no probe in flight may fill it, and a     *)
(* new path is reserved.                                                   *)
Reserve(rec, p, id) ==
    CASE rec[p].ack -> rec
      [] ~rec[p].ack /\ rec[p].st # "none" -> [rec EXCEPT ![p] = Sealed(rec[p].id)]
      [] rec[p].st = "none" /\ Full(rec) -> rec
      [] OTHER -> [rec EXCEPT ![p] = Pending(id)]

(* What that pass answers for the path; "probe" when it is to be read. *)
ReserveAnswer(rec, p) ==
    CASE rec[p].ack -> "known"
      [] rec[p].st = "none" /\ ~Full(rec) -> "probe"
      [] OTHER -> "unknown"

(* After the probe: only the capture that still owns the reservation, in   *)
(* time, may store what was read.                                          *)
Owns(rec, p, id) == rec[p].st = "pending" /\ rec[p].id = id

Adopt(rec, p, id, late, found, orig) ==
    CASE ~Owns(rec, p, id) -> rec
      [] Owns(rec, p, id) /\ (late \/ ~found) -> [rec EXCEPT ![p] = Sealed(id)]
      [] OTHER -> [rec EXCEPT ![p] = [st |-> "sealed", id |-> id, ack |-> TRUE, orig |-> orig]]

AdoptAnswer(rec, p, id, late, found) ==
    IF Owns(rec, p, id) /\ ~late /\ found THEN "captured" ELSE "unknown"
=============================================================================
