-------------------------- MODULE SettingsRegister --------------------------
(***************************************************************************)
(* What the settings transaction promises, without its steps: one durable  *)
(* value that changes in a single indivisible commit, whose change events  *)
(* are then sent once each and in order; a process death loses the events  *)
(* still owed but never the value.  Restoring a backup is weaker: while it *)
(* runs the value is on trial, and a death in that window, or a way back   *)
(* that fails, keeps whatever the trial had reached, possibly nothing, and *)
(* announces nothing.                                                      *)
(***************************************************************************)
EXTENDS Sequences

CONSTANTS Callers, Values, Events, Fresh, Absent, NoTrial

VARIABLES
    value,    \* the durable settings, or Absent inside or after a trial
    trial,    \* what a running restore would go back to, or NoTrial
    owed      \* the events each caller has still to send

rvars == <<value, trial, owed>>

NothingOwed == [c \in Callers |-> <<>>]

RInit == value = Fresh /\ trial = NoTrial /\ owed = NothingOwed

Commit(c) ==
    /\ trial = NoTrial
    /\ owed[c] = <<>>
    /\ \E v \in Values, es \in Events : value' = v /\ owed' = [owed EXCEPT ![c] = es]
    /\ UNCHANGED trial

Send(c) ==
    /\ owed[c] # <<>>
    /\ owed' = [owed EXCEPT ![c] = Tail(@)]
    /\ UNCHANGED <<value, trial>>

BeginTrial ==
    /\ trial = NoTrial
    /\ trial' = value
    /\ value' = Absent
    /\ UNCHANGED owed

FillTrial ==
    /\ trial # NoTrial
    /\ value' \in Values
    /\ UNCHANGED <<trial, owed>>

KeepTrial(c) ==
    /\ trial # NoTrial
    /\ value # Absent
    /\ owed[c] = <<>>
    /\ trial' = NoTrial
    /\ \E es \in Events : owed' = [owed EXCEPT ![c] = es]
    /\ UNCHANGED value

UndoTrial ==
    /\ trial # NoTrial
    /\ value' \in {trial, value, Absent}
    /\ trial' = NoTrial
    /\ UNCHANGED owed

Die == trial' = NoTrial /\ owed' = NothingOwed /\ UNCHANGED value

Recover == trial = NoTrial /\ value = Absent /\ value' = Fresh /\ UNCHANGED <<trial, owed>>

RNext ==
    \/ \E c \in Callers : Commit(c) \/ Send(c) \/ KeepTrial(c)
    \/ BeginTrial \/ FillTrial \/ UndoTrial \/ Die \/ Recover

RSpec == RInit /\ [][RNext]_rvars
=============================================================================
