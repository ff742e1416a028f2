------------------------------- MODULE EventLog -------------------------------
(***************************************************************************)
(* What the event store promises its callers: one append-only log per      *)
(* aggregate.  An append is atomic, adds one event at the end of one log   *)
(* (its position is its version) and gives it a fresh id that is larger    *)
(* than those already in that log.  Ids of different logs are not ordered: *)
(* a smaller id may appear in one log after a larger one in another.       *)
(***************************************************************************)
EXTENDS Naturals, Sequences

CONSTANTS
  Coins,   \* aggregate ids
  Ids      \* ids an event can be given

VARIABLE log   \* the ids of each aggregate's events, in version order

Used(id) == \E c \in Coins : \E v \in DOMAIN log[c] : log[c][v] = id

Init == log = [c \in Coins |-> <<>>]

AppendEvent(c, id) ==
  /\ ~Used(id)
  /\ \A v \in DOMAIN log[c] : log[c][v] < id
  /\ log' = [log EXCEPT ![c] = Append(@, id)]

Next == \E c \in Coins, id \in Ids : AppendEvent(c, id)

Spec == Init /\ [][Next]_log
=============================================================================
