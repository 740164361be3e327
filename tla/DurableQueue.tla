----------------------------- MODULE DurableQueue -----------------------------
(***************************************************************************)
(* What the event pipeline promises, without channels, batches, attempts   *)
(* or tasks: an event is logged first, then accepted into a FIFO lane, and *)
(* a lane disposes of its oldest events, several at a time and with one    *)
(* fate for all of them.  A failure of the process takes everything that   *)
(* is pending, and nothing else.                                           *)
(***************************************************************************)
EXTENDS Naturals, Sequences, Functions

CONSTANTS
  Producer,   \* the save_event calls
  Lane        \* the batch writers

VARIABLES
  logged,     \* calls whose message the log holds
  pending,    \* per lane: accepted calls without a fate, oldest first
  fate        \* how a call was disposed of

vars == <<logged, pending, fate>>

Init ==
  /\ logged = {}
  /\ pending = [l \in Lane |-> <<>>]
  /\ fate = [c \in Producer |-> "none"]

Log(c) ==
  /\ logged' = logged \cup {c}
  /\ UNCHANGED <<pending, fate>>

\* Only a logged call is accepted, and only once.
Accept(c, l) ==
  /\ c \in logged /\ fate[c] = "none"
  /\ \A k \in Lane : c \notin Range(pending[k])
  /\ pending' = [pending EXCEPT ![l] = Append(@, c)]
  /\ UNCHANGED <<logged, fate>>

\* The n oldest events of a lane leave it together.
Dispose(l, n, f) ==
  /\ pending' = [pending EXCEPT ![l] = SubSeq(@, n + 1, Len(@))]
  /\ fate' = [c \in Producer |->
                IF c \in Range(SubSeq(pending[l], 1, n)) THEN f ELSE fate[c]]
  /\ UNCHANGED logged

Fail ==
  /\ pending' = [l \in Lane |-> <<>>]
  /\ fate' = [c \in Producer |->
                IF \E l \in Lane : c \in Range(pending[l]) THEN "crashed" ELSE fate[c]]
  /\ UNCHANGED logged

Next ==
  \/ \E c \in Producer : Log(c) \/ \E l \in Lane : Accept(c, l)
  \/ \E l \in Lane : \E n \in 1..Len(pending[l]), f \in {"stored", "dead", "lost", "dropped"} :
       Dispose(l, n, f)
  \/ Fail

Spec == Init /\ [][Next]_vars
=============================================================================
