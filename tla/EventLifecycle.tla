--------------------------- MODULE EventLifecycle ---------------------------
(***************************************************************************)
(* What a client that polls a program's active controls may rely on: an    *)
(* event is offered at most once, it is first offered inside its interval, *)
(* it stays on offer until its interval is over, and then it is withdrawn. *)
(* Nothing is said of lists, threads or how often the clock is read, nor   *)
(* of a server whose clock thread ends: it takes no more steps here.       *)
(***************************************************************************)
EXTENDS Naturals

CONSTANTS Event, NoInterval, Horizon

VARIABLES now, interval, offered, ended

vars == <<now, interval, offered, ended>>

Begins(e) == interval[e].start
Ends(e) == interval[e].start + interval[e].duration

Init == now = 0 /\ offered = {} /\ ended = {} /\ interval = [e \in Event |-> NoInterval]

Advance ==
  /\ now' \in now .. Horizon
  /\ UNCHANGED <<interval, offered, ended>>

\* Only an event nobody has seen yet can be given an interval.
Announce(e) ==
  /\ interval[e] = NoInterval
  /\ e \notin offered \cup ended
  /\ interval' = [interval EXCEPT ![e] = interval'[e]]
  /\ interval'[e] \in [start : Nat, duration : Nat]
  /\ UNCHANGED <<now, offered, ended>>

Offer(e) ==
  /\ interval[e] # NoInterval
  /\ e \notin offered \cup ended
  /\ Begins(e) < now /\ now < Ends(e)
  /\ offered' = offered \cup {e}
  /\ UNCHANGED <<now, interval, ended>>

Withdraw(e) ==
  /\ e \in offered
  /\ now > Ends(e)
  /\ offered' = offered \ {e}
  /\ ended' = ended \cup {e}
  /\ UNCHANGED <<now, interval>>

Next == Advance \/ \E e \in Event : Announce(e) \/ Offer(e) \/ Withdraw(e)

Spec == Init /\ [][Next]_vars
=============================================================================
