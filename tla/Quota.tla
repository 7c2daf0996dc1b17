------------------------------- MODULE Quota -------------------------------
(***************************************************************************)
(* What the call budgets of mcpscope promise, with no mention of proxies,  *)
(* mutexes or requests: a table of counters, one per (team, window), each  *)
(* of which is taken one unit at a time, never past its capacity, and can  *)
(* only go down by being cleared altogether.                               *)
(***************************************************************************)
EXTENDS Naturals

CONSTANTS Slots,     \* the counters: one per team, window type and window start
          Unlimited, \* the slots that have no limit at all
          Capacity   \* the capacity of every other slot

VARIABLE used        \* units taken from every slot since it was last cleared

Init == used = [s \in Slots |-> 0]

\* A unit is taken from a slot that has room.
Take(s) ==
  /\ s \in Unlimited \/ used[s] < Capacity[s]
  /\ used' = [used EXCEPT ![s] = @ + 1]

\* An operator clears a slot: there is no partial refund.
Clear(s) == used' = [used EXCEPT ![s] = 0]

Next == \E s \in Slots : Take(s) \/ Clear(s)

Spec == Init /\ [][Next]_used
=============================================================================
