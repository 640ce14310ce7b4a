-------------------------- MODULE ListenerContract --------------------------
(***************************************************************************)
(* What an event system promises about listeners, whatever it walks: only  *)
(* a listener that is registered at that moment is called, one registered  *)
(* to run once is unregistered by being called, and what was unregistered  *)
(* never comes back (a new registration is a new listener).                *)
(* Calls nest: a listener that dispatches is called further down.          *)
(***************************************************************************)
EXTENDS Naturals, Sequences

CONSTANT Listener

VARIABLES registered,    \* listeners that may be called
          former,        \* listeners that were registered
          once,          \* of both, those registered to run once
          calling        \* the listeners being called, outermost first

contract == <<registered, former, once, calling>>

ContractInit ==
  /\ registered = {} /\ former = {} /\ once = {}
  /\ calling = <<>>

Register(l, o) ==
  /\ l \notin registered \cup former
  /\ registered' = registered \cup {l}
  /\ once' = IF o THEN once \cup {l} ELSE once
  /\ UNCHANGED <<former, calling>>

Unregister(S) ==
  /\ S \in SUBSET registered
  /\ registered' = registered \ S
  /\ former' = former \cup S
  /\ UNCHANGED <<once, calling>>

Call(l) ==
  /\ l \in registered
  /\ calling' = Append(calling, l)
  /\ registered' = registered \ (once \cap {l})
  /\ former' = former \cup (once \cap {l})
  /\ UNCHANGED once

Return ==
  /\ calling # <<>>
  /\ calling' = SubSeq(calling, 1, Len(calling) - 1)
  /\ UNCHANGED <<registered, former, once>>

ContractNext ==
  \/ \E l \in Listener, o \in BOOLEAN : Register(l, o)
  \/ \E S \in SUBSET registered : Unregister(S)
  \/ \E l \in Listener : Call(l)
  \/ Return

ContractSpec == ContractInit /\ [][ContractNext]_contract

=============================================================================
