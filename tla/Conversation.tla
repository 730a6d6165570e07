---------------------------- MODULE Conversation ----------------------------
(***************************************************************************)
(* What a conversation promises: for each session a memory of the latest   *)
(* exchanges, each a question with the answer given to it.  A memory       *)
(* changes only by one whole exchange at its end, or by being forgotten.   *)
(***************************************************************************)
EXTENDS Naturals, Sequences

CONSTANTS Sessions, Exchanges, MaxExchanges
VARIABLE memory

Latest(exchanges) ==
  IF Len(exchanges) > MaxExchanges THEN Tail(exchanges) ELSE exchanges

Init == memory = [s \in Sessions |-> <<>>]

\* A question of session s has been answered.
Remember(s, exchange) == memory' = [memory EXCEPT ![s] = Latest(Append(@, exchange))]

\* Sessions expire, are cleared or are removed.
Forget == \E gone \in SUBSET Sessions :
  memory' = [s \in Sessions |-> IF s \in gone THEN <<>> ELSE memory[s]]

Next == Forget \/ \E s \in Sessions, exchange \in Exchanges : Remember(s, exchange)

Spec == Init /\ [][Next]_memory
=============================================================================
