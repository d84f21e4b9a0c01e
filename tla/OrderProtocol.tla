---------------------------- MODULE OrderProtocol ----------------------------
(***************************************************************************)
(* What order submission promises, whoever submits and wherever a run      *)
(* dies: an order reference is durable before the gateway hears of it, the *)
(* gateway hears of it at most once, and so executes it at most once.      *)
(* PaperTradingProperties states that PaperTrading implements this.        *)
(***************************************************************************)
EXTENDS Naturals

CONSTANT Refs

VARIABLES
  known,      \* references with a durable row
  sent,       \* [Refs -> how often the gateway received the order]
  executed    \* [Refs -> how often the gateway executed it]

Init == /\ known = {}
        /\ sent = [r \in Refs |-> 0]
        /\ executed = [r \in Refs |-> 0]

Record(r) == /\ r \notin known
             /\ known' = known \cup {r}
             /\ UNCHANGED <<sent, executed>>

Send(r) == /\ r \in known /\ sent[r] = 0
           /\ sent' = [sent EXCEPT ![r] = 1]
           /\ UNCHANGED <<known, executed>>

Execute(r) == /\ executed[r] < sent[r]
              /\ executed' = [executed EXCEPT ![r] = @ + 1]
              /\ UNCHANGED <<known, sent>>

Next == \E r \in Refs : Record(r) \/ Send(r) \/ Execute(r)

Spec == Init /\ [][Next]_<<known, sent, executed>>
=============================================================================
