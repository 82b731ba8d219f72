---------------------------- MODULE HttpExchange ----------------------------
(***************************************************************************)
(* What a connection promises to a client that waits for each answer       *)
(* before it sends the next request: every request is answered, in order   *)
(* and once, with what the file system and the script stand for, and the   *)
(* connection is not closed on a request that waits for its answer.        *)
(***************************************************************************)
EXTENDS Naturals, Sequences

VARIABLES
  promise,    \* the answers that are right for each request
  asked,      \* the requests sent
  answered,   \* the answers received
  open,       \* the connection can still carry answers
  left        \* the client has shut down

vars == <<promise, asked, answered, open, left>>

Init ==
  /\ asked = <<>>
  /\ answered = <<>>
  /\ open = TRUE
  /\ left = FALSE

Waiting == Len(answered) < Len(asked)

Ask ==
  /\ open /\ ~left /\ ~Waiting
  /\ \E r \in DOMAIN promise : asked' = Append(asked, r)
  /\ UNCHANGED <<promise, answered, open, left>>

\* The connection may be closed with the answer.
Answer ==
  /\ open /\ ~left /\ Waiting
  /\ \E a \in promise[asked[Len(answered) + 1]] : answered' = Append(answered, a)
  /\ open' \in {TRUE, FALSE}
  /\ UNCHANGED <<promise, asked, left>>

Close ==
  /\ open
  /\ ~Waiting \/ left
  /\ open' = FALSE
  /\ UNCHANGED <<promise, asked, answered, left>>

Leave ==
  /\ ~left
  /\ left' = TRUE
  /\ UNCHANGED <<promise, asked, answered, open>>

Next == Ask \/ Answer \/ Close \/ Leave

Spec == Init /\ [][Next]_vars /\ WF_vars(Answer)
=============================================================================
