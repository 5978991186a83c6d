------------------------------- MODULE Exchange -------------------------------
(***************************************************************************)
(* What a client of theframework may rely on, whatever buffers, receives   *)
(* and other connections are behind it (_handle_connection in              *)
(* src/theframework/server.py): its requests are taken one at a time and   *)
(* in order, each reaches the handler at most once and only when it is fit *)
(* for it, the next one after the answer to it was sent; after a refusal,  *)
(* a 500 or a last request nothing more is taken or answered.              *)
(* HttpRead implements this specification.                                 *)
(***************************************************************************)
EXTENDS Naturals, Sequences

CONSTANTS
  Clients,  \* the clients, each of which connects once
  Scripts,  \* what a client may ask for: "requests", a sequence of requests
  Fit,      \* the requests that may reach the handler
  None      \* the script of a client that has not connected

\* What has become of each client.  "turn" says whose turn it is: "nobody"'s before
\* it connects, the "client"'s to send a request, the "handler"'s, the connection's
\* ("sending" an answer), nobody's any more ("over").
VARIABLE exchange

Init ==
  exchange = [k \in Clients |->
    [script |-> None, taken |-> 0, answers |-> <<>>, turn |-> "nobody"]]

Turn(k, turn) == exchange[k].turn = turn

Connect(k) ==
  /\ Turn(k, "nobody")
  /\ \E script \in Scripts :
       exchange' = [exchange EXCEPT ![k] =
         [script |-> script, taken |-> 0, answers |-> <<>>, turn |-> "client"]]

\* The exchange with k goes on, now that "taken" requests are taken and "answers" given.
Continues(k, taken, answers, turn) ==
  exchange' = [exchange EXCEPT ![k] =
    [script |-> exchange[k].script, taken |-> taken, answers |-> answers, turn |-> turn]]

\* The next request is taken and given to the handler.
Take(k) ==
  LET x == exchange[k] IN
  /\ Turn(k, "client")
  /\ x.taken < Len(x.script.requests)
  /\ x.script.requests[x.taken + 1] \in Fit
  /\ Continues(k, x.taken + 1, x.answers, "handler")

\* The next request, or what there is of it, is refused.
Refuse(k) ==
  LET x == exchange[k] IN
  /\ Turn(k, "client")
  /\ \E status \in {400, 413, 431} :
       Continues(k, x.taken, Append(x.answers, status), "over")

Respond(k) ==
  LET x == exchange[k] IN
  /\ Turn(k, "handler")
  /\ Continues(k, x.taken, Append(x.answers, 200), "sending")

\* The handler raises.
Fail(k) ==
  LET x == exchange[k] IN
  /\ Turn(k, "handler")
  /\ Continues(k, x.taken, Append(x.answers, 500), "over")

\* The answer is sent, and the request asked to keep the connection.
KeepAlive(k) ==
  LET x == exchange[k] IN
  /\ Turn(k, "sending")
  /\ x.script.requests[x.taken].keep
  /\ Continues(k, x.taken, x.answers, "client")

\* The connection is given up: the client closes it, an answer cannot be sent, it
\* was the last one, or there is no memory.
HangUp(k) ==
  LET x == exchange[k] IN
  /\ x.turn \in {"client", "handler", "sending"}
  /\ Continues(k, x.taken, x.answers, "over")

Next ==
  \E k \in Clients :
    \/ Connect(k) \/ Take(k) \/ Refuse(k) \/ Respond(k) \/ Fail(k)
    \/ KeepAlive(k) \/ HangUp(k)

Spec == Init /\ [][Next]_exchange
===============================================================================
