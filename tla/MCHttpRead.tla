------------------------------ MODULE MCHttpRead ------------------------------
(* HttpRead in units of INLINE_BUF_SIZE: a receive is two units, the size     *)
(* classes double, as in the source; the limits are two units each.  The      *)
(* clients send what exercises the buffer: single and pipelined requests,     *)
(* requests at and over each limit, faults, and requests that end early.      *)
EXTENDS HttpRead, TLC

MCSizes == {1, 2, 4, 8}

R(head, body) == [head |-> head, body |-> body, keep |-> TRUE, flaw |-> "none"]
Last(r) == [r EXCEPT !.keep = FALSE]
Flawed(r, flaw) == [r EXCEPT !.flaw = flaw]
Send(requests, bytes) ==
  LET end[i \in DOMAIN requests] ==
        (IF i = 1 THEN 0 ELSE end[i - 1]) + Total(requests[i])
  IN [requests |-> requests, bytes |-> bytes,
      ends |-> [i \in 1..Len(requests) |-> end[i]]]

MCScripts ==
  { Send(<<R(1, 0), R(1, 1), R(2, 0)>>, 5),
    Send(<<R(1, 0), R(1, 0), R(2, 1)>>, 5),
    Send(<<R(1, 2), R(2, 2)>>, 7),
    Send(<<R(2, 2), Last(R(1, 0))>>, 5),
    Send(<<R(1, 0), R(2, 2)>>, 4),
    Send(<<R(3, 0)>>, 3),
    Send(<<R(1, 0), R(1, 3)>>, 5),
    Send(<<R(1, 0), Flawed(R(1, 1), "path")>>, 3),
    Send(<<Flawed(R(2, 0), "syntax")>>, 2),
    Send(<<Flawed(R(2, 0), "header")>>, 2) }

MCSymmetry == Permutations(Conns) \cup Permutations(Clients) \cup Permutations(Buffers)
===============================================================================
