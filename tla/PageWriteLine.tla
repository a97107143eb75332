--------------------------- MODULE PageWriteLine ---------------------------
(***************************************************************************)
(* What the write queue promises its callers, with the chain of promises   *)
(* and the revisions left out: the requests of a page stand in one line,   *)
(* only the first that has not returned may change the page's file, and    *)
(* each of them returns.                                                   *)
(***************************************************************************)
EXTENDS Naturals, Sequences

CONSTANTS Calls, Pages, Roots, Foreign

VARIABLES
  line,    \* per page: every request ever queued, in order
  served,  \* per page: how many of them have returned
  disk     \* durable content per root and page

vars == <<line, served, disk>>

Init ==
  /\ line = [k \in Pages |-> <<>>]
  /\ served = [k \in Pages |-> 0]
  /\ disk \in [Roots -> [Pages -> Foreign]]

Submit(c, k) ==
  /\ \A p \in Pages : \A i \in 1..Len(line[p]) : line[p][i] # c
  /\ line' = [line EXCEPT ![k] = Append(@, c)]
  /\ UNCHANGED <<served, disk>>

\* The request whose turn it is.
First(k) == line[k][served[k] + 1]

Land(k) == \E w \in Roots : disk' = [disk EXCEPT ![w][k] = First(k)]

Return(k) == served' = [served EXCEPT ![k] = @ + 1]

Serve(k) ==
  /\ served[k] < Len(line[k])
  /\ Land(k) \/ UNCHANGED disk
  /\ Return(k) \/ UNCHANGED served
  /\ UNCHANGED line

Outside(w, k, x) ==
  /\ disk' = [disk EXCEPT ![w][k] = x]
  /\ UNCHANGED <<line, served>>

Next ==
  \/ \E c \in Calls, k \in Pages : Submit(c, k)
  \/ \E k \in Pages : Serve(k)
  \/ \E w \in Roots, k \in Pages, x \in Foreign : Outside(w, k, x)

Safety == Init /\ [][Next]_vars

Spec ==
  /\ Safety
  /\ \A k \in Pages : WF_vars(Serve(k) /\ Return(k))
=============================================================================
