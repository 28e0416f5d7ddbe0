--------------------------- MODULE SessionService ----------------------------
(***************************************************************************)
(* What the server promises to clients that ask for a session: they are    *)
(* served in the order in which they asked, each by one worker on its own  *)
(* pair of pipes, and a worker serves one client at a time.                *)
(***************************************************************************)
EXTENDS Sequences

CONSTANTS Clients, Workers, None

VARIABLES backlog,  \* the clients that asked and were not yet served, in order
          serving   \* serving[w]: the client that worker w serves, or None

vars == <<backlog, serving>>

Init == /\ backlog = <<>>
        /\ serving = [w \in Workers |-> None]

Ask(c) == /\ \A i \in DOMAIN backlog : backlog[i] # c
          /\ \A w \in Workers : serving[w] # c
          /\ backlog' = Append(backlog, c)
          /\ UNCHANGED serving

Begin(w) == /\ serving[w] = None
            /\ backlog # <<>>
            /\ serving' = [serving EXCEPT ![w] = Head(backlog)]
            /\ backlog' = Tail(backlog)

End(w) == /\ serving[w] # None
          /\ serving' = [serving EXCEPT ![w] = None]
          /\ UNCHANGED backlog

Next == \/ \E c \in Clients : Ask(c)
        \/ \E w \in Workers : Begin(w) \/ End(w)

Spec == Init /\ [][Next]_vars

==============================================================================
