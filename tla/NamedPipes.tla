----------------------------- MODULE NamedPipes ------------------------------
(***************************************************************************)
(* The kernel's named pipes, as far as the programs use them: who has a    *)
(* pipe open for what, which blocked open has met a partner, and the       *)
(* messages written and not yet read.  This models no code of the          *)
(* repository; it follows fifo(7) and pipe(7).                             *)
(***************************************************************************)
EXTENDS Integers, Sequences

CONSTANT Pipes

VARIABLES
    fifos,    \* the pipes that exist
    readers,  \* readers[p]: the processes that opened p for reading
    writers,  \* writers[p]: the processes that opened p for writing
    met,      \* <<x, p>>: the open of p by x has met a partner
    content   \* content[p]: the messages in p

pipeVars == <<fifos, readers, writers, met, content>>

PipesInit ==
    /\ fifos = {}
    /\ readers = [p \in Pipes |-> {}]
    /\ writers = [p \in Pipes |-> {}]
    /\ met = {}
    /\ content = [p \in Pipes |-> <<>>]

\* A process counts as a reader or writer as soon as it waits for a partner,
\* and a partner that comes and goes meanwhile has released it all the same.
Meet(x, p, partners) ==
    met' = IF partners = {} THEN met
           ELSE met \cup {<<y, p>> : y \in partners \cup {x}}

OpenRead(x, p) ==
    /\ p \in fifos
    /\ readers' = [readers EXCEPT ![p] = @ \cup {x}]
    /\ Meet(x, p, writers[p])
    /\ UNCHANGED <<fifos, writers, content>>

OpenWrite(x, p) ==
    /\ p \in fifos
    /\ writers' = [writers EXCEPT ![p] = @ \cup {x}]
    /\ Meet(x, p, readers[p])
    /\ UNCHANGED <<fifos, readers, content>>

Opened(x, p) == <<x, p>> \in met

Broken(p)    == readers[p] = {}                           \* write: SIGPIPE
AtEnd(p)     == content[p] = <<>> /\ writers[p] = {}      \* read: 0 bytes

Write(p, m) == /\ ~ Broken(p)
               /\ content' = [content EXCEPT ![p] = Append(@, m)]
               /\ UNCHANGED <<fifos, readers, writers, met>>

Read(p) == /\ content[p] # <<>>
           /\ content' = [content EXCEPT ![p] = Tail(@)]
           /\ UNCHANGED <<fifos, readers, writers, met>>

\* The processes of P close what they have open.
CloseAll(P) ==
    /\ readers' = [p \in Pipes |-> readers[p] \ P]
    /\ writers' = [p \in Pipes |-> writers[p] \ P]
    /\ UNCHANGED <<fifos, met>>

==============================================================================
