------------------------------ MODULE JobTexts -------------------------------
(***************************************************************************)
(* Jobs files as texts: the lines that the threads of projeto1 run are     *)
(* what its parser makes of a text, and the client of projeto2 may be      *)
(* given the same text.                                                    *)
(***************************************************************************)
EXTENDS JobPool, Parser

\* A file has a text, and the lines that initialize_lists reads from it.
ASSUME TextsAssumption ==
    \A f \in Files : IsText(f.text) /\ f.lines = Commands(Jobs, f.text)

------------------------------------------------------------------------------
\* What the client makes of a command of projeto1: it does not know BARRIER,
\* nor the thread of a WAIT.
ClientView(c) ==
    CASE c.op = "barrier" -> Invalid
      [] c.op = "wait"    -> Wait(c.delay, Everybody)
      [] OTHER            -> c

\* Two readings of the same command, but for the order of the seats, that go on
\* at the same place or at the end of the text.  A text that does not end with a
\* newline is the exception: its last number may be any to the client, or none.
SameReading(text, jobs, client) ==
    LET last == jobs.at > Len(text) /\ client.at > Len(text)
    IN  /\ jobs.at = client.at \/ last
        /\ \/ Sorted(client.command) = ClientView(jobs.command)
           \/ /\ last
              /\ Char(text, Len(text)) # "\n"
              /\ \/ Invalid \in {jobs.command, client.command}
                 \/ jobs.command.op = client.command.op

\* Both programs read the same from position p on.
ReadAlike(text, p) ==
    SameReading(text, Command(Jobs, text, p), Command(Client, text, p))

\* A BARRIER or a WAIT that projeto1 refuses may end elsewhere for the client,
\* which looks at less of it.
Refused(text, p) ==
    Command(Jobs, text, p).command = Invalid /\ Char(text, p) \in {"B", "W"}

\* The client reads the jobs file of a process as its threads will, wherever in
\* the text it begins, after any mistake as well.
ParsersAgree ==
    (\A t \in Threads : life[t] = "none") =>
        \A p \in 1 .. Len(file.text) :
            Refused(file.text, p) \/ ReadAlike(file.text, p)

==============================================================================
