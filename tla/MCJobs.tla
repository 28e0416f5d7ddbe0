------------------------------- MODULE MCJobs --------------------------------
(***************************************************************************)
(* Small instances of JobTexts: two threads, a directory of two jobs files  *)
(* and another file, and the texts that the observed process reads.            *)
(***************************************************************************)
EXTENDS JobTexts, TLC

TwoThreads == 1 .. 2
MCDirectory == <<TRUE, FALSE, TRUE>>

(***************************************************************************)
(* A line is written as [text, command, eats]: its text, the command it is *)
(* meant to be, and whether its mistake is its end, so that cleanup takes  *)
(* the line after it as well.                                              *)
(***************************************************************************)
Good(text, command) == [text |-> text, command |-> command, eats |-> FALSE]
Bad(text) == [text |-> text, command |-> Invalid, eats |-> FALSE]
Cut(text) == [text |-> text, command |-> Invalid, eats |-> TRUE]

CreateOf(id)   == [op |-> "create", id |-> id, rows |-> 1, cols |-> 2]
ShowOf(id)     == [op |-> "show", id |-> id]
ListAll        == [op |-> "list"]
ReserveOf(s)   == [op |-> "reserve", id |-> 1, seats |-> s]

MCRequests ==
    {CreateOf(1), CreateOf(2), ShowOf(1), ShowOf(2), ListAll,
     ReserveOf(<<<<1, 1>>>>), ReserveOf(<<<<1, 2>>>>),
     ReserveOf(<<<<1, 1>>, <<1, 2>>>>),
     ReserveOf(<<<<1, 1>>, <<1, 1>>>>), ReserveOf(<<<<1, 1>>, <<1, 3>>>>)}

Create(id)      == Good("CREATE " \o ToString(id) \o " 1 2\n", CreateOf(id))
Show(id)        == Good("SHOW " \o ToString(id) \o "\n", ShowOf(id))
ReserveBoth     == Good("RESERVE 1 [(1,2) (1,1)]\n",
                        ReserveOf(<<<<1, 1>>, <<1, 2>>>>))
ReserveTwice    == Good("RESERVE 1 [(1,1) (1,1)]\n",
                        ReserveOf(<<<<1, 1>>, <<1, 1>>>>))
ReserveOne(col) == Good("RESERVE 1 [(1," \o ToString(col) \o ")]\n",
                        ReserveOf(<<<<1, col>>>>))
ReserveOut      == Good("RESERVE 1 [(1,1) (1,3)]\n",
                        ReserveOf(<<<<1, 1>>, <<1, 3>>>>))
List            == Good("LIST\n", ListAll)
Barrier         == Good("BARRIER\n", [op |-> "barrier"])
WaitTwo         == Good("WAIT 1 2\n", Wait(1, 2))
WaitAll         == Good("WAIT 1\n", Wait(1, Everybody))
Comment         == Good("#SHOW 1\n", Empty)

OneOfAKind ==
    {Create(1), Show(1), ReserveBoth, List, Barrier, WaitTwo, WaitAll, Comment,
     Good("\n", Empty), Good("HELP\n", [op |-> "help"]),
     Good("SHOW 000000000000001\n", ShowOf(1)),
     Bad("SHOW x1\n"), Bad("CREATE 1 2 3 4\n"), Bad("LISTS\n"), Bad("show 1\n"),
     Bad("RESERVE 1 [(1,1) (1,2) (2,1) (2,2)]\n"), Bad("RESERVE 1 (1,1)\n"),
     Cut("CREATE 1 1 1000\n"),
     Cut("CREATE 1\n"), Cut("RESERVE 1 [(1,1)\n"), Cut("C\n")}

\* The last line of a file may do without its newline.
Unended(l) == [l EXCEPT !.text = SubSeq(@, 1, Len(@) - 1)]

MayEndFile == {l \in OneOfAKind : l.text # "\n" /\ l.command.op # "reserve"}

Pairs == {<<a, b>> : a \in OneOfAKind, b \in {Show(1)}}
         \cup {<<List, Unended(a)>> : a \in MayEndFile}

\* Lines that two threads run at the same time.
Concurrent ==
    {<<Create(1), Barrier, ReserveBoth, Show(1), ReserveOne(2), List>>,
     <<Create(1), Create(2), Barrier, List, Show(1)>>,
     <<Create(1), Create(1), Barrier, ReserveTwice, ReserveOut>>,
     <<Barrier, List, Create(1), Barrier, Barrier, WaitTwo, Show(1)>>,
     <<List, Create(1), Show(1), ReserveOne(1)>>}

\* The text of a sequence of lines, and the commands it is meant to be.
Text(lines) ==
    LET Upto[n \in 0 .. Len(lines)] ==
            IF n = 0 THEN "" ELSE Upto[n - 1] \o lines[n].text
    IN  Upto[Len(lines)]

Meant(lines) ==
    LET From[n \in 1 .. Len(lines) + 2] ==
            IF n > Len(lines) THEN <<>>
            ELSE <<lines[n].command>>
                 \o From[n + IF lines[n].eats THEN 2 ELSE 1]
    IN  From[1]

\* The commands the client reads, their seats in the order of projeto1.
ClientCommands(text) ==
    LET commands == Commands(Client, text)
    IN  [h \in DOMAIN commands |-> Sorted(commands[h])]

File(lines) ==
    LET text == Text(lines)
    IN  [text |-> text, meant |-> Meant(lines),
         lines |-> Commands(Jobs, text), client |-> ClientCommands(text)]

OneJob    == <<TRUE>>
RaceFiles == {File(<<Create(1), Create(1)>>)}
HangFiles == {File(<<Create(1), Barrier, Create(1), Create(2)>>)}

MCFiles == {File(lines) : lines \in Pairs \cup Concurrent}

------------------------------------------------------------------------------
\* To projeto1 each line of a file reads as what it says, the seats of a RESERVE
\* in order, and a line with a mistake, or with more coordinates than fit, reads
\* as nothing, and costs no other line but the one after it when the mistake is
\* its end.  To the client the lines of a file that ends with a newline read as
\* ClientView says.  Of a RESERVE with exactly MaxReservation coordinates, or
\* without the newline, which both parsers refuse, this says nothing.
ReadAsWritten ==
    /\ file.lines = file.meant
    /\ Char(file.text, Len(file.text)) = "\n" =>
           file.client = [h \in DOMAIN file.meant |-> ClientView(file.meant[h])]

==============================================================================
