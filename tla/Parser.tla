------------------------------- MODULE Parser --------------------------------
(***************************************************************************)
(* The command parsers: what a text becomes when it is read one command at *)
(* a time.  Source: projeto1/parser.c, projeto2/client/parser.c and        *)
(* parse_uint of projeto2/common/io.c.                                     *)
(*                                                                         *)
(* A text is a string, p is the position of the next character that read() *)
(* returns, and Nul is the '\0' that the end of the file leaves in ch.     *)
(* A reading is a record [command, at]: what was read, and where the next  *)
(* reading goes on.                                                        *)
(***************************************************************************)
EXTENDS Integers, Sequences

CONSTANTS MaxUint,         \* UINT_MAX
          MaxReservation,  \* MAX_RESERVATION_SIZE
          NumberBuffer,    \* the size of buf in read_uint and parse_uint
          AnyNumber        \* a number made of bytes nobody wrote

ASSUME ParserAssumption ==
    /\ {MaxUint, MaxReservation, AnyNumber} \subseteq Nat
    /\ NumberBuffer \in Nat \ {0}

Numerals == <<"0", "1", "2", "3", "4", "5", "6", "7", "8", "9">>
IsDigit(c) == \E d \in 0 .. 9 : Numerals[d + 1] = c
Value(c)   == CHOOSE d \in 0 .. 9 : Numerals[d + 1] = c

Nul == "nul"
LineEnd == {"\n", Nul}

Char(text, p) == IF p <= Len(text) THEN SubSeq(text, p, p) ELSE Nul

\* The digits of a number and the character behind them fit into buf.
NumbersFit(text) ==
    \A p \in 1 .. Len(text) :
        \E q \in p .. p + NumberBuffer - 1 : ~IsDigit(Char(text, q))

\* A text has an end, no '\0' before it, and numbers that can be read.
IsText(text) ==
    /\ Len(text) \in Nat
    /\ \A p \in 1 .. Len(text) : Char(text, p) # Nul
    /\ NumbersFit(text)

Reading(command, at) == [command |-> command, at |-> at]

Invalid == [op |-> "invalid"]
Empty   == [op |-> "empty"]

\* Mutated form: the rest of the line is read as the next command.
CleanupKeepsLine(text, p) == p

\* cleanup reads up to the next newline: if the character that was read last
\* is a newline itself, that is the end of the NEXT line.
Cleanup(text, p) ==
    LET newlines == {q \in p .. Len(text) : Char(text, q) = "\n"}
    IN  IF newlines = {} THEN Len(text) + 1
        ELSE 1 + CHOOSE q \in newlines : \A r \in newlines : q <= r

------------------------------------------------------------------------------
(***************************************************************************)
(* Numbers: read_uint of projeto1, parse_uint of projeto2.  No digit at    *)
(* all reads as 0.  Where a number does not fit into buf, both write       *)
(* behind it: DigitsEnd is then no particular place.  parse_uint does not  *)
(* end the digits with a '\0' when the file ends, so that the number goes  *)
(* on with what the stack holds.                                           *)
(***************************************************************************)
DigitsEnd(text, p) ==
    CHOOSE q \in p .. p + NumberBuffer - 1 :
        /\ ~IsDigit(Char(text, q))
        /\ \A r \in p .. q - 1 : IsDigit(Char(text, r))

\* The value of the digits from p to end - 1.
Valued(text, p, end) ==
    LET Upto[q \in p .. end] ==
            IF q = p THEN 0 ELSE 10 * Upto[q - 1] + Value(Char(text, q - 1))
    IN  Upto[end]

ReadUint(text, p) ==
    LET end   == DigitsEnd(text, p)
        value == Valued(text, p, end)
    IN  [ok |-> value <= MaxUint, value |-> value,
         next |-> Char(text, end), at |-> end + 1]

Unterminated(uint) ==
    IF uint.next = Nul
    THEN [uint EXCEPT !.ok = AnyNumber <= MaxUint, !.value = AnyNumber]
    ELSE uint

ParseUint(text, p) == Unterminated(ReadUint(text, p))

\* The two programs that have a parser.
Jobs   == "projeto1"
Client == "projeto2/client"

Uint(program, text, p) ==
    IF program = Client THEN ParseUint(text, p) ELSE ReadUint(text, p)

\* What has been read of a line: the numbers, as long as there was no mistake.
Start(p) == [ok |-> TRUE, values |-> <<>>, at |-> p]

\* One more number, which one of the characters in ends follows.
WithNumber(r, uint, ends) ==
    [ok |-> uint.ok /\ uint.next \in ends,
     values |-> Append(r.values, uint.value), at |-> uint.at]

Number(program, text, r, ends) ==
    IF ~r.ok THEN r
    ELSE WithNumber(r, Uint(program, text, r.at), ends)

FirstNumber(program, text, p, ends) == Number(program, text, Start(p), ends)

------------------------------------------------------------------------------
(***************************************************************************)
(* get_next: the first character chooses the word, of which as many        *)
(* characters are read as it has, whatever they are.                       *)
(***************************************************************************)
JobWords == [C |-> "CREATE ", R |-> "RESERVE ", S |-> "SHOW ", L |-> "LIST",
             B |-> "BARRIER", W |-> "WAIT ", H |-> "HELP"]
ClientWords == [first \in DOMAIN JobWords \ {"B"} |-> JobWords[first]]

ASSUME WordsAssumption ==
    \A first \in DOMAIN JobWords :
        LET word == JobWords[first]
        IN  /\ Len(word) \in Nat \ {0}
            /\ \A k \in 1 .. Len(word) : Char(word, k) \notin LineEnd

WordsAlone == {"LIST", "HELP", "BARRIER"}

GetNext(words, text, p) ==
    LET first == Char(text, p)
        word  == words[first]
        after == p + Len(word)
    IN  IF first = "\n" THEN Reading(Empty, p + 1)
        ELSE IF first = "#" THEN Reading(Empty, Cleanup(text, p + 1))
        ELSE IF first \notin DOMAIN words
        THEN Reading(Invalid, Cleanup(text, p + 1))
        ELSE IF \E k \in 1 .. Len(word) : Char(text, p + k - 1) # Char(word, k)
        THEN Reading(Invalid, Cleanup(text, after))
        ELSE IF word \notin WordsAlone THEN Reading([op |-> word], after)
        ELSE IF Char(text, after) \in LineEnd
        THEN Reading([op |-> word], after + 1)
        ELSE Reading(Invalid, Cleanup(text, after + 1))

\* The command that the numbers r make, if they could be read.
Parsed(text, r, command) ==
    IF r.ok THEN Reading(command, r.at)
    ELSE Reading(Invalid, Cleanup(text, r.at))

ParseCreate(program, text, p) ==
    LET id   == FirstNumber(program, text, p, {" "})
        rows == Number(program, text, id, {" "})
        all  == Number(program, text, rows, LineEnd)
    IN  Parsed(text, all, [op |-> "create", id |-> all.values[1],
                           rows |-> all.values[2], cols |-> all.values[3]])

ParseShow(program, text, p) ==
    LET id == FirstNumber(program, text, p, LineEnd)
    IN  Parsed(text, id, [op |-> "show", id |-> id.values[1]])

(***************************************************************************)
(* parse_reserve.  The loop ends with the first "]", or with as many       *)
(* coordinates as the arrays hold, which is an error even after a "]".     *)
(***************************************************************************)
NoSeats(at) == [ok |-> FALSE, more |-> TRUE, values |-> <<>>, at |-> at]
Stop(at)    == [ok |-> FALSE, more |-> FALSE, values |-> <<>>, at |-> at]

\* The coordinate that the numbers in pair make, and what follows it.
Paired(text, before, pair) ==
    LET next == Char(text, pair.at)
    IN  IF ~pair.ok THEN Stop(pair.at)
        ELSE IF next \notin {" ", "]"} THEN Stop(pair.at + 1)
        ELSE [ok |-> next = "]", more |-> next = " ",
              values |-> Append(before.values,
                                <<pair.values[1], pair.values[2]>>),
              at |-> pair.at + 1]

Coordinate(program, text, before) ==
    LET x == FirstNumber(program, text, before.at + 1, {","})
    IN  IF ~before.more THEN before
        ELSE IF Char(text, before.at) # "(" THEN Stop(before.at + 1)
        ELSE Paired(text, before, Number(program, text, x, {")"}))

ReadCoordinates(program, text, p) ==
    LET Read[k \in 0 .. MaxReservation] ==
            IF k = 0 THEN NoSeats(p)
            ELSE Coordinate(program, text, Read[k - 1])
    IN  Read[MaxReservation]

Bounded(r) == IF Len(r.values) = MaxReservation THEN Stop(r.at) ELSE r

Coordinates(program, text, p) == Bounded(ReadCoordinates(program, text, p))

\* What parse_reserve makes of the identifier and the seats it has read.
Reserve(text, id, seats) ==
    IF ~id.ok THEN Reading(Invalid, Cleanup(text, id.at))
    ELSE IF Char(text, id.at) # "["
    THEN Reading(Invalid, Cleanup(text, id.at + 1))
    ELSE IF ~seats.ok THEN Reading(Invalid, Cleanup(text, seats.at))
    ELSE IF Char(text, seats.at) # "\n"
    THEN Reading(Invalid, Cleanup(text, seats.at + 1))
    ELSE Reading([op |-> "reserve", id |-> id.values[1],
                  seats |-> seats.values], seats.at + 1)

ParseReserve(program, text, p) ==
    LET id == FirstNumber(program, text, p, {" "})
    IN  Reserve(text, id, Coordinates(program, text, id.at + 1))

Before(a, b) == a[1] < b[1] \/ (a[1] = b[1] /\ a[2] < b[2])

\* The places of the seats in ascending order.
Ascending(seats) ==
    CHOOSE q \in [DOMAIN seats -> DOMAIN seats] :
        \A j, k \in DOMAIN seats :
            j < k => q[j] # q[k] /\ ~Before(seats[q[k]], seats[q[j]])

Sorted(c) ==
    IF c.op = "reserve"
    THEN [c EXCEPT !.seats = [k \in DOMAIN @ |-> @[Ascending(@)[k]]]]
    ELSE c

\* The version of projeto1 sorts the coordinates.
SortedReading(r) == Reading(Sorted(r.command), r.at)

ParseReserveSorted(text, p) == SortedReading(ParseReserve(Jobs, text, p))

(***************************************************************************)
(* parse_wait.  The client passes no thread_id: what follows the delay is  *)
(* skipped.  A wait that is not well-formed reads as one of no thread.     *)
(***************************************************************************)
Wait(delay, thread) == [op |-> "wait", delay |-> delay, thread |-> thread]
Everybody == -1

ParseWait(text, p) ==
    LET delay == FirstNumber(Jobs, text, p, {" "} \cup LineEnd)
        both  == Number(Jobs, text, delay, LineEnd)
    IN  IF delay.ok /\ Char(text, delay.at - 1) = " "
        THEN Parsed(text, both, Wait(both.values[1], both.values[2]))
        ELSE Parsed(text, delay, Wait(delay.values[1], Everybody))

\* Mutated form: what follows the delay is left in the text.
ClientWaitKeepsRest(text, p) ==
    LET delay == FirstNumber(Client, text, p, {" "} \cup LineEnd)
    IN  Parsed(text, delay, Wait(delay.values[1], Everybody))

ClientParseWait(text, p) ==
    LET delay == FirstNumber(Client, text, p, {" "} \cup LineEnd)
        wait  == Wait(delay.values[1], Everybody)
    IN  IF delay.ok /\ Char(text, delay.at - 1) = " "
        THEN Reading(wait, Cleanup(text, delay.at))
        ELSE Parsed(text, delay, wait)

------------------------------------------------------------------------------
(***************************************************************************)
(* The switch on the word: one command of a jobs file, as the threads and  *)
(* initialize_lists of projeto1 and the main loop of the client read it.   *)
(***************************************************************************)
JobSwitch(text, r) ==
    CASE r.command.op = "CREATE "  -> ParseCreate(Jobs, text, r.at)
      [] r.command.op = "RESERVE " -> ParseReserveSorted(text, r.at)
      [] r.command.op = "SHOW "    -> ParseShow(Jobs, text, r.at)
      [] r.command.op = "WAIT "    -> ParseWait(text, r.at)
      [] r.command.op = "LIST"     -> Reading([op |-> "list"], r.at)
      [] r.command.op = "BARRIER"  -> Reading([op |-> "barrier"], r.at)
      [] r.command.op = "HELP"     -> Reading([op |-> "help"], r.at)
      [] OTHER                     -> r

ClientSwitch(text, r) ==
    CASE r.command.op = "CREATE "  -> ParseCreate(Client, text, r.at)
      [] r.command.op = "RESERVE " -> ParseReserve(Client, text, r.at)
      [] r.command.op = "SHOW "    -> ParseShow(Client, text, r.at)
      [] r.command.op = "WAIT "    -> ClientParseWait(text, r.at)
      [] r.command.op = "LIST"     -> Reading([op |-> "list"], r.at)
      [] r.command.op = "HELP"     -> Reading([op |-> "help"], r.at)
      [] OTHER                     -> r

Command(program, text, p) ==
    IF program = Client THEN ClientSwitch(text, GetNext(ClientWords, text, p))
    ELSE JobSwitch(text, GetNext(JobWords, text, p))

\* The loop around the switch: one command more, while the text goes on.
Followed(r, next) == Reading(Append(r.command, next.command), next.at)

OneMore(program, text, r) ==
    IF r.at > Len(text) THEN r
    ELSE Followed(r, Command(program, text, r.at))

\* Each command takes a character at least, so that the text is at its end
\* when as many have been read as it has characters.
ReadAll(program, text) ==
    LET Read[k \in 0 .. Len(text)] ==
            IF k = 0 THEN Reading(<<>>, 1)
            ELSE OneMore(program, text, Read[k - 1])
    IN  Read[Len(text)]

\* All commands of a text.
Commands(program, text) == ReadAll(program, text).command

==============================================================================
