---------------------------- MODULE ParserProofs -----------------------------
(***************************************************************************)
(* Proofs about the parsers, for every text whose numbers fit into the      *)
(* buffer that they are read into (IsText).  Reading a command goes on     *)
(* within the text and makes a command the program may run (CommandReads), *)
(* so that a text is read to its end (TextIsRead) and its lines are what   *)
(* JobThreads assumes of a jobs file (LinesAreRequests); the seats of a    *)
(* RESERVE are sorted (SeatsSorted); and the client reads a jobs file as   *)
(* projeto1 does (TextReadAlike, ParsersReadAlike).                        *)
(***************************************************************************)
EXTENDS JobTexts, EventDataProofs

\* The marks that the parsers look for are no digits.
LEMMA NoDigits == \A c \in {Nul, "\n", " ", ",", ")", "]"} : ~IsDigit(c)
<1>1. /\ Numerals[1] = "0" /\ Numerals[2] = "1" /\ Numerals[3] = "2"
      /\ Numerals[4] = "3" /\ Numerals[5] = "4" /\ Numerals[6] = "5"
      /\ Numerals[7] = "6" /\ Numerals[8] = "7" /\ Numerals[9] = "8"
      /\ Numerals[10] = "9"
  BY DEF Numerals
<1>2. \A d \in 0 .. 9 :
         \/ d + 1 = 1 \/ d + 1 = 2 \/ d + 1 = 3 \/ d + 1 = 4 \/ d + 1 = 5
         \/ d + 1 = 6 \/ d + 1 = 7 \/ d + 1 = 8 \/ d + 1 = 9 \/ d + 1 = 10
  OBVIOUS
<1>3. \A d \in 0 .. 9 :
         Numerals[d + 1] \in {"0", "1", "2", "3", "4", "5", "6", "7", "8", "9"}
  BY <1>1, <1>2
<1> QED
  BY <1>3 DEF IsDigit, Nul

\* A digit has a value.
LEMMA DigitValue ==
    ASSUME NEW c, IsDigit(c)
    PROVE  Value(c) \in 0 .. 9
BY DEF IsDigit, Value

\* What cleanup leaves behind: the first newline from p on, or everything.
EndsLine(text, p, q) ==
    /\ q \in Nat \ {0}
    /\ \/ /\ q = Len(text) + 1
          /\ \A r \in p .. Len(text) : Char(text, r) # "\n"
       \/ /\ q - 1 \in p .. Len(text)
          /\ Char(text, q - 1) = "\n"
          /\ \A r \in p .. q - 2 : Char(text, r) # "\n"

\* From wherever cleanup starts, it ends behind the next newline, or at the end
\* of the text if there is none.
THEOREM CleanupEndsLine ==
    ASSUME NEW text, Len(text) \in Nat, NEW p \in Nat
    PROVE  EndsLine(text, p, Cleanup(text, p))
<1> DEFINE newlines == {q \in p .. Len(text) : Char(text, q) = "\n"}
<1>1. CASE newlines = {}
  BY <1>1 DEF Cleanup, EndsLine
<1>2. CASE newlines # {}
  <2> DEFINE first == CHOOSE q \in newlines : \A r \in newlines : q <= r
  <2>1. newlines \in SUBSET Nat
    OBVIOUS
  <2>2. \E q \in newlines : \A r \in newlines : q <= r
    BY <1>2, <2>1, LeastExists
  <2>3. first \in newlines /\ \A r \in newlines : first <= r
    BY <2>2
  <2>4. Cleanup(text, p) = 1 + first
    BY <1>2 DEF Cleanup
  <2> HIDE DEF first
  <2>5. \A r \in p .. (1 + first) - 2 : Char(text, r) # "\n"
    BY <2>3
  <2> QED
    BY <2>3, <2>4, <2>5 DEF EndsLine
<1> QED
  BY <1>1, <1>2

\* cleanup has one outcome, from wherever before the newline it starts.
LEMMA EndsLineOnce ==
    ASSUME NEW text, Len(text) \in Nat, NEW p \in Nat, NEW q \in Nat, p <= q,
           \A r \in p .. q - 1 : r <= Len(text) => Char(text, r) # "\n",
           NEW a, NEW b, EndsLine(text, p, a), EndsLine(text, q, b)
    PROVE  a = b
BY DEF EndsLine

\* What is no newline makes no difference to cleanup.
LEMMA CleanupSkips ==
    ASSUME NEW text, Len(text) \in Nat, NEW p \in Nat, NEW q \in Nat, p <= q,
           \A r \in p .. q - 1 : Char(text, r) # "\n"
    PROVE  Cleanup(text, p) = Cleanup(text, q)
BY CleanupEndsLine, EndsLineOnce

\* cleanup ends behind the first newline.
LEMMA CleanupFound ==
    ASSUME NEW text, Len(text) \in Nat, NEW p \in Nat,
           NEW q \in p .. Len(text),
           Char(text, q) = "\n", \A r \in p .. q - 1 : Char(text, r) # "\n"
    PROVE  Cleanup(text, p) = q + 1
<1>1. EndsLine(text, p, Cleanup(text, p))
  BY CleanupEndsLine
<1>2. EndsLine(text, p, q + 1)
  BY DEF EndsLine
<1> QED
  BY <1>1, <1>2, EndsLineOnce

\* cleanup goes on, but not beyond the end of the text.
LEMMA CleanupRange ==
    ASSUME NEW text, Len(text) \in Nat, NEW p \in Nat
    PROVE  /\ Cleanup(text, p) \in 1 .. Len(text) + 1
           /\ p <= Len(text) => Cleanup(text, p) >= p + 1
           /\ p >= Len(text) + 1 => Cleanup(text, p) = Len(text) + 1
<1>1. EndsLine(text, p, Cleanup(text, p))
  BY CleanupEndsLine
<1> HIDE DEF Cleanup
<1> QED
  BY <1>1 DEF EndsLine

------------------------------------------------------------------------------
(*****************************************************************************)
(* Induction, and functions that are computed step by step: the recursive    *)
(* definitions of Parser are the CHOICE of such a function, which there      *)
(* is.                                                                       *)
(*****************************************************************************)

\* Induction over the natural numbers, for a set that is given.
LEMMA Induction ==
    ASSUME NEW T, 0 \in T, \A n \in Nat : n \in T => n + 1 \in T
    PROVE  Nat \subseteq T
<1> SUFFICES ASSUME Nat \ T # {} PROVE FALSE
  OBVIOUS
<1>1. PICK x \in Nat \ T : \A y \in Nat \ T : x <= y
  BY LeastExists
<1>2. x # 0 /\ x - 1 \in Nat
  BY <1>1
<1>3. x - 1 \in T
  BY <1>1, <1>2
<1> QED
  BY <1>1, <1>2, <1>3

\* f is computed step by step from a value at a.
Computes(f, a, b, base, step) ==
    f = [h \in a .. b |-> IF h = a THEN base ELSE step[<<f[h - 1], h>>]]

\* The value at h of a function that is computed step by step.
LEMMA ComputedAt ==
    ASSUME NEW a, NEW b, NEW base, NEW step, NEW f,
           Computes(f, a, b, base, step), NEW h \in a .. b
    PROVE  f[h] = IF h = a THEN base ELSE step[<<f[h - 1], h>>]
BY DEF Computes

\* There is such a function, and it stays in the set of its steps.
LEMMA Recursion ==
    ASSUME NEW a \in Nat, NEW b \in Nat, a <= b, NEW S, NEW base \in S,
           NEW step \in [S \X Nat -> S]
    PROVE  \E f \in [a .. b -> S] : Computes(f, a, b, base, step)
<1> DEFINE Good(c) == \E f \in [a .. c -> S] : Computes(f, a, c, base, step)
           T == {c \in Nat : a <= c => Good(c)}
<1>1. Good(a)
  <2> DEFINE f == [h \in a .. a |-> base]
  <2>1. f \in [a .. a -> S] /\ Computes(f, a, a, base, step)
    BY DEF Computes
  <2> QED
    BY <2>1
<1>2. ASSUME NEW c \in Nat, a <= c, Good(c) PROVE Good(c + 1)
  <2>1. PICK f \in [a .. c -> S] : Computes(f, a, c, base, step)
    BY <1>2
  <2> DEFINE last == step[<<f[c], c + 1>>]
             g == [h \in a .. c + 1 |-> IF h = c + 1 THEN last ELSE f[h]]
  <2>2. last \in S
    BY <1>2
  <2>3. g \in [a .. c + 1 -> S]
    BY <2>2
  <2>4. ASSUME NEW h \in a .. c + 1
        PROVE  g[h] = IF h = a THEN base ELSE step[<<g[h - 1], h>>]
    <3>1. CASE h = c + 1
      <4>1. h # a /\ h - 1 = c /\ c \in a .. c + 1
        BY <1>2, <3>1
      <4> QED
        BY <3>1, <4>1
    <3>2. CASE h # c + 1
      <4>1. h \in a .. c /\ (h # a => h - 1 \in a .. c + 1 /\ h - 1 # c + 1)
        BY <1>2, <3>2
      <4>2. f[h] = IF h = a THEN base ELSE step[<<f[h - 1], h>>]
        <5>1. h \in a .. c
          BY <4>1
        <5> QED
          BY <2>1, <5>1 DEF Computes
      <4> QED
        BY <3>2, <4>1, <4>2
    <3> QED
      BY <3>1, <3>2
  <2>5. Computes(g, a, c + 1, base, step)
    BY <2>4 DEF Computes
  <2> QED
    BY <2>3, <2>5
<1> HIDE DEF Good
<1>3. Nat \subseteq T
  <2>1. 0 \in T
    BY <1>1
  <2>2. ASSUME NEW c \in Nat, c \in T PROVE c + 1 \in T
    <3>1. CASE a <= c
      BY <1>2, <2>2, <3>1
    <3>2. CASE a = c + 1
      BY <1>1, <3>2
    <3>3. CASE c + 1 < a
      BY <3>3
    <3> QED
      BY <3>1, <3>2, <3>3
  <2> QED
    BY <2>1, <2>2, Induction
<1>4. Good(b)
  BY <1>3
<1> QED
  BY <1>4 DEF Good

------------------------------------------------------------------------------
(*****************************************************************************)
(* Numbers, and sequences of them.                                           *)
(*****************************************************************************)

\* The digits that start at p end, at the end of the text if nowhere before.
LEMMA DigitsEndFound ==
    ASSUME NEW text, IsText(text), NEW p \in 1 .. Len(text) + 1
    PROVE  /\ DigitsEnd(text, p) \in p .. Len(text) + 1
           /\ ~IsDigit(Char(text, DigitsEnd(text, p)))
           /\ \A r \in p .. DigitsEnd(text, p) - 1 : IsDigit(Char(text, r))
<1> DEFINE ends == {q \in p .. Len(text) + 1 : ~IsDigit(Char(text, q))}
           last == p + NumberBuffer - 1
           End(q) == /\ ~IsDigit(Char(text, q))
                     /\ \A r \in p .. q - 1 : IsDigit(Char(text, r))
<1>0. Len(text) \in Nat /\ NumberBuffer \in Nat \ {0}
  BY ParserAssumption DEF IsText
<1>1. Len(text) + 1 \in ends
  <2>1. Char(text, Len(text) + 1) = Nul
    BY <1>0 DEF Char
  <2>2. ~IsDigit(Nul)
    BY NoDigits
  <2> QED
    BY <1>0, <2>1, <2>2
<1>2. PICK q \in ends : \A r \in ends : q <= r
  <2>1. ends \in SUBSET Nat
    BY <1>0
  <2> QED
    BY <1>1, <2>1, LeastExists
<1>3. q \in p .. Len(text) + 1 /\ End(q)
  <2>1. \A r \in p .. q - 1 : r \in p .. Len(text) + 1 /\ ~ (q <= r)
    BY <1>0, <1>2
  <2> QED
    BY <1>2, <2>1
<1>4. q <= last
  <2>1. CASE p = Len(text) + 1
    BY <1>0, <1>3, <2>1
  <2>2. CASE p \in 1 .. Len(text)
    <3>1. PICK r \in p .. last : ~IsDigit(Char(text, r))
      BY <2>2 DEF IsText, NumbersFit
    <3>2. CASE r <= Len(text) + 1
      BY <1>0, <1>2, <3>1, <3>2
    <3>3. CASE ~ (r <= Len(text) + 1)
      BY <1>0, <1>3, <3>1, <3>3
    <3> QED
      BY <3>2, <3>3
  <2> QED
    BY <1>0, <2>1, <2>2
<1>5. DigitsEnd(text, p) = CHOOSE e \in p .. last : End(e)
  BY DEF DigitsEnd
<1>6. q \in p .. last
  BY <1>0, <1>3, <1>4
<1> HIDE DEF End, last
<1>7. DigitsEnd(text, p) \in p .. last /\ End(DigitsEnd(text, p))
  BY <1>3, <1>5, <1>6
<1>8. ASSUME NEW e \in p .. last, End(e)
      PROVE  e \in p .. Len(text) + 1
  <2>1. ~IsDigit(Char(text, Len(text) + 1))
    BY <1>1
  <2>2. e \in Int /\ p <= e
    BY <1>0 DEF last
  <2> QED
    BY <1>0, <1>8, <2>1, <2>2 DEF End
<1> QED
  BY <1>7, <1>8 DEF End

\* Digits have a value.
LEMMA ValuedNat ==
    ASSUME NEW text, NEW p \in Nat, NEW end \in Nat, p <= end,
           \A r \in p .. end - 1 : IsDigit(Char(text, r))
    PROVE  Valued(text, p, end) \in Nat
<1> DEFINE Def(f) ==
               f = [q \in p .. end |->
                       IF q = p THEN 0
                       ELSE 10 * f[q - 1] + Value(Char(text, q - 1))]
           step == [x \in Nat \X Nat |->
                       IF x[2] \in p + 1 .. end
                       THEN 10 * x[1] + Value(Char(text, x[2] - 1)) ELSE 0]
<1>1. step \in [Nat \X Nat -> Nat]
  <2>1. ASSUME NEW x \in Nat \X Nat, x[2] \in p + 1 .. end
        PROVE  10 * x[1] + Value(Char(text, x[2] - 1)) \in Nat
    <3>1. IsDigit(Char(text, x[2] - 1))
      BY <2>1
    <3>2. Value(Char(text, x[2] - 1)) \in 0 .. 9
      BY <3>1, DigitValue
    <3> QED
      BY <3>2
  <2> QED
    BY <2>1
<1>2. PICK f \in [p .. end -> Nat] : Computes(f, p, end, 0, step)
  <2>1. 0 \in Nat
    OBVIOUS
  <2> HIDE DEF step
  <2> QED
    BY <1>1, <2>1, Recursion
<1>3. Def(f)
  <2>1. \A h \in p .. end :
            h # p => step[<<f[h - 1], h>>]
                     = 10 * f[h - 1] + Value(Char(text, h - 1))
    OBVIOUS
  <2> HIDE DEF step
  <2> QED
    BY <1>2, <2>1 DEF Computes
<1> DEFINE Upto == CHOOSE g : Def(g)
<1>4. Valued(text, p, end) = Upto[end]
  BY DEF Valued
<1>5. Def(Upto)
  <2> HIDE DEF Def
  <2> QED
    BY <1>3
<1> DEFINE U == {h \in Nat : h \in p .. end => Upto[h] \in Nat}
<1>6. \A h \in p .. end :
         Upto[h] = IF h = p THEN 0
                   ELSE 10 * Upto[h - 1] + Value(Char(text, h - 1))
  <2> HIDE DEF Upto
  <2> QED
    BY <1>5
<1> HIDE DEF Upto
<1>7. 0 \in U
  BY <1>6
<1>8. ASSUME NEW h \in Nat, h \in U PROVE h + 1 \in U
  <2> SUFFICES ASSUME h + 1 \in p .. end PROVE Upto[h + 1] \in Nat
    OBVIOUS
  <2>1. CASE h + 1 = p
    BY <1>6, <2>1
  <2>2. CASE h + 1 # p
    <3>1. h \in p .. end - 1 /\ (h + 1) - 1 = h
      BY <2>2
    <3>2. Value(Char(text, h)) \in 0 .. 9
      BY <3>1, DigitValue
    <3>3. Upto[h + 1] = 10 * Upto[h] + Value(Char(text, h))
      BY <1>6, <2>2, <3>1
    <3>4. Upto[h] \in Nat
      BY <1>8, <3>1
    <3>5. \A a \in Nat, b \in 0 .. 9 : 10 * a + b \in Nat
      OBVIOUS
    <3> QED
      BY <3>2, <3>3, <3>4, <3>5, Zenon
  <2> QED
    BY <2>1, <2>2
<1>9. Nat \subseteq U
  BY <1>7, <1>8, Induction
<1> QED
  BY <1>4, <1>9

\* Both readings of a number end behind the first character that is no digit.
UintRead(text, p, uint) ==
    /\ uint.value \in Nat
    /\ uint.ok => uint.value <= MaxUint
    /\ uint.at \in p + 1 .. Len(text) + 2
    /\ uint.next = Char(text, uint.at - 1)
    /\ ~IsDigit(uint.next)
    /\ \A r \in p .. uint.at - 2 : IsDigit(Char(text, r))

\* read_uint of projeto1.
LEMMA ReadUintReads ==
    ASSUME NEW text, IsText(text), NEW p \in 1 .. Len(text) + 1,
           NEW uint, uint = ReadUint(text, p)
    PROVE  UintRead(text, p, uint)
<1> DEFINE end == DigitsEnd(text, p)
<1>0. Len(text) \in Nat
  BY DEF IsText
<1>1. /\ end \in p .. Len(text) + 1
      /\ ~IsDigit(Char(text, end))
      /\ \A r \in p .. end - 1 : IsDigit(Char(text, r))
  BY DigitsEndFound
<1>2. PICK value \in Nat : value = Valued(text, p, end)
  <2> HIDE DEF end
  <2> QED
    BY <1>1, ValuedNat
<1>3. uint = [ok |-> value <= MaxUint, value |-> value,
              next |-> Char(text, end), at |-> end + 1]
  BY <1>2 DEF ReadUint
<1> HIDE DEF end
<1>4. (end + 1) - 1 = end /\ (end + 1) - 2 = end - 1
  BY <1>1
<1>5. /\ uint.value = value
      /\ uint.next = Char(text, end)
      /\ uint.at = end + 1
  BY <1>3
<1>7. uint.ok => value <= MaxUint
  <2>1. ReadUint(text, p).ok => Valued(text, p, end) <= MaxUint
    BY DEF ReadUint, end
  <2> QED
    BY <1>2, <2>1
<1>6. uint.at \in p + 1 .. Len(text) + 2
  BY <1>1, <1>5
<1> QED
  BY <1>1, <1>4, <1>5, <1>6, <1>7 DEF UintRead

\* parse_uint reads as read_uint does, but at the end of the text.
LEMMA ParseUintAgrees ==
    ASSUME NEW text, IsText(text), NEW p \in 1 .. Len(text) + 1
    PROVE  /\ ParseUint(text, p).at = ReadUint(text, p).at
           /\ ParseUint(text, p).next = ReadUint(text, p).next
           /\ ParseUint(text, p).next # Nul =>
                 ParseUint(text, p) = ReadUint(text, p)
           /\ ParseUint(text, p).next = Nul =>
                 /\ ParseUint(text, p).ok <=> AnyNumber <= MaxUint
                 /\ ParseUint(text, p).value = AnyNumber
BY DEF ParseUint, Unterminated, ReadUint

\* Whichever program reads the number.
LEMMA UintReads ==
    ASSUME NEW text, IsText(text), NEW p \in 1 .. Len(text) + 1,
           NEW program
    PROVE  UintRead(text, p, Uint(program, text, p))
<1>1. UintRead(text, p, ReadUint(text, p))
  BY ReadUintReads
<1>2. UintRead(text, p, ParseUint(text, p))
  <2>1. CASE ParseUint(text, p).next # Nul
    BY <1>1, <2>1, ParseUintAgrees
  <2>2. CASE ParseUint(text, p).next = Nul
    <3>1. /\ ParseUint(text, p).at = ReadUint(text, p).at
          /\ ParseUint(text, p).next = ReadUint(text, p).next
          /\ ParseUint(text, p).ok <=> AnyNumber <= MaxUint
          /\ ParseUint(text, p).value = AnyNumber
      BY <2>2, ParseUintAgrees
    <3> QED
      BY <1>1, <3>1, ParserAssumption DEF UintRead
  <2> QED
    BY <2>1, <2>2
<1> QED
  BY <1>1, <1>2 DEF Uint

\* n numbers have been read of the text from p on.
NumbersRead(text, p, n, r) ==
    /\ r.at \in p .. Len(text) + 2
    /\ r.ok => r.values \in Seq(0 .. MaxUint) /\ Len(r.values) = n

\* One more number, if there was no mistake before.
LEMMA NumberIs ==
    ASSUME NEW text, IsText(text), NEW program, NEW p \in Nat \ {0},
           NEW n \in Nat, NEW r, NEW ends, NumbersRead(text, p, n, r),
           r.ok => r.at <= Len(text) + 1
    PROVE  LET s    == Number(program, text, r, ends)
               uint == Uint(program, text, r.at)
           IN  /\ NumbersRead(text, p, n + 1, s)
               /\ ~r.ok => s = r
               /\ r.ok => /\ UintRead(text, r.at, uint)
                          /\ s.at = uint.at /\ s.at > r.at
                          /\ s.ok <=> uint.ok /\ uint.next \in ends
                          /\ s.values = Append(r.values, uint.value)
               /\ s.ok => r.ok /\ Char(text, s.at - 1) \in ends
<1> DEFINE s == Number(program, text, r, ends)
           uint == Uint(program, text, r.at)
<1>1. CASE ~r.ok
  <2>1. s = r
    BY <1>1 DEF Number, WithNumber
  <2>2. NumbersRead(text, p, n + 1, r)
    BY <1>1 DEF NumbersRead
  <2> HIDE DEF s
  <2>3. NumbersRead(text, p, n + 1, s) /\ ~s.ok
    BY <1>1, <2>1, <2>2
  <2> QED
    BY <1>1, <2>1, <2>3 DEF s
<1>2. CASE r.ok
  <2>1. /\ r.at \in p .. Len(text) + 1 /\ Len(text) \in Nat
        /\ r.values \in Seq(0 .. MaxUint) /\ Len(r.values) = n
    BY <1>2 DEF NumbersRead, IsText
  <2>2. r.at \in 1 .. Len(text) + 1
    BY <2>1
  <2> HIDE DEF uint
  <2>3. UintRead(text, r.at, uint)
    BY <2>1, <2>2, UintReads DEF uint
  <2>5. /\ s.at = uint.at
        /\ s.values = Append(r.values, uint.value)
    BY <1>2 DEF Number, WithNumber, uint
  <2>9. s.ok <=> uint.ok /\ uint.next \in ends
    BY <1>2 DEF Number, WithNumber, uint
  <2> HIDE DEF s
  <2>6. /\ uint.at \in r.at + 1 .. Len(text) + 2
        /\ uint.next = Char(text, uint.at - 1)
    BY <2>3 DEF UintRead
  <2>7. ASSUME s.ok
        PROVE  s.values \in Seq(0 .. MaxUint) /\ Len(s.values) = n + 1
    <3>1. uint.value \in 0 .. MaxUint
      BY <2>3, <2>7, <2>9, ParserAssumption DEF UintRead
    <3> QED
      BY <2>1, <2>5, <3>1, AppendProperties
  <2>8. NumbersRead(text, p, n + 1, s)
    BY <2>1, <2>5, <2>6, <2>7 DEF NumbersRead
  <2>10. s.at > r.at
    BY <2>1, <2>5, <2>6
  <2> QED
    BY <1>2, <2>3, <2>5, <2>6, <2>8, <2>9, <2>10 DEF s, uint
<1> QED
  BY <1>1, <1>2

\* The same, for those who need not know which number it is.
LEMMA NumberReads ==
    ASSUME NEW text, IsText(text), NEW program, NEW p \in Nat \ {0},
           NEW n \in Nat, NEW r, NEW ends, NumbersRead(text, p, n, r),
           r.ok => r.at <= Len(text) + 1
    PROVE  LET s == Number(program, text, r, ends)
           IN  /\ NumbersRead(text, p, n + 1, s)
               /\ s.ok => r.ok /\ Char(text, s.at - 1) \in ends
BY NumberIs

\* A character other than Nul is within the text.
LEMMA InText ==
    ASSUME NEW text, IsText(text), NEW q \in Nat, Char(text, q) # Nul
    PROVE  q <= Len(text)
BY DEF Char, IsText

\* A command of which the numbers have been read.
LEMMA ParsedReads ==
    ASSUME NEW text, IsText(text), NEW p \in 1 .. Len(text) + 1, NEW n,
           NEW r, NumbersRead(text, p, n, r), NEW command
    PROVE  /\ Parsed(text, r, command).at \in p .. Len(text) + 2
           /\ Parsed(text, r, command).command =
                 IF r.ok THEN command ELSE Invalid
<1>1. r.at \in Nat /\ Len(text) \in Nat /\ r.at \in p .. Len(text) + 2
  BY DEF NumbersRead, IsText
<1>2. /\ Cleanup(text, r.at) \in 1 .. Len(text) + 1
      /\ r.at <= Len(text) => Cleanup(text, r.at) >= r.at + 1
      /\ r.at >= Len(text) + 1 => Cleanup(text, r.at) = Len(text) + 1
  BY <1>1, CleanupRange
<1>3. Cleanup(text, r.at) \in p .. Len(text) + 1
  BY <1>1, <1>2
<1> QED
  BY <1>1, <1>3 DEF Parsed, Reading

\* The same, for the set that the command is in.
LEMMA ParsedIn ==
    ASSUME NEW text, IsText(text), NEW p \in 1 .. Len(text) + 1, NEW n,
           NEW r, NumbersRead(text, p, n, r), NEW command, NEW C,
           r.ok => command \in C
    PROVE  /\ Parsed(text, r, command).at \in p .. Len(text) + 2
           /\ Parsed(text, r, command).command \in C \cup {Invalid}
<1>1. Parsed(text, r, command).at \in p .. Len(text) + 2
  BY ParsedReads
<1>2. Parsed(text, r, command).command = IF r.ok THEN command ELSE Invalid
  BY ParsedReads
<1> QED
  BY <1>1, <1>2

\* A number that something follows ends within the text.
LEMMA NumberGoesOn ==
    ASSUME NEW text, IsText(text), NEW program, NEW p \in Nat \ {0},
           NEW n \in Nat, NEW r, NEW ends, NumbersRead(text, p, n, r),
           r.ok => r.at <= Len(text) + 1, Nul \notin ends,
           Number(program, text, r, ends).ok
    PROVE  Number(program, text, r, ends).at <= Len(text) + 1
<1> DEFINE s == Number(program, text, r, ends)
<1>1. Char(text, s.at - 1) \in ends /\ NumbersRead(text, p, n + 1, s)
  BY NumberReads
<1> HIDE DEF s
<1>2. PICK q \in Nat : q + 1 = s.at /\ q = s.at - 1
  BY <1>1 DEF NumbersRead, IsText
<1>3. q <= Len(text)
  BY <1>1, <1>2, InText
<1>4. s.at <= Len(text) + 1
  BY <1>2, <1>3 DEF IsText
<1> QED
  BY <1>4 DEF s

\* No number has been read yet.
LEMMA StartReads ==
    ASSUME NEW text, IsText(text), NEW p \in 1 .. Len(text) + 1
    PROVE  /\ NumbersRead(text, p, 0, Start(p))
           /\ Start(p).ok /\ Start(p).at = p /\ Start(p).values = <<>>
BY DEF NumbersRead, Start, IsText

\* The first number of a command.
LEMMA FirstReads ==
    ASSUME NEW text, IsText(text), NEW program, NEW p \in 1 .. Len(text) + 1,
           NEW ends
    PROVE  LET s    == FirstNumber(program, text, p, ends)
               uint == Uint(program, text, p)
           IN  /\ NumbersRead(text, p, 1, s)
               /\ UintRead(text, p, uint)
               /\ s.at = uint.at /\ s.at > p
               /\ s.ok <=> uint.ok /\ uint.next \in ends
               /\ s.values = <<uint.value>>
               /\ s.ok => Char(text, s.at - 1) \in ends
               /\ s.ok /\ Nul \notin ends => s.at <= Len(text) + 1
<1> DEFINE r    == Start(p)
           s    == Number(program, text, r, ends)
           uint == Uint(program, text, p)
<1>1. /\ NumbersRead(text, p, 0, r) /\ r.ok /\ r.at = p /\ r.values = <<>>
      /\ p \in Nat \ {0} /\ p <= Len(text) + 1 /\ Len(text) \in Nat
  BY StartReads DEF IsText
<1>2. FirstNumber(program, text, p, ends) = s
  BY DEF FirstNumber
<1> HIDE DEF r
<1>6. 0 \in Nat /\ 0 + 1 = 1
  OBVIOUS
<1>3. /\ NumbersRead(text, p, 1, s)
      /\ UintRead(text, p, uint)
      /\ s.at = uint.at /\ s.at > p
      /\ s.ok <=> uint.ok /\ uint.next \in ends
      /\ s.values = Append(<<>>, uint.value)
      /\ s.ok => Char(text, s.at - 1) \in ends
  <2> DEFINE other == Uint(program, text, r.at)
  <2>1. /\ NumbersRead(text, p, 0 + 1, s)
        /\ r.ok => /\ UintRead(text, r.at, other)
                   /\ s.at = other.at /\ s.at > r.at
                   /\ s.ok <=> other.ok /\ other.next \in ends
                   /\ s.values = Append(r.values, other.value)
        /\ s.ok => r.ok /\ Char(text, s.at - 1) \in ends
    <3>1. r.ok => r.at <= Len(text) + 1
      BY <1>1
    <3>2. r.ok
      BY <1>1
    <3>3. NumbersRead(text, p, 0, r) /\ p \in Nat \ {0} /\ 0 \in Nat
      BY <1>1
    <3> HIDE DEF s, other
    <3>4. /\ NumbersRead(text, p, 0 + 1, s)
          /\ ~r.ok => s = r
          /\ r.ok => /\ UintRead(text, r.at, other)
                     /\ s.at = other.at /\ s.at > r.at
                     /\ s.ok <=> other.ok /\ other.next \in ends
                     /\ s.values = Append(r.values, other.value)
          /\ s.ok => r.ok /\ Char(text, s.at - 1) \in ends
      BY <3>1, <3>3, NumberIs, Zenon DEF s, other
    <3> QED
      BY <3>4
  <2>2. other = uint
    BY <1>1
  <2> HIDE DEF s, uint, other
  <2> QED
    BY <1>1, <1>6, <2>1, <2>2
<1>4. s.ok /\ Nul \notin ends => s.at <= Len(text) + 1
  BY <1>1, <1>6, NumberGoesOn
<1>5. Append(<<>>, uint.value) = <<uint.value>>
  OBVIOUS
<1> HIDE DEF s, uint
<1>7. s.values = <<uint.value>>
  BY <1>3, <1>5
<1> QED
  BY <1>2, <1>3, <1>4, <1>7 DEF uint

------------------------------------------------------------------------------
(*****************************************************************************)
(* Commands: where the reading of each ends, and what it makes.              *)
(*****************************************************************************)

Uints == 0 .. MaxUint

\* The lists of seats that fit in the arrays of parse_reserve.
SeatPairs == Uints \X Uints
SeatLists == {s \in Seq(SeatPairs) : Len(s) \in 1 .. MaxReservation - 1}

\* What may come of reading a command.
CreateCommands  == [op : {"create"}, id : Uints, rows : Uints, cols : Uints]
ShowCommands    == [op : {"show"}, id : Uints]
ReserveCommands == [op : {"reserve"}, id : Uints, seats : SeatLists]
WaitCommands    == [op : {"wait"}, delay : Uints,
                    thread : Uints \cup {Everybody}]
OtherCommands   == [op : {"list", "barrier", "help", "empty", "invalid"}]
JobCommands     == UNION {CreateCommands, ShowCommands, ReserveCommands,
                          WaitCommands, OtherCommands}

\* parse_create.
LEMMA CreateParsed ==
    ASSUME NEW text, IsText(text), NEW program, NEW p \in 1 .. Len(text) + 1
    PROVE  /\ ParseCreate(program, text, p).at \in p .. Len(text) + 2
           /\ ParseCreate(program, text, p).command
                 \in CreateCommands \cup {Invalid}
<1>1. PICK id : id = FirstNumber(program, text, p, {" "})
  OBVIOUS
<1>2. PICK rows : rows = Number(program, text, id, {" "})
  OBVIOUS
<1>3. PICK all : all = Number(program, text, rows, LineEnd)
  OBVIOUS
<1>4. /\ p \in Nat \ {0} /\ Nul \notin {" "}
      /\ 1 \in Nat /\ 2 \in Nat /\ 2 = 1 + 1 /\ 3 = 2 + 1
  BY DEF IsText, Nul
<1>5. NumbersRead(text, p, 1, id) /\ (id.ok => id.at <= Len(text) + 1)
  BY <1>1, <1>4, FirstReads
<1>6. NumbersRead(text, p, 1 + 1, rows)
      /\ (rows.ok => rows.at <= Len(text) + 1)
  BY <1>2, <1>4, <1>5, NumberReads, NumberGoesOn
<1>7. NumbersRead(text, p, 3, all)
  <2>1. NumbersRead(text, p, 2, rows)
    BY <1>4, <1>6
  <2>2. NumbersRead(text, p, 2 + 1, all)
    BY <1>3, <1>4, <1>6, <2>1, NumberReads
  <2> QED
    BY <1>4, <2>2
<1> DEFINE command == [op |-> "create", id |-> all.values[1],
                       rows |-> all.values[2], cols |-> all.values[3]]
<1>8. all.ok => command \in CreateCommands
  <2>1. all.ok => /\ all.values[1] \in Uints
                  /\ all.values[2] \in Uints
                  /\ all.values[3] \in Uints
    <3> SUFFICES ASSUME all.ok
                 PROVE  /\ all.values[1] \in Uints
                        /\ all.values[2] \in Uints
                        /\ all.values[3] \in Uints
      OBVIOUS
    <3>1. all.values \in Seq(Uints) /\ Len(all.values) = 3
      BY <1>7 DEF NumbersRead, Uints
    <3>2. \A n \in 1 .. 3 : all.values[n] \in Uints
      BY <3>1, ElementOfSeq
    <3> QED
      BY <3>2
  <2> QED
    BY <2>1 DEF CreateCommands
<1>9. ParseCreate(program, text, p) = Parsed(text, all, command)
  BY <1>1, <1>2, <1>3 DEF ParseCreate
<1> HIDE DEF command
<1> QED
  BY <1>7, <1>8, <1>9, ParsedIn

\* parse_show.
LEMMA ShowParsed ==
    ASSUME NEW text, IsText(text), NEW program, NEW p \in 1 .. Len(text) + 1
    PROVE  /\ ParseShow(program, text, p).at \in p .. Len(text) + 2
           /\ ParseShow(program, text, p).command
                 \in ShowCommands \cup {Invalid}
<1>1. PICK id : id = FirstNumber(program, text, p, LineEnd)
  OBVIOUS
<1>2. NumbersRead(text, p, 1, id)
  BY <1>1, FirstReads
<1> DEFINE command == [op |-> "show", id |-> id.values[1]]
<1>3. id.ok => command \in ShowCommands
  <2>1. id.ok => id.values[1] \in Uints
    <3> SUFFICES ASSUME id.ok PROVE id.values[1] \in Uints
      OBVIOUS
    <3>1. id.values \in Seq(Uints) /\ Len(id.values) = 1
      BY <1>2 DEF NumbersRead, Uints
    <3>2. \A n \in 1 .. 1 : id.values[n] \in Uints
      BY <3>1, ElementOfSeq
    <3> QED
      BY <3>2
  <2> QED
    BY <2>1 DEF ShowCommands
<1>4. ParseShow(program, text, p) = Parsed(text, id, command)
  BY <1>1 DEF ParseShow
<1> HIDE DEF command
<1> QED
  BY <1>2, <1>3, <1>4, ParsedIn

\* cleanup does not go back.
LEMMA CleanupOnwards ==
    ASSUME NEW text, IsText(text), NEW p \in 1 .. Len(text) + 1,
           NEW q \in Nat, p <= q
    PROVE  Cleanup(text, q) \in p .. Len(text) + 1
<1>1. /\ Cleanup(text, q) \in 1 .. Len(text) + 1
      /\ q <= Len(text) => Cleanup(text, q) >= q + 1
      /\ q >= Len(text) + 1 => Cleanup(text, q) = Len(text) + 1
  BY CleanupRange DEF IsText
<1> QED
  BY <1>1 DEF IsText

\* The first of the numbers that have been read.
LEMMA FirstUint ==
    ASSUME NEW text, NEW p, NEW n \in Nat, 1 <= n, NEW r,
           NumbersRead(text, p, n, r), r.ok
    PROVE  r.values[1] \in Uints /\ (n >= 2 => r.values[2] \in Uints)
<1>1. r.values \in Seq(Uints) /\ Len(r.values) = n
  BY DEF NumbersRead, Uints
<1>2. \A h \in 1 .. n : r.values[h] \in Uints
  BY <1>1, ElementOfSeq
<1> QED
  BY <1>2

\* parse_wait of projeto1, with or without a thread.
LEMMA WaitParsed ==
    ASSUME NEW text, IsText(text), NEW p \in 1 .. Len(text) + 1
    PROVE  /\ ParseWait(text, p).at \in p .. Len(text) + 2
           /\ ParseWait(text, p).command \in WaitCommands \cup {Invalid}
<1> DEFINE delay == FirstNumber(Jobs, text, p, {" "} \cup LineEnd)
           both  == Number(Jobs, text, delay, LineEnd)
           one   == Wait(delay.values[1], Everybody)
           two   == Wait(both.values[1], both.values[2])
           space == delay.ok /\ Char(text, delay.at - 1) = " "
<1>1. NumbersRead(text, p, 1, delay) /\ delay.at > p
  BY FirstReads, Zenon
<1>2. ParseWait(text, p) = IF space THEN Parsed(text, both, two)
                           ELSE Parsed(text, delay, one)
  BY DEF ParseWait
<1>3. ASSUME space PROVE NumbersRead(text, p, 2, both)
  <2> HIDE DEF delay
  <2>1. delay.at \in Nat /\ delay.at - 1 \in Nat /\ Len(text) \in Nat
    BY <1>1 DEF NumbersRead, IsText
  <2>2. delay.at - 1 <= Len(text)
    BY <1>3, <2>1, InText DEF Nul
  <2>3. delay.ok => delay.at <= Len(text) + 1
    BY <2>1, <2>2
  <2>4. p \in Nat \ {0} /\ 1 \in Nat /\ 1 + 1 = 2
    BY <2>1
  <2>5. NumbersRead(text, p, 1 + 1, both)
    BY <1>1, <2>3, <2>4, NumberReads, Zenon
  <2> QED
    BY <2>4, <2>5
<1> HIDE DEF delay, both
<1>4. delay.ok => one \in WaitCommands
  BY <1>1, FirstUint DEF WaitCommands, Wait
<1>5. space /\ both.ok => two \in WaitCommands
  <2> HIDE DEF space
  <2> SUFFICES ASSUME space, both.ok PROVE two \in WaitCommands
    OBVIOUS
  <2>1. NumbersRead(text, p, 2, both)
    BY <1>3
  <2>2. 2 \in Nat /\ 1 <= 2 /\ 2 >= 2
    OBVIOUS
  <2>3. both.values[1] \in Uints /\ both.values[2] \in Uints
    BY <2>1, <2>2, FirstUint
  <2> QED
    BY <2>3 DEF WaitCommands, Wait
<1> HIDE DEF one, two
<1>6. CASE space
  <2>1. ParseWait(text, p) = Parsed(text, both, two)
    BY <1>2, <1>6
  <2>2. both.ok => two \in WaitCommands
    BY <1>5, <1>6
  <2> QED
    BY <1>3, <1>6, <2>1, <2>2, ParsedIn
<1>7. CASE ~space
  <2>1. ParseWait(text, p) = Parsed(text, delay, one)
    BY <1>2, <1>7
  <2> QED
    BY <1>1, <1>4, <2>1, ParsedIn
<1> QED
  BY <1>6, <1>7

\* parse_wait of the client.
LEMMA ClientWaitParsed ==
    ASSUME NEW text, IsText(text), NEW p \in 1 .. Len(text) + 1
    PROVE  /\ ClientParseWait(text, p).at \in p .. Len(text) + 2
           /\ ClientParseWait(text, p).command \in WaitCommands \cup {Invalid}
<1> DEFINE delay == FirstNumber(Client, text, p, {" "} \cup LineEnd)
           wait  == Wait(delay.values[1], Everybody)
           space == delay.ok /\ Char(text, delay.at - 1) = " "
<1>1. NumbersRead(text, p, 1, delay) /\ delay.at > p
  BY FirstReads, Zenon
<1>2. ClientParseWait(text, p) =
          IF space THEN Reading(wait, Cleanup(text, delay.at))
          ELSE Parsed(text, delay, wait)
  BY DEF ClientParseWait
<1> HIDE DEF delay
<1>3. delay.ok => wait \in WaitCommands
  BY <1>1, FirstUint DEF WaitCommands, Wait
<1> HIDE DEF wait
<1>4. CASE space
  <2>1. delay.at \in Nat /\ p <= delay.at
    BY <1>1 DEF NumbersRead, IsText
  <2>2. Cleanup(text, delay.at) \in p .. Len(text) + 1
    BY <2>1, CleanupOnwards
  <2>3. Len(text) \in Nat
    BY DEF IsText
  <2>4. ClientParseWait(text, p) = Reading(wait, Cleanup(text, delay.at))
    BY <1>2, <1>4
  <2>5. /\ ClientParseWait(text, p).at = Cleanup(text, delay.at)
        /\ ClientParseWait(text, p).command = wait
    BY <2>4 DEF Reading
  <2>6. ClientParseWait(text, p).at \in p .. Len(text) + 2
    BY <2>2, <2>3, <2>5
  <2>7. wait \in WaitCommands
    BY <1>3, <1>4
  <2> QED
    BY <2>5, <2>6, <2>7
<1>5. CASE ~space
  <2>1. ClientParseWait(text, p) = Parsed(text, delay, wait)
    BY <1>2, <1>5
  <2> QED
    BY <1>1, <1>3, <2>1, ParsedIn
<1> QED
  BY <1>4, <1>5

------------------------------------------------------------------------------
(*****************************************************************************)
(* The seats of a RESERVE.                                                   *)
(*****************************************************************************)

\* What parse_reserve has after h turns of its loop.
SeatsRead(text, p, h, r) ==
    /\ r.at \in p .. Len(text) + 2
    /\ r.values \in Seq(SeatPairs) /\ Len(r.values) <= h
    /\ r.more \/ r.ok => r.at <= Len(text) + 1
    /\ r.ok => r.values # <<>>

\* A mistake ends the loop.
LEMMA StopRead ==
    ASSUME NEW text, NEW p, NEW h \in Nat, NEW at \in p .. Len(text) + 2
    PROVE  SeatsRead(text, p, h, Stop(at))
<1>1. ~Stop(at).more /\ ~Stop(at).ok
  BY DEF Stop
<1>2. Stop(at).at = at /\ Stop(at).values = <<>>
  BY DEF Stop
<1> QED
  BY <1>1, <1>2, EmptySeq DEF SeatsRead

\* Before the first turn.
LEMMA NothingRead ==
    ASSUME NEW text, IsText(text), NEW p \in 1 .. Len(text) + 1
    PROVE  SeatsRead(text, p, 0, NoSeats(p))
<1>1. NoSeats(p).at = p /\ NoSeats(p).values = <<>>
  BY DEF NoSeats
<1>2. ~NoSeats(p).ok
  BY DEF NoSeats
<1>3. p \in p .. Len(text) + 1 /\ Len(text) \in Nat
  BY DEF IsText
<1> QED
  BY <1>1, <1>2, <1>3, EmptySeq DEF SeatsRead

\* The two numbers of a seat.
LEMMA PairRead ==
    ASSUME NEW text, IsText(text), NEW program, NEW p \in 1 .. Len(text) + 1
    PROVE  LET x    == FirstNumber(program, text, p, {","})
               pair == Number(program, text, x, {")"})
           IN  /\ NumbersRead(text, p, 2, pair)
               /\ pair.ok => pair.at <= Len(text) + 1
<1> DEFINE x    == FirstNumber(program, text, p, {","})
           pair == Number(program, text, x, {")"})
<1>1. /\ p \in Nat \ {0} /\ 1 \in Nat /\ 1 + 1 = 2
      /\ Nul \notin {","} /\ Nul \notin {")"}
  BY DEF IsText, Nul
<1>2. NumbersRead(text, p, 1, x) /\ (x.ok => x.at <= Len(text) + 1)
  BY <1>1, FirstReads, Zenon
<1> HIDE DEF x
<1>3. /\ NumbersRead(text, p, 1 + 1, pair)
      /\ pair.ok => pair.at <= Len(text) + 1
  BY <1>1, <1>2, NumberReads, NumberGoesOn, Zenon
<1> QED
  BY <1>1, <1>3 DEF x

\* One turn: a seat more, or the end of the loop.
LEMMA CoordinateRead ==
    ASSUME NEW text, IsText(text), NEW program, NEW p \in 1 .. Len(text) + 1,
           NEW h \in Nat, NEW before, SeatsRead(text, p, h, before)
    PROVE  SeatsRead(text, p, h + 1, Coordinate(program, text, before))
<1> DEFINE x     == FirstNumber(program, text, before.at + 1, {","})
           pair  == Number(program, text, x, {")"})
           next  == Char(text, pair.at)
           after == [ok |-> next = "]", more |-> next = " ",
                     values |-> Append(before.values,
                                       <<pair.values[1], pair.values[2]>>),
                     at |-> pair.at + 1]
<1> DEFINE s == Coordinate(program, text, before)
<1>1. /\ before.at \in Nat /\ Len(text) \in Nat
      /\ before.at \in p .. Len(text) + 2
      /\ before.values \in Seq(SeatPairs) /\ Len(before.values) <= h
  BY DEF SeatsRead, IsText
<1>2. CASE ~before.more
  <2>1. s = before
    BY <1>2 DEF Coordinate, Paired
  <2>2. SeatsRead(text, p, h + 1, before)
    <3>1. Len(before.values) <= h + 1
      BY <1>1, LenProperties
    <3> QED
      BY <3>1 DEF SeatsRead
  <2> HIDE DEF s
  <2>3. SeatsRead(text, p, h + 1, s)
    BY <2>1, <2>2
  <2> QED
    BY <2>3 DEF s
<1>3. CASE before.more /\ Char(text, before.at) # "("
  <2>1. Coordinate(program, text, before) = Stop(before.at + 1)
    BY <1>3 DEF Coordinate, Paired
  <2>2. before.at + 1 \in p .. Len(text) + 2
    BY <1>1, <1>3 DEF SeatsRead
  <2> QED
    BY <2>1, <2>2, StopRead
<1>4. CASE before.more /\ Char(text, before.at) = "("
  <2>1. before.at <= Len(text)
    BY <1>1, <1>4, InText DEF Nul
  <2>2. before.at + 1 \in 1 .. Len(text) + 1
    BY <1>1, <2>1
  <2>3. /\ NumbersRead(text, before.at + 1, 2, pair)
        /\ pair.ok => pair.at <= Len(text) + 1
    BY <2>2, PairRead, Zenon
  <2>4. s = IF ~pair.ok THEN Stop(pair.at)
            ELSE IF next \notin {" ", "]"} THEN Stop(pair.at + 1) ELSE after
    BY <1>4 DEF Coordinate, Paired
  <2> HIDE DEF s, pair
  <2>5. pair.at \in p .. Len(text) + 2 /\ pair.at \in Nat
    BY <1>1, <2>3 DEF NumbersRead
  <2>6. CASE ~pair.ok
    <3>1. s = Stop(pair.at)
      BY <2>4, <2>6
    <3> QED
      BY <2>5, <3>1, StopRead DEF s
  <2>7. CASE pair.ok /\ next \notin {" ", "]"}
    <3>1. s = Stop(pair.at + 1)
      BY <2>4, <2>7
    <3> HIDE DEF next
    <3>3. pair.at <= Len(text) + 1
      BY <2>3, <2>7
    <3>2. pair.at + 1 \in p .. Len(text) + 2
      BY <1>1, <2>5, <3>3
    <3> QED
      BY <3>1, <3>2, StopRead DEF s
  <2>8. CASE pair.ok /\ next \in {" ", "]"}
    <3>1. s = after
      BY <2>4, <2>8
    <3>2. pair.at <= Len(text)
      BY <2>5, <2>8, InText DEF Nul
    <3> DEFINE seat == <<pair.values[1], pair.values[2]>>
    <3>3. seat \in SeatPairs
      <4>1. 2 \in Nat /\ 1 <= 2 /\ 2 >= 2
        OBVIOUS
      <4>2. pair.values[1] \in Uints /\ pair.values[2] \in Uints
        BY <2>3, <2>8, <4>1, FirstUint, Zenon
      <4> QED
        BY <4>2 DEF SeatPairs
    <3> HIDE DEF seat, next
    <3>4. after.values = Append(before.values, seat) /\ after.at = pair.at + 1
      BY DEF seat
    <3> HIDE DEF after
    <3>5. /\ Append(before.values, seat) \in Seq(SeatPairs)
          /\ Len(Append(before.values, seat)) = Len(before.values) + 1
          /\ Append(before.values, seat) # <<>>
      BY <1>1, <3>3, AppendProperties
    <3>6. Len(before.values) \in Nat
      BY <1>1, LenProperties
    <3>7. Len(text) \in Nat /\ pair.at + 1 \in p .. Len(text) + 1
      BY <1>1, <2>5, <3>2
    <3>8. after.values \in Seq(SeatPairs) /\ after.values # <<>>
      BY <3>4, <3>5
    <3>9. Len(after.values) <= h + 1
      <4>1. Len(before.values) <= h
        BY <1>1 DEF SeatsRead
      <4> QED
        BY <1>1, <3>4, <3>5, <3>6, <4>1
    <3>10. after.at \in p .. Len(text) + 2 /\ after.at <= Len(text) + 1
      BY <1>1, <3>4, <3>7
    <3>11. SeatsRead(text, p, h + 1, after)
      BY <3>8, <3>9, <3>10 DEF SeatsRead
    <3> QED
      BY <3>1, <3>11 DEF s
  <2> QED
    BY <2>6, <2>7, <2>8
<1> QED
  BY <1>2, <1>3, <1>4

\* The turns of the loop of parse_reserve.
LEMMA CoordinatesTurn ==
    ASSUME NEW text, NEW program, NEW p
    PROVE  \E f : /\ ReadCoordinates(program, text, p) = f[MaxReservation]
                  /\ \A h \in 0 .. MaxReservation :
                        f[h] = IF h = 0 THEN NoSeats(p)
                               ELSE Coordinate(program, text, f[h - 1])
<1> DEFINE Def(f, n) ==
               f = [h \in 0 .. n |->
                       IF h = 0 THEN NoSeats(p)
                       ELSE Coordinate(program, text, f[h - 1])]
           Good(n) == \E f : Def(f, n)
           T == {n \in Nat : Good(n)}
<1>1. 0 \in T
  <2> DEFINE f == [h \in 0 .. 0 |-> NoSeats(p)]
  <2>1. Def(f, 0)
    OBVIOUS
  <2> QED
    BY <2>1
<1>2. ASSUME NEW n \in Nat, n \in T PROVE n + 1 \in T
  <2>1. PICK f : Def(f, n)
    BY <1>2
  <2> DEFINE last == Coordinate(program, text, f[n])
             g == [h \in 0 .. n + 1 |-> IF h = n + 1 THEN last ELSE f[h]]
  <2>2. ASSUME NEW h \in 0 .. n + 1
        PROVE  g[h] = IF h = 0 THEN NoSeats(p)
                      ELSE Coordinate(program, text, g[h - 1])
    <3>1. CASE h = n + 1
      <4>1. h # 0 /\ h - 1 = n /\ n \in 0 .. n + 1 /\ n # n + 1
        BY <3>1
      <4>2. g[h] = last /\ g[h - 1] = f[n]
        BY <3>1, <4>1
      <4> QED
        BY <4>1, <4>2
    <3>2. CASE h # n + 1
      <4>1. h \in 0 .. n /\ (h # 0 => h - 1 \in 0 .. n + 1 /\ h - 1 # n + 1)
        BY <3>2
      <4>2. f[h] = IF h = 0 THEN NoSeats(p)
                   ELSE Coordinate(program, text, f[h - 1])
        <5> HIDE DEF g
        <5> QED
          BY <2>1, <4>1
      <4>3. g[h] = f[h] /\ (h # 0 => g[h - 1] = f[h - 1])
        BY <3>2, <4>1
      <4> QED
        BY <4>1, <4>2, <4>3
    <3> QED
      BY <3>1, <3>2
  <2>3. Def(g, n + 1)
    BY <2>2
  <2> HIDE DEF g, Def
  <2> QED
    BY <2>3
<1>3. Good(MaxReservation)
  <2> HIDE DEF Good
  <2> QED
    BY <1>1, <1>2, Induction, ParserAssumption
<1> DEFINE Read == CHOOSE f : Def(f, MaxReservation)
<1>4. ReadCoordinates(program, text, p) = Read[MaxReservation]
  BY DEF ReadCoordinates
<1>5. Def(Read, MaxReservation)
  <2> HIDE DEF Def
  <2> QED
    BY <1>3
<1>6. \A h \in 0 .. MaxReservation :
         Read[h] = IF h = 0 THEN NoSeats(p)
                   ELSE Coordinate(program, text, Read[h - 1])
  <2> HIDE DEF Read
  <2> QED
    BY <1>5
<1> HIDE DEF Read
<1> QED
  BY <1>4, <1>6

\* All turns.
LEMMA CoordinatesRead ==
    ASSUME NEW text, IsText(text), NEW program, NEW p \in 1 .. Len(text) + 1
    PROVE  SeatsRead(text, p, MaxReservation,
                     ReadCoordinates(program, text, p))
<1>4. PICK Read :
          /\ ReadCoordinates(program, text, p) = Read[MaxReservation]
          /\ \A h \in 0 .. MaxReservation :
                Read[h] = IF h = 0 THEN NoSeats(p)
                          ELSE Coordinate(program, text, Read[h - 1])
  BY CoordinatesTurn
<1> DEFINE U == {h \in Nat : h <= MaxReservation =>
                                 SeatsRead(text, p, h, Read[h])}
<1>7. 0 \in U
  <2>1. Read[0] = NoSeats(p)
    BY <1>4, ParserAssumption
  <2> QED
    BY <2>1, NothingRead
<1>8. ASSUME NEW h \in Nat, h \in U PROVE h + 1 \in U
  <2> SUFFICES ASSUME h + 1 <= MaxReservation
               PROVE  SeatsRead(text, p, h + 1, Read[h + 1])
    OBVIOUS
  <2>1. h + 1 \in 0 .. MaxReservation /\ h + 1 # 0 /\ (h + 1) - 1 = h
    BY ParserAssumption
  <2>2. Read[h + 1] = Coordinate(program, text, Read[h])
    BY <1>4, <2>1
  <2>3. SeatsRead(text, p, h, Read[h])
    BY <1>8, ParserAssumption
  <2> QED
    BY <2>2, <2>3, CoordinateRead
<1>9. MaxReservation \in U
  BY <1>7, <1>8, Induction, ParserAssumption
<1> QED
  BY <1>4, <1>9, ParserAssumption

\* The seats of a well-formed RESERVE: one at least, and fewer than the arrays
\* of the parser hold.
LEMMA SeatsFit ==
    ASSUME NEW text, IsText(text), NEW program, NEW p \in 1 .. Len(text) + 1
    PROVE  LET seats == Coordinates(program, text, p)
           IN  /\ seats.at \in p .. Len(text) + 2
               /\ seats.ok => /\ seats.values \in SeatLists
                              /\ seats.at <= Len(text) + 1
<1> DEFINE r == ReadCoordinates(program, text, p)
           seats == Coordinates(program, text, p)
<1>1. SeatsRead(text, p, MaxReservation, r)
  BY CoordinatesRead
<1> HIDE DEF r
<1>2. r.at \in p .. Len(text) + 2
  BY <1>1 DEF SeatsRead
<1>3. CASE Len(r.values) = MaxReservation
  <2>1. seats = Stop(r.at)
    BY <1>3 DEF Coordinates, Bounded, r
  <2>2. Stop(r.at).at = r.at
    BY DEF Stop
  <2>3. ~Stop(r.at).ok
    BY DEF Stop
  <2> QED
    BY <1>2, <2>1, <2>2, <2>3
<1>4. CASE Len(r.values) # MaxReservation
  <2>1. seats = r
    BY <1>4 DEF Coordinates, Bounded, r
  <2>2. ASSUME r.ok PROVE r.values \in SeatLists /\ r.at <= Len(text) + 1
    <3>1. /\ r.values \in Seq(SeatPairs) /\ r.values # <<>>
          /\ Len(r.values) <= MaxReservation /\ r.at <= Len(text) + 1
      BY <1>1, <2>2 DEF SeatsRead
    <3>2. Len(r.values) \in Nat /\ Len(r.values) # 0
      BY <3>1, LenProperties, EmptySeq
    <3>3. Len(r.values) \in 1 .. MaxReservation - 1
      BY <1>4, <3>1, <3>2, ParserAssumption
    <3> QED
      BY <3>1, <3>3 DEF SeatLists
  <2> HIDE DEF seats
  <2> QED
    BY <1>2, <2>1, <2>2 DEF seats
<1> QED
  BY <1>3, <1>4

\* parse_reserve, before the seats are sorted.
LEMMA ReserveParsed ==
    ASSUME NEW text, IsText(text), NEW program, NEW p \in 1 .. Len(text) + 1
    PROVE  /\ ParseReserve(program, text, p).at \in p .. Len(text) + 2
           /\ ParseReserve(program, text, p).command
                 \in ReserveCommands \cup {Invalid}
<1> DEFINE id == FirstNumber(program, text, p, {" "})
           seats == Coordinates(program, text, id.at + 1)
           command == [op |-> "reserve", id |-> id.values[1],
                       seats |-> seats.values]
           Fits(r) == /\ r.at \in p .. Len(text) + 2
                      /\ r.command \in ReserveCommands \cup {Invalid}
           s == ParseReserve(program, text, p)
<1>1. NumbersRead(text, p, 1, id) /\ id.at > p
      /\ (id.ok => id.at <= Len(text) + 1)
  BY FirstReads, Zenon DEF Nul
<1>2. id.at \in p .. Len(text) + 2 /\ Len(text) \in Nat
  BY <1>1 DEF NumbersRead, IsText
<1>3. ASSUME NEW q \in Nat, p <= q
      PROVE  Fits(Reading(Invalid, Cleanup(text, q)))
  <2>1. Cleanup(text, q) \in p .. Len(text) + 1
    BY <1>3, CleanupOnwards
  <2>2. Cleanup(text, q) \in p .. Len(text) + 2
    BY <2>1 DEF IsText
  <2> QED
    BY <2>2 DEF Reading
<1>4. s = IF ~id.ok THEN Reading(Invalid, Cleanup(text, id.at))
          ELSE IF Char(text, id.at) # "["
          THEN Reading(Invalid, Cleanup(text, id.at + 1))
          ELSE IF ~seats.ok THEN Reading(Invalid, Cleanup(text, seats.at))
          ELSE IF Char(text, seats.at) # "\n"
          THEN Reading(Invalid, Cleanup(text, seats.at + 1))
          ELSE Reading(command, seats.at + 1)
  BY DEF ParseReserve, Reserve
<1> HIDE DEF id, s, Fits
<1>5. CASE ~id.ok
  <2>1. s = Reading(Invalid, Cleanup(text, id.at))
    BY <1>4, <1>5
  <2> QED
    BY <1>2, <1>3, <2>1 DEF s, Fits
<1>6. CASE id.ok /\ Char(text, id.at) # "["
  <2>1. s = Reading(Invalid, Cleanup(text, id.at + 1))
    BY <1>4, <1>6
  <2> QED
    BY <1>2, <1>3, <2>1 DEF s, Fits
<1>7. CASE id.ok /\ Char(text, id.at) = "["
  <2>1. id.at \in Nat
    BY <1>2
  <2>2. id.at <= Len(text)
    BY <1>7, <2>1, InText DEF Nul
  <2>3. id.at + 1 \in 1 .. Len(text) + 1
    BY <1>2, <2>1, <2>2
  <2>4. /\ seats.at \in id.at + 1 .. Len(text) + 2
        /\ seats.ok => seats.values \in SeatLists /\ seats.at <= Len(text) + 1
    BY <2>3, SeatsFit, Zenon
  <2>5. s = IF ~seats.ok THEN Reading(Invalid, Cleanup(text, seats.at))
            ELSE IF Char(text, seats.at) # "\n"
            THEN Reading(Invalid, Cleanup(text, seats.at + 1))
            ELSE Reading(command, seats.at + 1)
    BY <1>4, <1>7
  <2> HIDE DEF seats
  <2>6. seats.at \in Nat /\ p <= seats.at /\ p <= seats.at + 1
    BY <1>2, <2>1, <2>4
  <2>7. CASE ~seats.ok
    <3>1. s = Reading(Invalid, Cleanup(text, seats.at))
      BY <2>5, <2>7
    <3> QED
      BY <1>3, <2>6, <3>1 DEF s, Fits
  <2>8. CASE seats.ok /\ Char(text, seats.at) # "\n"
    <3>1. s = Reading(Invalid, Cleanup(text, seats.at + 1))
      BY <2>5, <2>8
    <3> QED
      BY <1>3, <2>6, <3>1 DEF s, Fits
  <2>9. CASE seats.ok /\ Char(text, seats.at) = "\n"
    <3>1. s = Reading(command, seats.at + 1)
      BY <2>5, <2>9
    <3>2. seats.values \in SeatLists
      BY <2>4, <2>9
    <3>3. id.values[1] \in Uints
      BY <1>1, <1>7, FirstUint
    <3>4. command \in ReserveCommands
      BY <3>2, <3>3 DEF ReserveCommands
    <3>5. seats.at <= Len(text) + 1
      BY <2>4, <2>9
    <3>6. seats.at + 1 \in p .. Len(text) + 2
      BY <1>2, <2>6, <3>5
    <3> HIDE DEF command
    <3>7. s.at = seats.at + 1 /\ s.command = command
      BY <3>1 DEF Reading
    <3> QED
      BY <3>4, <3>6, <3>7 DEF s
  <2> QED
    BY <2>7, <2>8, <2>9
<1> QED
  BY <1>5, <1>6, <1>7

\* The places of the seats 1 .. n in ascending order.
Arranges(seats, n, q) ==
    /\ q \in [1 .. n -> 1 .. n]
    /\ \A j, h \in 1 .. n :
          j < h => q[j] # q[h] /\ ~Before(seats[q[h]], seats[q[j]])

\* compare_coordinates is an order.
LEMMA BeforeOrders ==
    ASSUME NEW a \in SeatPairs, NEW b \in SeatPairs, NEW c \in SeatPairs
    PROVE  /\ Before(a, b) /\ Before(b, c) => Before(a, c)
           /\ ~(Before(a, b) /\ Before(b, a))
<1>1. /\ {a[1], a[2], b[1], b[2], c[1], c[2]} \subseteq Int
  BY ParserAssumption DEF SeatPairs, Uints
<1> QED
  BY <1>1 DEF Before

\* One more seat is put before the first one that is greater.
LEMMA Insertion ==
    ASSUME NEW seats, NEW n \in Nat,
           \A h \in 1 .. n + 1 : seats[h] \in SeatPairs,
           NEW q, Arranges(seats, n, q)
    PROVE  \E r : Arranges(seats, n + 1, r)
<1> DEFINE e == seats[n + 1]
           Later == {h \in 1 .. n + 1 : h <= n => Before(e, seats[q[h]])}
<1>1. PICK x \in Later : \A h \in Later : x <= h
  <2>1. Later \subseteq Nat /\ n + 1 \in Later
    OBVIOUS
  <2> HIDE DEF Later
  <2> QED
    BY <2>1, LeastExists
<1>2. /\ x \in 1 .. n + 1
      /\ x <= n => Before(e, seats[q[x]])
      /\ \A h \in 1 .. n : h < x => ~Before(e, seats[q[h]])
  <2>1. x \in 1 .. n + 1 /\ (x <= n => Before(e, seats[q[x]]))
    OBVIOUS
  <2>2. ASSUME NEW h \in 1 .. n, h < x PROVE ~Before(e, seats[q[h]])
    <3>1. h \notin Later
      BY <1>1, <2>1, <2>2
    <3> QED
      BY <3>1
  <2> QED
    BY <2>1, <2>2
<1>3. /\ \A h \in 1 .. n : q[h] \in 1 .. n /\ q[h] # n + 1
      /\ \A h \in 1 .. n : seats[q[h]] \in SeatPairs
      /\ e \in SeatPairs
      /\ \A j, h \in 1 .. n :
            j < h => q[j] # q[h] /\ ~Before(seats[q[h]], seats[q[j]])
  <2>1. \A h \in 1 .. n : q[h] \in 1 .. n
    BY DEF Arranges
  <2>2. \A h \in 1 .. n : q[h] \in 1 .. n + 1 /\ q[h] # n + 1
    BY <2>1
  <2> QED
    BY <2>1, <2>2 DEF Arranges
<1> DEFINE r == [h \in 1 .. n + 1 |-> IF h < x THEN q[h]
                                      ELSE IF h = x THEN n + 1 ELSE q[h - 1]]
<1> HIDE DEF e
<1>4. ASSUME NEW h \in 1 .. n + 1
      PROVE  /\ h < x => h \in 1 .. n /\ r[h] = q[h]
             /\ h = x => r[h] = n + 1
             /\ h > x => h - 1 \in 1 .. n /\ h - 1 >= x /\ r[h] = q[h - 1]
  BY <1>2
<1>5. r \in [1 .. n + 1 -> 1 .. n + 1]
  <2>1. \A h \in 1 .. n + 1 : r[h] \in 1 .. n + 1
    <3> TAKE h \in 1 .. n + 1
    <3>1. \A m \in 1 .. n : q[m] \in 1 .. n + 1
      BY <1>3
    <3>2. n + 1 \in 1 .. n + 1
      OBVIOUS
    <3>3. h < x \/ h = x \/ h > x
      BY <1>2
    <3> HIDE DEF r
    <3> QED
      BY <1>4, <3>1, <3>2, <3>3
  <2>2. r = [h \in 1 .. n + 1 |-> r[h]]
    OBVIOUS
  <2> HIDE DEF r
  <2> QED
    BY <2>1, <2>2
<1> HIDE DEF r
<1>6. ASSUME NEW j \in 1 .. n + 1, NEW h \in 1 .. n + 1, j < h
      PROVE  r[j] # r[h] /\ ~Before(seats[r[h]], seats[r[j]])
  <2>1. CASE h < x
    <3>1. j < x /\ j \in 1 .. n /\ h \in 1 .. n /\ r[j] = q[j] /\ r[h] = q[h]
      BY <1>2, <1>4, <1>6, <2>1
    <3> QED
      BY <1>3, <1>6, <3>1
  <2>2. CASE h = x
    <3>1. j < x /\ j \in 1 .. n /\ r[j] = q[j] /\ r[h] = n + 1
      BY <1>2, <1>4, <1>6, <2>2
    <3> QED
      BY <1>2, <1>3, <3>1 DEF e
  <2>3. CASE j < x /\ x < h
    <3>1. /\ j \in 1 .. n /\ h - 1 \in 1 .. n /\ j < h - 1
          /\ r[j] = q[j] /\ r[h] = q[h - 1]
      BY <1>2, <1>4, <1>6, <2>3
    <3> QED
      BY <1>3, <3>1
  <2>4. CASE j = x
    <3>1. /\ h - 1 \in 1 .. n /\ x <= h - 1 /\ x \in 1 .. n
          /\ r[j] = n + 1 /\ r[h] = q[h - 1]
      BY <1>2, <1>4, <1>6, <2>4
    <3>2. Before(e, seats[q[x]])
      BY <1>2, <3>1
    <3>3. x < h - 1 \/ x = h - 1
      BY <3>1
    <3>4. x < h - 1 => ~Before(seats[q[h - 1]], seats[q[x]])
      BY <1>3, <3>1
    <3>5. ~Before(seats[q[h - 1]], e)
      BY <1>3, <3>1, <3>2, <3>3, <3>4, BeforeOrders
    <3> QED
      BY <1>3, <3>1, <3>5 DEF e
  <2>5. CASE x < j
    <3>1. /\ j - 1 \in 1 .. n /\ h - 1 \in 1 .. n /\ j - 1 < h - 1
          /\ r[j] = q[j - 1] /\ r[h] = q[h - 1]
      BY <1>2, <1>4, <1>6, <2>5
    <3> QED
      BY <1>3, <3>1
  <2> QED
    BY <1>2, <1>6, <2>1, <2>2, <2>3, <2>4, <2>5
<1> QED
  BY <1>5, <1>6 DEF Arranges

\* Any list of seats can be sorted.
LEMMA Arrangement ==
    ASSUME NEW seats, NEW m \in Nat, \A h \in 1 .. m : seats[h] \in SeatPairs
    PROVE  \E q : Arranges(seats, m, q)
<1> DEFINE T == {n \in Nat : n <= m => \E q : Arranges(seats, n, q)}
<1>1. 0 \in T
  <2> DEFINE q == [h \in 1 .. 0 |-> h]
  <2>1. Arranges(seats, 0, q)
    BY DEF Arranges
  <2> QED
    BY <2>1
<1>2. ASSUME NEW n \in Nat, n \in T PROVE n + 1 \in T
  <2> SUFFICES ASSUME n + 1 <= m PROVE \E q : Arranges(seats, n + 1, q)
    OBVIOUS
  <2>1. PICK q : Arranges(seats, n, q)
    BY <1>2
  <2>2. \A h \in 1 .. n + 1 : seats[h] \in SeatPairs
    OBVIOUS
  <2> QED
    BY <2>1, <2>2, Insertion
<1>3. m \in T
  <2> HIDE DEF T
  <2> QED
    BY <1>1, <1>2, Induction
<1> QED
  BY <1>3

\* The seats of the RESERVE that the threads of projeto1 run are those of the
\* text, each once, in ascending order.
THEOREM SeatsSorted ==
    ASSUME NEW c, c \in ReserveCommands
    PROVE  /\ Sorted(c) \in ReserveCommands /\ Sorted(c).id = c.id
           /\ \A j, h \in DOMAIN c.seats :
                 j < h => ~Before(Sorted(c).seats[h], Sorted(c).seats[j])
           /\ \E q \in [DOMAIN c.seats -> DOMAIN c.seats] :
                 /\ \A j, h \in DOMAIN c.seats : j # h => q[j] # q[h]
                 /\ Sorted(c).seats = [h \in DOMAIN c.seats |-> c.seats[q[h]]]
<1>1. PICK id \in Uints, seats \in SeatLists :
          c = [op |-> "reserve", id |-> id, seats |-> seats]
  BY DEF ReserveCommands
<1> DEFINE m == Len(seats)
           q == Ascending(seats)
           sorted == [h \in 1 .. m |-> seats[q[h]]]
<1>2. /\ seats \in Seq(SeatPairs) /\ m \in Nat /\ DOMAIN seats = 1 .. m
      /\ m \in 1 .. MaxReservation - 1
  BY LenProperties DEF SeatLists
<1>3. \A h \in 1 .. m : seats[h] \in SeatPairs
  BY <1>2, ElementOfSeq
<1>4. Arranges(seats, m, q)
  <2>1. PICK r : Arranges(seats, m, r)
    BY <1>2, <1>3, Arrangement
  <2> QED
    BY <1>2, <2>1 DEF Ascending, Arranges
<1>5. Sorted(c) = [op |-> "reserve", id |-> id, seats |-> sorted]
  BY <1>1, <1>2 DEF Sorted
<1> HIDE DEF q
<1>6. sorted \in SeatLists
  <2>1. \A h \in 1 .. m : sorted[h] \in SeatPairs
    BY <1>3, <1>4 DEF Arranges
  <2>2. sorted \in [1 .. m -> SeatPairs]
    BY <2>1
  <2> HIDE DEF sorted
  <2>3. sorted \in Seq(SeatPairs) /\ Len(sorted) = m
    BY <1>2, <2>2, SeqDef, LenProperties
  <2> QED
    BY <1>2, <2>3 DEF SeatLists
<1>7. \A j, h \in 1 .. m :
         j < h => q[j] # q[h] /\ ~Before(sorted[h], sorted[j])
  BY <1>4 DEF Arranges
<1>8. q \in [1 .. m -> 1 .. m] /\ \A j, h \in 1 .. m : j # h => q[j] # q[h]
  <2>1. \A j, h \in 1 .. m : j # h => j < h \/ h < j
    BY <1>2
  <2> QED
    BY <1>4, <1>7, <2>1 DEF Arranges
<1>9. /\ c.seats = seats /\ c.id = id
      /\ Sorted(c).seats = sorted /\ Sorted(c).id = id
  BY <1>1, <1>5
<1>10. Sorted(c) \in ReserveCommands
  BY <1>5, <1>6 DEF ReserveCommands
<1>11. sorted = [h \in 1 .. m |-> c.seats[q[h]]]
  BY <1>9
<1> HIDE DEF sorted
<1>12. DOMAIN c.seats = 1 .. m
  BY <1>2, <1>9
<1> HIDE DEF m
<1>13. \E a \in [DOMAIN c.seats -> DOMAIN c.seats] :
          /\ \A j, h \in DOMAIN c.seats : j # h => a[j] # a[h]
          /\ Sorted(c).seats = [h \in DOMAIN c.seats |-> c.seats[a[h]]]
  <2>1. Sorted(c).seats = [h \in 1 .. m |-> c.seats[q[h]]]
    BY <1>9, <1>11
  <2>2. /\ q \in [DOMAIN c.seats -> DOMAIN c.seats]
        /\ \A j, h \in DOMAIN c.seats : j # h => q[j] # q[h]
    BY <1>8, <1>12
  <2>3. Sorted(c).seats = [h \in DOMAIN c.seats |-> c.seats[q[h]]]
    BY <1>12, <2>1
  <2> QED
    BY <2>2, <2>3, Zenon
<1>14. \A j, h \in DOMAIN c.seats :
          j < h => ~Before(Sorted(c).seats[h], Sorted(c).seats[j])
  BY <1>7, <1>9, <1>12
<1> QED
  BY <1>9, <1>10, <1>13, <1>14

------------------------------------------------------------------------------
(*****************************************************************************)
(* get_next, and the commands that it leads to.                              *)
(*****************************************************************************)

HeadWords == {"CREATE ", "RESERVE ", "SHOW ", "WAIT "}
LoneWords == {"LIST", "BARRIER", "HELP"}

\* The words that a program looks for are some of those of projeto1.
AreWords(words) ==
    \A first \in DOMAIN words :
        first \in DOMAIN JobWords /\ words[first] = JobWords[first]

\* The words of the two programs.
LEMMA WordsAre ==
    /\ AreWords(JobWords) /\ AreWords(ClientWords)
    /\ \A first \in DOMAIN JobWords :
          JobWords[first] \in HeadWords \cup LoneWords
    /\ \A first \in DOMAIN ClientWords : first # "B"
    /\ \A first \in DOMAIN JobWords \ {"B"} : first \in DOMAIN ClientWords
<1>1. DOMAIN JobWords = {"C", "R", "S", "L", "B", "W", "H"}
  BY DEF JobWords
<1>2. DOMAIN ClientWords = DOMAIN JobWords \ {"B"}
  BY DEF ClientWords
<1>3. \A first \in DOMAIN ClientWords : ClientWords[first] = JobWords[first]
  BY <1>2 DEF ClientWords
<1>4. /\ JobWords["C"] = "CREATE " /\ JobWords["R"] = "RESERVE "
      /\ JobWords["S"] = "SHOW " /\ JobWords["L"] = "LIST"
      /\ JobWords["B"] = "BARRIER" /\ JobWords["W"] = "WAIT "
      /\ JobWords["H"] = "HELP"
  BY DEF JobWords
<1>5. \A first \in DOMAIN JobWords :
         JobWords[first] \in HeadWords \cup LoneWords
  BY <1>1, <1>4 DEF HeadWords, LoneWords
<1> QED
  BY <1>2, <1>3, <1>5 DEF AreWords

\* What get_next makes of a line: nothing, or a word and what follows it.
WordRead(text, p, r) ==
    /\ r.at \in p + 1 .. Len(text) + 2
    /\ \/ r.command \in {Empty, Invalid}
       \/ \E word \in LoneWords : r.command = [op |-> word]
       \/ /\ \E word \in HeadWords : r.command = [op |-> word]
          /\ r.at <= Len(text) + 1 /\ Char(text, r.at - 1) # "\n"

\* A word that matches ends within the text.
LEMMA WordFits ==
    ASSUME NEW text, IsText(text), NEW p \in 1 .. Len(text),
           NEW first \in DOMAIN JobWords,
           \A h \in 1 .. Len(JobWords[first]) :
              Char(text, p + h - 1) = Char(JobWords[first], h)
    PROVE  /\ p + Len(JobWords[first]) \in p + 1 .. Len(text) + 1
           /\ Char(text, p + Len(JobWords[first]) - 1) \notin LineEnd
<1> DEFINE n == Len(JobWords[first])
<1>1. /\ n \in Nat \ {0}
      /\ \A h \in 1 .. n : Char(JobWords[first], h) \notin LineEnd
  BY WordsAssumption
<1>2. n \in 1 .. n
  BY <1>1
<1>3. Char(text, p + n - 1) \notin LineEnd
  BY <1>1, <1>2
<1> HIDE DEF n
<1>4. p + n - 1 \in Nat /\ Len(text) \in Nat
  BY <1>1 DEF IsText
<1>5. p + n - 1 <= Len(text)
  BY <1>3, <1>4, InText DEF LineEnd
<1>6. p + n \in p + 1 .. Len(text) + 1
  BY <1>1, <1>4, <1>5
<1> QED
  BY <1>3, <1>6 DEF n

\* get_next ends as WordRead says, whatever the text.
LEMMA GetNextReads ==
    ASSUME NEW text, IsText(text), NEW words, AreWords(words),
           NEW p \in 1 .. Len(text)
    PROVE  WordRead(text, p, GetNext(words, text, p))
<1> DEFINE first == Char(text, p)
           word  == words[first]
           after == p + Len(word)
           s     == GetNext(words, text, p)
           differs == \E h \in 1 .. Len(word) :
                          Char(text, p + h - 1) # Char(word, h)
<1>0. Len(text) \in Nat
  BY DEF IsText
<1>1. WordRead(text, p, Reading(Empty, p + 1))
  <2>1. p + 1 \in p + 1 .. Len(text) + 2
    BY <1>0
  <2> QED
    BY <2>1 DEF WordRead, Reading
<1>2. ASSUME NEW q \in Nat, p + 1 <= q, NEW command \in {Empty, Invalid}
      PROVE  WordRead(text, p, Reading(command, Cleanup(text, q)))
  <2>1. p + 1 \in 1 .. Len(text) + 1
    BY <1>0
  <2>2. Cleanup(text, q) \in p + 1 .. Len(text) + 1
    BY <1>2, <2>1, CleanupOnwards
  <2>3. Cleanup(text, q) \in p + 1 .. Len(text) + 2
    BY <1>0, <2>2
  <2> QED
    BY <2>3 DEF WordRead, Reading
<1>3. p + 1 \in Nat /\ p + 1 <= p + 1 /\ {Empty, Invalid} = {Invalid, Empty}
  BY <1>0
<1>4. s = IF first = "\n" THEN Reading(Empty, p + 1)
          ELSE IF first = "#" THEN Reading(Empty, Cleanup(text, p + 1))
          ELSE IF first \notin DOMAIN words
          THEN Reading(Invalid, Cleanup(text, p + 1))
          ELSE IF differs THEN Reading(Invalid, Cleanup(text, after))
          ELSE IF word \notin WordsAlone THEN Reading([op |-> word], after)
          ELSE IF Char(text, after) \in LineEnd
          THEN Reading([op |-> word], after + 1)
          ELSE Reading(Invalid, Cleanup(text, after + 1))
  BY DEF GetNext
<1> HIDE DEF s
<1>5. CASE first = "\n"
  <2>1. s = Reading(Empty, p + 1)
    BY <1>4, <1>5
  <2> QED
    BY <1>1, <2>1 DEF s
<1>6. CASE first # "\n" /\ (first = "#" \/ first \notin DOMAIN words)
  <2>1. \/ s = Reading(Empty, Cleanup(text, p + 1))
        \/ s = Reading(Invalid, Cleanup(text, p + 1))
    BY <1>4, <1>6
  <2>2. /\ WordRead(text, p, Reading(Empty, Cleanup(text, p + 1)))
        /\ WordRead(text, p, Reading(Invalid, Cleanup(text, p + 1)))
    BY <1>2, <1>3
  <2> QED
    BY <2>1, <2>2 DEF s
<1>7. CASE first # "\n" /\ first # "#" /\ first \in DOMAIN words
  <2>1. s = IF differs THEN Reading(Invalid, Cleanup(text, after))
            ELSE IF word \notin WordsAlone THEN Reading([op |-> word], after)
            ELSE IF Char(text, after) \in LineEnd
            THEN Reading([op |-> word], after + 1)
            ELSE Reading(Invalid, Cleanup(text, after + 1))
    BY <1>4, <1>7
  <2>2. first \in DOMAIN JobWords /\ word = JobWords[first]
    BY <1>7 DEF AreWords
  <2>3. Len(word) \in Nat \ {0} /\ word \in HeadWords \cup LoneWords
    BY <2>2, WordsAssumption, WordsAre
  <2>4. ~differs => after \in p + 1 .. Len(text) + 1
    BY <2>2, WordFits
  <2>10. ~differs => Char(text, after - 1) \notin LineEnd
    BY <2>2, WordFits
  <2>5. /\ after \in Nat /\ p + 1 <= after
        /\ after + 1 \in Nat /\ p + 1 <= after + 1
    BY <2>3
  <2> HIDE DEF first, word, after, differs
  <2>6. CASE differs
    <3>1. s = Reading(Invalid, Cleanup(text, after))
      BY <2>1, <2>6
    <3> QED
      BY <1>2, <2>5, <3>1 DEF s
  <2>7. CASE ~differs /\ word \notin WordsAlone
    <3>1. s = Reading([op |-> word], after)
      BY <2>1, <2>7
    <3>2. word \in HeadWords
      BY <2>3, <2>7 DEF LoneWords, WordsAlone
    <3>3. after \in p + 1 .. Len(text) + 1
      BY <2>4, <2>7
    <3>4. after \in p + 1 .. Len(text) + 2 /\ after <= Len(text) + 1
      BY <1>0, <3>3
    <3>5. s.at = after /\ s.command = [op |-> word]
      BY <3>1 DEF Reading
    <3>6. Char(text, after - 1) # "\n"
      BY <2>7, <2>10 DEF LineEnd
    <3> QED
      BY <3>2, <3>4, <3>5, <3>6 DEF s, WordRead
  <2>8. CASE ~differs /\ word \in WordsAlone /\ Char(text, after) \in LineEnd
    <3>1. s = Reading([op |-> word], after + 1)
      BY <2>1, <2>8
    <3>2. word \in LoneWords
      BY <2>8 DEF LoneWords, WordsAlone
    <3>3. after \in p + 1 .. Len(text) + 1
      BY <2>4, <2>8
    <3>4. after + 1 \in p + 1 .. Len(text) + 2
      BY <1>0, <3>3
    <3>5. s.at = after + 1 /\ s.command = [op |-> word]
      BY <3>1 DEF Reading
    <3> QED
      BY <3>2, <3>4, <3>5 DEF s, WordRead
  <2>9. CASE /\ ~differs /\ word \in WordsAlone
             /\ Char(text, after) \notin LineEnd
    <3>1. s = Reading(Invalid, Cleanup(text, after + 1))
      BY <2>1, <2>9
    <3> QED
      BY <1>2, <2>5, <3>1 DEF s
  <2> QED
    BY <2>6, <2>7, <2>8, <2>9
<1> QED
  BY <1>5, <1>6, <1>7

\* A command has been read of the text at p.
CommandRead(text, p, r) ==
    r.at \in p + 1 .. Len(text) + 2 /\ r.command \in JobCommands

\* The commands of the parsers are commands of the program.
LEMMA CommandIs ==
    ASSUME NEW text, IsText(text), NEW p \in 1 .. Len(text),
           NEW q \in p + 1 .. Len(text) + 1,
           NEW r, r.at \in q .. Len(text) + 2,
           \/ r.command \in CreateCommands \cup {Invalid}
           \/ r.command \in ShowCommands \cup {Invalid}
           \/ r.command \in ReserveCommands \cup {Invalid}
           \/ r.command \in WaitCommands \cup {Invalid}
    PROVE  CommandRead(text, p, r)
<1>1. r.at \in p + 1 .. Len(text) + 2
  BY DEF IsText
<1>2. Invalid \in JobCommands
  BY DEF Invalid, JobCommands, OtherCommands
<1>3. r.command \in JobCommands
  BY <1>2 DEF JobCommands
<1> QED
  BY <1>1, <1>3 DEF CommandRead

\* parse_reserve of projeto1, with the seats sorted.
LEMMA SortedReserveParsed ==
    ASSUME NEW text, IsText(text), NEW p \in 1 .. Len(text) + 1
    PROVE  /\ ParseReserveSorted(text, p).at \in p .. Len(text) + 2
           /\ ParseReserveSorted(text, p).command
                 \in ReserveCommands \cup {Invalid}
<1> DEFINE r == ParseReserve(Jobs, text, p)
<1>1. /\ r.at \in p .. Len(text) + 2
      /\ r.command \in ReserveCommands \cup {Invalid}
  BY ReserveParsed
<1>2. /\ ParseReserveSorted(text, p).at = r.at
      /\ ParseReserveSorted(text, p).command = Sorted(r.command)
  BY DEF ParseReserveSorted, SortedReading, Reading
<1> HIDE DEF r
<1>3. CASE r.command \in ReserveCommands
  BY <1>1, <1>2, <1>3, SeatsSorted
<1>4. CASE r.command = Invalid
  <2>1. Sorted(Invalid) = Invalid
    BY DEF Sorted, Invalid
  <2> QED
    BY <1>1, <1>2, <1>4, <2>1
<1> QED
  BY <1>1, <1>3, <1>4

\* The switch on the word.
LEMMA SwitchReads ==
    ASSUME NEW text, IsText(text), NEW p \in 1 .. Len(text),
           NEW r, WordRead(text, p, r)
    PROVE  /\ CommandRead(text, p, JobSwitch(text, r))
           /\ r.command.op # "BARRIER" =>
                 CommandRead(text, p, ClientSwitch(text, r))
<1>1. CASE r.command \in {Empty, Invalid}
  <2>1. r.command.op = "empty" \/ r.command.op = "invalid"
    BY <1>1 DEF Empty, Invalid
  <2>2. JobSwitch(text, r) = r /\ ClientSwitch(text, r) = r
    BY <2>1 DEF JobSwitch, ClientSwitch
  <2>3. r.command \in JobCommands
    BY <1>1 DEF Empty, Invalid, JobCommands, OtherCommands
  <2> QED
    BY <2>2, <2>3 DEF CommandRead, WordRead
<1>2. CASE \E word \in LoneWords : r.command = [op |-> word]
  <2>1. r.command.op \in LoneWords
    BY <1>2
  <2>2. \/ JobSwitch(text, r) = Reading([op |-> "list"], r.at)
        \/ JobSwitch(text, r) = Reading([op |-> "barrier"], r.at)
        \/ JobSwitch(text, r) = Reading([op |-> "help"], r.at)
    BY <2>1 DEF JobSwitch, LoneWords
  <2>3. \/ ClientSwitch(text, r) = Reading([op |-> "list"], r.at)
        \/ ClientSwitch(text, r) = Reading([op |-> "help"], r.at)
        \/ r.command.op = "BARRIER"
    BY <2>1 DEF ClientSwitch, LoneWords
  <2>4. \A op \in {"list", "barrier", "help"} :
           CommandRead(text, p, Reading([op |-> op], r.at))
    <3> TAKE op \in {"list", "barrier", "help"}
    <3>1. [op |-> op] \in JobCommands
      BY DEF JobCommands, OtherCommands
    <3> QED
      BY <3>1 DEF CommandRead, Reading, WordRead
  <2> HIDE DEF JobSwitch, ClientSwitch
  <2> QED
    BY <2>2, <2>3, <2>4
<1>3. CASE /\ \E word \in HeadWords : r.command = [op |-> word]
           /\ r.at <= Len(text) + 1
  <2>1. r.command.op \in HeadWords
    BY <1>3
  <2>2. /\ r.at \in p + 1 .. Len(text) + 1
        /\ r.at \in 1 .. Len(text) + 1
    BY <1>3 DEF WordRead, IsText
  <2>3. CASE r.command.op = "CREATE "
    <3>1. /\ JobSwitch(text, r) = ParseCreate(Jobs, text, r.at)
          /\ ClientSwitch(text, r) = ParseCreate(Client, text, r.at)
      BY <2>3 DEF JobSwitch, ClientSwitch
    <3> QED
      BY <2>2, <3>1, CreateParsed, CommandIs
  <2>4. CASE r.command.op = "RESERVE "
    <3>1. /\ JobSwitch(text, r) = ParseReserveSorted(text, r.at)
          /\ ClientSwitch(text, r) = ParseReserve(Client, text, r.at)
      BY <2>4 DEF JobSwitch, ClientSwitch
    <3> QED
      BY <2>2, <3>1, ReserveParsed, SortedReserveParsed, CommandIs
  <2>5. CASE r.command.op = "SHOW "
    <3>1. /\ JobSwitch(text, r) = ParseShow(Jobs, text, r.at)
          /\ ClientSwitch(text, r) = ParseShow(Client, text, r.at)
      BY <2>5 DEF JobSwitch, ClientSwitch
    <3> QED
      BY <2>2, <3>1, ShowParsed, CommandIs
  <2>6. CASE r.command.op = "WAIT "
    <3>1. /\ JobSwitch(text, r) = ParseWait(text, r.at)
          /\ ClientSwitch(text, r) = ClientParseWait(text, r.at)
      BY <2>6 DEF JobSwitch, ClientSwitch
    <3> QED
      BY <2>2, <3>1, WaitParsed, ClientWaitParsed, CommandIs
  <2> QED
    BY <2>1, <2>3, <2>4, <2>5, <2>6 DEF HeadWords
<1> QED
  BY <1>1, <1>2, <1>3 DEF WordRead

\* BARRIER is no word of the client.
LEMMA ClientHasNoBarrier ==
    ASSUME NEW text, NEW p
    PROVE  GetNext(ClientWords, text, p).command.op # "BARRIER"
<1> DEFINE s == GetNext(ClientWords, text, p)
           first == Char(text, p)
<1>1. \/ s.command \in {Empty, Invalid}
      \/ /\ first \in DOMAIN ClientWords
         /\ s.command = [op |-> ClientWords[first]]
  BY DEF GetNext, Reading
<1>2. \A f \in DOMAIN ClientWords : ClientWords[f] # "BARRIER"
  <2>1. DOMAIN JobWords = {"C", "R", "S", "L", "B", "W", "H"}
    BY DEF JobWords
  <2>2. /\ JobWords["C"] = "CREATE " /\ JobWords["R"] = "RESERVE "
        /\ JobWords["S"] = "SHOW " /\ JobWords["L"] = "LIST"
        /\ JobWords["W"] = "WAIT " /\ JobWords["H"] = "HELP"
    BY DEF JobWords
  <2>3. \A f \in {"C", "R", "S", "L", "W", "H"} :
           f \in DOMAIN JobWords \ {"B"} /\ JobWords[f] # "BARRIER"
    BY <2>1, <2>2
  <2>4. \A f \in DOMAIN ClientWords : f \in {"C", "R", "S", "L", "W", "H"}
    BY <2>1 DEF ClientWords
  <2>5. \A f \in DOMAIN ClientWords : ClientWords[f] = JobWords[f]
    BY DEF ClientWords
  <2> QED
    BY <2>3, <2>4, <2>5
<1> HIDE DEF s, first
<1>3. CASE s.command \in {Empty, Invalid}
  <2>1. s.command.op = "empty" \/ s.command.op = "invalid"
    BY <1>3 DEF Empty, Invalid
  <2> QED
    BY <2>1 DEF s
<1>4. CASE /\ first \in DOMAIN ClientWords
           /\ s.command = [op |-> ClientWords[first]]
  <2>1. s.command.op = ClientWords[first]
    BY <1>4
  <2> QED
    BY <1>2, <1>4, <2>1 DEF s
<1> QED
  BY <1>1, <1>3, <1>4

\* Reading one command, of a text in which no run of digits overruns buf of
\* read_uint or parse_uint, goes on by a character at least, and not further than
\* behind the end.  Its numbers fit an unsigned int, and a RESERVE has a seat at
\* least, and fewer than the arrays of the parser hold: not as many.
THEOREM CommandReads ==
    ASSUME NEW text, IsText(text), NEW p \in 1 .. Len(text), NEW program
    PROVE  CommandRead(text, p, Command(program, text, p))
<1>1. CASE program = Client
  <2>1. Command(program, text, p)
            = ClientSwitch(text, GetNext(ClientWords, text, p))
    BY <1>1 DEF Command
  <2>2. WordRead(text, p, GetNext(ClientWords, text, p))
    BY WordsAre, GetNextReads
  <2> QED
    BY <2>1, <2>2, ClientHasNoBarrier, SwitchReads
<1>2. CASE program # Client
  <2>1. Command(program, text, p) = JobSwitch(text, GetNext(JobWords, text, p))
    BY <1>2 DEF Command
  <2>2. WordRead(text, p, GetNext(JobWords, text, p))
    BY WordsAre, GetNextReads
  <2> QED
    BY <2>1, <2>2, SwitchReads
<1> QED
  BY <1>1, <1>2

\* What the loop has after h turns, unless the text has come to its end.
AllRead(text, h, r) ==
    /\ r.at \in 1 .. Len(text) + 2
    /\ r.at <= Len(text) => r.at >= h + 1
    /\ r.command \in Seq(JobCommands) /\ Len(r.command) <= h

\* One turn of the loop around the switch.
LEMMA OneMoreReads ==
    ASSUME NEW text, IsText(text), NEW program, NEW h \in Nat, NEW r,
           AllRead(text, h, r)
    PROVE  AllRead(text, h + 1, OneMore(program, text, r))
<1> DEFINE next == Command(program, text, r.at)
           s    == OneMore(program, text, r)
<1>1. /\ r.at \in 1 .. Len(text) + 2 /\ Len(text) \in Nat /\ r.at \in Nat
      /\ r.command \in Seq(JobCommands) /\ Len(r.command) <= h
  BY DEF AllRead, IsText
<1>2. Len(r.command) \in Nat
  BY <1>1, LenProperties
<1>3. CASE r.at > Len(text)
  <2>1. s = r
    BY <1>3 DEF OneMore, Followed
  <2>2. AllRead(text, h + 1, r)
    BY <1>1, <1>2, <1>3 DEF AllRead
  <2> HIDE DEF s
  <2>3. AllRead(text, h + 1, s)
    BY <2>1, <2>2
  <2> QED
    BY <2>3 DEF s
<1>4. CASE ~(r.at > Len(text))
  <2>1. s = Reading(Append(r.command, next.command), next.at)
    BY <1>4 DEF OneMore, Followed
  <2>2. r.at \in 1 .. Len(text) /\ r.at >= h + 1
    BY <1>1, <1>4 DEF AllRead
  <2>3. CommandRead(text, r.at, next)
    BY <2>2, CommandReads
  <2> HIDE DEF s, next
  <2>4. s.command = Append(r.command, next.command) /\ s.at = next.at
    BY <2>1 DEF Reading
  <2>5. next.command \in JobCommands /\ next.at \in r.at + 1 .. Len(text) + 2
    BY <2>3 DEF CommandRead
  <2>6. /\ s.command \in Seq(JobCommands)
        /\ Len(s.command) = Len(r.command) + 1
    BY <1>1, <2>4, <2>5, AppendProperties
  <2>7. s.at \in 1 .. Len(text) + 2 /\ s.at >= h + 2
    BY <1>1, <2>2, <2>4, <2>5
  <2>8. Len(s.command) <= h + 1
    BY <1>1, <1>2, <2>6
  <2>9. AllRead(text, h + 1, s)
    BY <2>6, <2>7, <2>8 DEF AllRead
  <2> QED
    BY <2>9 DEF s
<1> QED
  BY <1>3, <1>4

\* Every text without a run of digits that overruns buf of read_uint is read to
\* its end, in as many commands as it has characters at most, and each of them is
\* one the program may run.
THEOREM TextIsRead ==
    ASSUME NEW text, IsText(text), NEW program
    PROVE  /\ ReadAll(program, text).at > Len(text)
           /\ Commands(program, text) \in Seq(JobCommands)
           /\ Len(Commands(program, text)) <= Len(text)
<1> DEFINE N == Len(text)
           Def(f, n) ==
               f = [h \in 0 .. n |->
                       IF h = 0 THEN Reading(<<>>, 1)
                       ELSE OneMore(program, text, f[h - 1])]
           Good(n) == \E f : Def(f, n)
           T == {n \in Nat : Good(n)}
<1>0. N \in Nat
  BY DEF IsText
<1>1. 0 \in T
  <2> DEFINE f == [h \in 0 .. 0 |-> Reading(<<>>, 1)]
  <2>1. Def(f, 0)
    OBVIOUS
  <2> QED
    BY <2>1
<1>2. ASSUME NEW n \in Nat, n \in T PROVE n + 1 \in T
  <2>1. PICK f : Def(f, n)
    BY <1>2
  <2> DEFINE last == OneMore(program, text, f[n])
             g == [h \in 0 .. n + 1 |-> IF h = n + 1 THEN last ELSE f[h]]
  <2>2. ASSUME NEW h \in 0 .. n + 1
        PROVE  g[h] = IF h = 0 THEN Reading(<<>>, 1)
                      ELSE OneMore(program, text, g[h - 1])
    <3>1. CASE h = n + 1
      <4>1. h # 0 /\ h - 1 = n /\ n \in 0 .. n + 1 /\ n # n + 1
        BY <3>1
      <4>2. g[h] = last /\ g[h - 1] = f[n]
        BY <3>1, <4>1
      <4> QED
        BY <4>1, <4>2
    <3>2. CASE h # n + 1
      <4>1. h \in 0 .. n /\ (h # 0 => h - 1 \in 0 .. n + 1 /\ h - 1 # n + 1)
        BY <3>2
      <4>2. f[h] = IF h = 0 THEN Reading(<<>>, 1)
                   ELSE OneMore(program, text, f[h - 1])
        <5> HIDE DEF g
        <5> QED
          BY <2>1, <4>1
      <4>3. g[h] = f[h] /\ (h # 0 => g[h - 1] = f[h - 1])
        BY <3>2, <4>1
      <4> QED
        BY <4>1, <4>2, <4>3
    <3> QED
      BY <3>1, <3>2
  <2>3. Def(g, n + 1)
    BY <2>2
  <2> HIDE DEF g, Def
  <2> QED
    BY <2>3
<1>3. Good(N)
  <2> HIDE DEF Good, N
  <2> QED
    BY <1>0, <1>1, <1>2, Induction
<1> DEFINE Read == CHOOSE f : Def(f, N)
<1>4. ReadAll(program, text) = Read[N]
  BY DEF ReadAll
<1>5. Def(Read, N)
  <2> HIDE DEF Def
  <2> QED
    BY <1>3
<1>6. \A h \in 0 .. N :
         Read[h] = IF h = 0 THEN Reading(<<>>, 1)
                   ELSE OneMore(program, text, Read[h - 1])
  <2> HIDE DEF Read
  <2> QED
    BY <1>5
<1> DEFINE U == {h \in Nat : h <= N => AllRead(text, h, Read[h])}
<1> HIDE DEF Read
<1>7. 0 \in U
  <2>1. Read[0] = Reading(<<>>, 1)
    BY <1>0, <1>6
  <2>2. Reading(<<>>, 1).at = 1 /\ Reading(<<>>, 1).command = <<>>
    BY DEF Reading
  <2>3. AllRead(text, 0, Reading(<<>>, 1))
    <3>1. <<>> \in Seq(JobCommands) /\ Len(<<>>) = 0
      BY EmptySeq
    <3>2. 1 \in 1 .. N + 2 /\ 1 >= 0 + 1 /\ 0 <= 0
      BY <1>0
    <3> QED
      BY <2>2, <3>1, <3>2, Zenon DEF AllRead
  <2> QED
    BY <2>1, <2>3
<1>8. ASSUME NEW h \in Nat, h \in U PROVE h + 1 \in U
  <2> SUFFICES ASSUME h + 1 <= N PROVE AllRead(text, h + 1, Read[h + 1])
    OBVIOUS
  <2>1. h + 1 \in 0 .. N /\ h + 1 # 0 /\ (h + 1) - 1 = h
    BY <1>0
  <2>2. Read[h + 1] = OneMore(program, text, Read[h])
    BY <1>6, <2>1
  <2>3. AllRead(text, h, Read[h])
    BY <1>0, <1>8
  <2> QED
    BY <2>2, <2>3, OneMoreReads
<1>9. N \in U
  <2> HIDE DEF U, N
  <2> QED
    BY <1>0, <1>7, <1>8, Induction
<1>10. AllRead(text, N, Read[N])
  BY <1>0, <1>9
<1> HIDE DEF N
<1>11. /\ Read[N].at > N
       /\ Read[N].command \in Seq(JobCommands)
       /\ Len(Read[N].command) <= N
  BY <1>0, <1>10 DEF AllRead, N
<1> QED
  BY <1>4, <1>11 DEF Commands, N

------------------------------------------------------------------------------
(*****************************************************************************)
(* The two programs: the same numbers, but at the end of the text, the       *)
(* same commands but for what the client does not know.                      *)
(*****************************************************************************)

\* Both programs read the same number but at the end of the text.
LEMMA UintsSame ==
    ASSUME NEW text, IsText(text), NEW p \in 1 .. Len(text) + 1
    PROVE  LET jobs   == Uint(Jobs, text, p)
               client == Uint(Client, text, p)
           IN  /\ jobs.at = client.at /\ jobs.next = client.next
               /\ jobs.next # Nul => jobs = client
<1>1. Uint(Jobs, text, p) = ReadUint(text, p)
  BY DEF Uint, Jobs, Client
<1>2. Uint(Client, text, p) = ParseUint(text, p)
  BY DEF Uint
<1> QED
  BY <1>1, <1>2, ParseUintAgrees

\* The same numbers, or a mistake at the same place.
Same(a, b) ==
    /\ a.at = b.at
    /\ a.ok <=> b.ok
    /\ a.ok => a = b

\* A number that something has to follow is the same to both programs.
LEMMA NumberSame ==
    ASSUME NEW text, IsText(text), NEW p \in Nat \ {0}, NEW n \in Nat,
           NEW a, NumbersRead(text, p, n, a), a.ok => a.at <= Len(text) + 1,
           NEW b, Same(a, b), NEW ends, Nul \notin ends
    PROVE  Same(Number(Jobs, text, a, ends), Number(Client, text, b, ends))
<1> DEFINE x  == Number(Jobs, text, a, ends)
           y  == Number(Client, text, b, ends)
           ux == Uint(Jobs, text, a.at)
           uy == Uint(Client, text, a.at)
<1>1. CASE ~a.ok
  <2>1. x = a /\ y = b
    BY <1>1 DEF Number, WithNumber, Same
  <2> HIDE DEF x, y
  <2>2. Same(x, y)
    BY <2>1
  <2> QED
    BY <2>2 DEF x, y
<1>2. CASE a.ok
  <2>1. a.at \in 1 .. Len(text) + 1 /\ Len(text) \in Nat
    BY <1>2 DEF NumbersRead, IsText
  <2>2. /\ ux.at = uy.at /\ ux.next = uy.next
        /\ ux.next # Nul => ux = uy
    BY <2>1, UintsSame, Zenon
  <2>3. b = a
    BY <1>2 DEF Same
  <2>4. x.ok <=> ux.ok /\ ux.next \in ends
    BY <1>2 DEF Number, WithNumber
  <2>5. Number(Client, text, a, ends).ok <=> uy.ok /\ uy.next \in ends
    BY <1>2 DEF Number, WithNumber
  <2>6. y.ok <=> uy.ok /\ uy.next \in ends
    <3> HIDE DEF uy
    <3> QED
      BY <2>3, <2>5
  <2>7. x.at = ux.at /\ x = Number(Jobs, text, a, ends)
    BY <1>2 DEF Number, WithNumber
  <2>8. Number(Client, text, a, ends).at = uy.at
    BY <1>2 DEF Number, WithNumber
  <2>9. y.at = uy.at
    BY <2>3, <2>8
  <2>10. x = [ok |-> ux.ok /\ ux.next \in ends,
              values |-> Append(a.values, ux.value), at |-> ux.at]
    BY <1>2 DEF Number, WithNumber
  <2>11. y = [ok |-> uy.ok /\ uy.next \in ends,
              values |-> Append(a.values, uy.value), at |-> uy.at]
    BY <1>2, <2>3 DEF Number, WithNumber
  <2> HIDE DEF x, y, ux, uy
  <2>12. ux = uy => x = y
    BY <2>10, <2>11, Zenon
  <2>13. CASE ux.next # Nul
    <3>1. x = y
      BY <2>2, <2>12, <2>13
    <3>2. Same(x, y)
      BY <3>1 DEF Same
    <3> QED
      BY <3>2 DEF x, y
  <2>14. CASE ux.next = Nul
    <3>1. ~x.ok /\ ~y.ok
      BY <2>2, <2>4, <2>6, <2>14
    <3>2. Same(x, y)
      BY <2>2, <2>7, <2>9, <3>1 DEF Same
    <3> QED
      BY <3>2 DEF x, y
  <2> QED
    BY <2>13, <2>14
<1> QED
  BY <1>1, <1>2

\* The first such number of a line.
LEMMA FirstSame ==
    ASSUME NEW text, IsText(text), NEW p \in 1 .. Len(text) + 1,
           NEW ends, Nul \notin ends
    PROVE  Same(FirstNumber(Jobs, text, p, ends),
                FirstNumber(Client, text, p, ends))
<1> DEFINE a == Start(p)
<1>1. NumbersRead(text, p, 0, a) /\ a.at = p
  BY StartReads
<1>2. Same(a, a)
  BY DEF Same
<1> HIDE DEF a
<1>3. a.at <= Len(text) + 1
  BY <1>1 DEF IsText
<1>4. p \in Nat \ {0} /\ 0 \in Nat
  BY DEF IsText
<1>5. Same(Number(Jobs, text, a, ends), Number(Client, text, a, ends))
  BY <1>1, <1>2, <1>3, <1>4, NumberSame
<1> QED
  BY <1>5 DEF FirstNumber, a

\* The text ends with something else than a newline, and both readings at it.
BothEnded(text, x, y) ==
    x.at > Len(text) /\ y.at > Len(text) /\ Char(text, Len(text)) # "\n"

\* The same numbers, or two mistakes at the same place, or numbers that ended
\* with such a text.
Alike(text, x, y) ==
    /\ x.at = y.at
    /\ \/ x = y
       \/ ~x.ok /\ ~y.ok
       \/ x.at = Len(text) + 2 /\ Char(text, Len(text)) # "\n"

\* The last character of a text in which a number follows another character
\* than a newline.
LEMMA LastCharacter ==
    ASSUME NEW text, IsText(text), NEW q \in 2 .. Len(text) + 1,
           Char(text, q - 1) # "\n",
           NEW uint, UintRead(text, q, uint), uint.next = Nul
    PROVE  uint.at = Len(text) + 2 /\ Char(text, Len(text)) # "\n"
<1>1. Len(text) \in Nat
  BY DEF IsText
<1>2. PICK e \in q .. Len(text) + 1 :
          /\ uint.at = e + 1 /\ Char(text, e) = Nul
          /\ \A r \in q .. e - 1 : IsDigit(Char(text, r))
  <2>1. uint.at \in q + 1 .. Len(text) + 2
    BY DEF UintRead
  <2>4. uint.at - 1 \in q .. Len(text) + 1 /\ uint.at = (uint.at - 1) + 1
    BY <1>1, <2>1
  <2>2. PICK e \in q .. Len(text) + 1 : uint.at = e + 1
    BY <2>4
  <2>3. uint.at - 1 = e /\ uint.at - 2 = e - 1
    BY <2>2
  <2> QED
    BY <2>2, <2>3 DEF UintRead
<1>3. e = Len(text) + 1
  <2>1. ~(e \in 1 .. Len(text))
    BY <1>2 DEF IsText
  <2> QED
    BY <1>1, <2>1
<1>4. CASE q = Len(text) + 1
  <2>1. q - 1 = Len(text)
    BY <1>1, <1>4
  <2> QED
    BY <1>2, <1>3, <2>1
<1>5. CASE q # Len(text) + 1
  <2>1. Len(text) \in q .. e - 1
    BY <1>1, <1>3, <1>5
  <2>2. IsDigit(Char(text, Len(text)))
    BY <1>2, <2>1
  <2>3. Char(text, Len(text)) # "\n"
    BY <2>2, NoDigits
  <2> QED
    BY <1>1, <1>2, <1>3, <2>3
<1> QED
  BY <1>4, <1>5

\* A number that the end of the text may follow as well.
LEMMA LastNumber ==
    ASSUME NEW text, IsText(text), NEW p \in Nat \ {0}, NEW n \in Nat,
           NEW a, NumbersRead(text, p, n, a),
           a.ok => a.at \in 2 .. Len(text) + 1 /\ Char(text, a.at - 1) # "\n",
           NEW b, Same(a, b), NEW ends
    PROVE  Alike(text, Number(Jobs, text, a, ends),
                 Number(Client, text, b, ends))
<1> DEFINE x  == Number(Jobs, text, a, ends)
           y  == Number(Client, text, b, ends)
           ux == Uint(Jobs, text, a.at)
           uy == Uint(Client, text, a.at)
<1>1. CASE ~a.ok
  <2>1. x = a /\ y = b
    BY <1>1 DEF Number, WithNumber, Same
  <2> HIDE DEF x, y
  <2>2. Alike(text, x, y)
    BY <1>1, <2>1 DEF Alike, Same
  <2> QED
    BY <2>2 DEF x, y
<1>2. CASE a.ok
  <2>1. a.at \in 1 .. Len(text) + 1 /\ Len(text) \in Nat
        /\ a.at \in 2 .. Len(text) + 1
    BY <1>2 DEF IsText
  <2>2. /\ ux.at = uy.at /\ ux.next = uy.next
        /\ ux.next # Nul => ux = uy
    BY <2>1, UintsSame, Zenon
  <2>3. b = a
    BY <1>2 DEF Same
  <2>4. UintRead(text, a.at, ux)
    BY <2>1, UintReads
  <2>10. x = [ok |-> ux.ok /\ ux.next \in ends,
              values |-> Append(a.values, ux.value), at |-> ux.at]
    BY <1>2 DEF Number, WithNumber
  <2>11. y = [ok |-> uy.ok /\ uy.next \in ends,
              values |-> Append(a.values, uy.value), at |-> uy.at]
    BY <1>2, <2>3 DEF Number, WithNumber
  <2> HIDE DEF x, y, ux, uy
  <2>12. ux = uy => x = y
    BY <2>10, <2>11, Zenon
  <2>9. x.at = ux.at /\ y.at = uy.at
    BY <2>10, <2>11
  <2>13. CASE ux.next # Nul
    <3>1. x = y
      BY <2>2, <2>12, <2>13
    <3>2. Alike(text, x, y)
      BY <3>1 DEF Alike
    <3> QED
      BY <3>2 DEF x, y
  <2>14. CASE ux.next = Nul
    <3>1. ux.at = Len(text) + 2 /\ Char(text, Len(text)) # "\n"
      BY <1>2, <2>1, <2>4, <2>14, LastCharacter
    <3>2. Alike(text, x, y)
      BY <2>2, <2>9, <3>1 DEF Alike
    <3> QED
      BY <3>2 DEF x, y
  <2> QED
    BY <2>13, <2>14
<1> QED
  BY <1>1, <1>2

\* Two readings that are equal, or end with such a text.
ReadingsAlike(text, x, y) ==
    \/ x = y
    \/ /\ BothEnded(text, x, y)
       /\ Invalid \in {x.command, y.command} \/ x.command.op = y.command.op

\* Commands of numbers that were read alike.
LEMMA ParsedAlike ==
    ASSUME NEW text, IsText(text), NEW p \in 1 .. Len(text) + 1, NEW n,
           NEW x, NumbersRead(text, p, n, x),
           NEW y, NumbersRead(text, p, n, y),
           Alike(text, x, y),
           NEW c, NEW d, x = y => c = d, c.op = d.op
    PROVE  ReadingsAlike(text, Parsed(text, x, c), Parsed(text, y, d))
<1>1. CASE x = y
  BY <1>1 DEF ReadingsAlike
<1>2. CASE ~x.ok /\ ~y.ok
  <2>1. /\ Parsed(text, x, c) = Reading(Invalid, Cleanup(text, x.at))
        /\ Parsed(text, y, d) = Reading(Invalid, Cleanup(text, y.at))
    BY <1>2 DEF Parsed
  <2>2. x.at = y.at
    BY DEF Alike
  <2>3. Parsed(text, x, c) = Parsed(text, y, d)
    BY <2>1, <2>2
  <2> QED
    BY <2>3 DEF ReadingsAlike
<1>3. CASE x.at = Len(text) + 2 /\ Char(text, Len(text)) # "\n"
  <2> DEFINE s == Parsed(text, x, c)
             t == Parsed(text, y, d)
  <2>1. /\ Len(text) \in Nat /\ x.at \in Nat /\ y.at \in Nat
        /\ x.at > Len(text) /\ y.at > Len(text)
        /\ Char(text, Len(text)) # "\n"
    BY <1>3 DEF Alike, IsText
  <2>2. /\ Cleanup(text, x.at) = Len(text) + 1
        /\ Cleanup(text, y.at) = Len(text) + 1
    <3>1. x.at >= Len(text) + 1 /\ y.at >= Len(text) + 1
      BY <2>1
    <3> QED
      BY <2>1, <3>1, CleanupRange
  <2>3. s.at > Len(text) /\ t.at > Len(text)
    <3>1. s.at = x.at \/ s.at = Cleanup(text, x.at)
      BY DEF Parsed, Reading
    <3>2. t.at = y.at \/ t.at = Cleanup(text, y.at)
      BY DEF Parsed, Reading
    <3> HIDE DEF s, t
    <3> QED
      BY <2>1, <2>2, <3>1, <3>2
  <2>4. /\ s.command = IF x.ok THEN c ELSE Invalid
        /\ t.command = IF y.ok THEN d ELSE Invalid
    BY DEF Parsed, Reading
  <2> HIDE DEF s, t
  <2>5. BothEnded(text, s, t)
    BY <2>1, <2>3 DEF BothEnded
  <2>6. Invalid \in {s.command, t.command} \/ s.command.op = t.command.op
    BY <2>4
  <2>7. ReadingsAlike(text, s, t)
    BY <2>5, <2>6 DEF ReadingsAlike
  <2> QED
    BY <2>7 DEF s, t
<1> QED
  BY <1>1, <1>2, <1>3 DEF Alike

\* A seat is the same to both programs.
LEMMA PairSame ==
    ASSUME NEW text, IsText(text), NEW p \in 1 .. Len(text) + 1
    PROVE  LET a == FirstNumber(Jobs, text, p, {","})
               b == FirstNumber(Client, text, p, {","})
           IN  Same(Number(Jobs, text, a, {")"}),
                    Number(Client, text, b, {")"}))
<1> DEFINE a == FirstNumber(Jobs, text, p, {","})
           b == FirstNumber(Client, text, p, {","})
<1>1. /\ p \in Nat \ {0} /\ 1 \in Nat
      /\ Nul \notin {","} /\ Nul \notin {")"}
  BY DEF IsText, Nul
<1>2. NumbersRead(text, p, 1, a) /\ (a.ok => a.at <= Len(text) + 1)
  BY <1>1, FirstReads, Zenon
<1>3. Same(a, b)
  BY <1>1, FirstSame
<1> HIDE DEF a, b
<1>4. Same(Number(Jobs, text, a, {")"}), Number(Client, text, b, {")"}))
  BY <1>1, <1>2, <1>3, NumberSame, Zenon
<1> QED
  BY <1>4 DEF a, b

\* So is what a turn of the loop of parse_reserve makes of it.
LEMMA CoordinateSame ==
    ASSUME NEW text, IsText(text), NEW p \in 1 .. Len(text) + 1,
           NEW h \in Nat, NEW before, SeatsRead(text, p, h, before)
    PROVE  Coordinate(Jobs, text, before) = Coordinate(Client, text, before)
<1>1. CASE ~before.more
  BY <1>1 DEF Coordinate, Paired
<1>2. CASE before.more /\ Char(text, before.at) # "("
  BY <1>2 DEF Coordinate, Paired
<1>3. CASE before.more /\ Char(text, before.at) = "("
  <2> DEFINE xj == FirstNumber(Jobs, text, before.at + 1, {","})
             xc == FirstNumber(Client, text, before.at + 1, {","})
             pj == Number(Jobs, text, xj, {")"})
             pk == Number(Client, text, xc, {")"})
             Made(pair) ==
                 IF ~pair.ok THEN Stop(pair.at)
                 ELSE IF Char(text, pair.at) \notin {" ", "]"}
                 THEN Stop(pair.at + 1)
                 ELSE [ok |-> Char(text, pair.at) = "]",
                       more |-> Char(text, pair.at) = " ",
                       values |-> Append(before.values,
                                      <<pair.values[1], pair.values[2]>>),
                       at |-> pair.at + 1]
  <2>1. before.at \in Nat /\ Len(text) \in Nat
    BY DEF SeatsRead, IsText
  <2>2. before.at <= Len(text)
    BY <1>3, <2>1, InText DEF Nul
  <2>3. before.at + 1 \in 1 .. Len(text) + 1
    BY <2>1, <2>2
  <2>4. Same(pj, pk)
    BY <2>3, PairSame
  <2>5. Coordinate(Jobs, text, before) = Made(pj)
    BY <1>3 DEF Coordinate, Paired
  <2>6. Coordinate(Client, text, before) = Made(pk)
    BY <1>3 DEF Coordinate, Paired
  <2> HIDE DEF pj, pk
  <2>7. CASE pj.ok
    <3>1. pj = pk
      BY <2>4, <2>7 DEF Same
    <3> HIDE DEF Made
    <3> QED
      BY <2>5, <2>6, <3>1
  <2>8. CASE ~pj.ok
    <3>1. ~pk.ok /\ pk.at = pj.at
      BY <2>4, <2>8 DEF Same
    <3>2. Made(pj) = Stop(pj.at) /\ Made(pk) = Stop(pj.at)
      BY <2>8, <3>1
    <3> HIDE DEF Made
    <3> QED
      BY <2>5, <2>6, <3>2
  <2> QED
    BY <2>7, <2>8
<1> QED
  BY <1>1, <1>2, <1>3

\* And the list of all seats.
LEMMA CoordinatesSame ==
    ASSUME NEW text, IsText(text), NEW p \in 1 .. Len(text) + 1
    PROVE  Coordinates(Jobs, text, p) = Coordinates(Client, text, p)
<1>1. PICK f : /\ ReadCoordinates(Jobs, text, p) = f[MaxReservation]
               /\ \A h \in 0 .. MaxReservation :
                     f[h] = IF h = 0 THEN NoSeats(p)
                            ELSE Coordinate(Jobs, text, f[h - 1])
  BY CoordinatesTurn
<1>2. PICK g : /\ ReadCoordinates(Client, text, p) = g[MaxReservation]
               /\ \A h \in 0 .. MaxReservation :
                     g[h] = IF h = 0 THEN NoSeats(p)
                            ELSE Coordinate(Client, text, g[h - 1])
  BY CoordinatesTurn
<1> DEFINE U == {h \in Nat : h <= MaxReservation =>
                                 f[h] = g[h] /\ SeatsRead(text, p, h, f[h])}
<1>3. 0 \in U
  <2>1. f[0] = NoSeats(p) /\ g[0] = NoSeats(p)
    BY <1>1, <1>2, ParserAssumption
  <2> QED
    BY <2>1, NothingRead
<1>4. ASSUME NEW h \in Nat, h \in U PROVE h + 1 \in U
  <2> SUFFICES ASSUME h + 1 <= MaxReservation
               PROVE  /\ f[h + 1] = g[h + 1]
                      /\ SeatsRead(text, p, h + 1, f[h + 1])
    OBVIOUS
  <2>1. h + 1 \in 0 .. MaxReservation /\ h + 1 # 0 /\ (h + 1) - 1 = h
    BY ParserAssumption
  <2>2. /\ f[h + 1] = Coordinate(Jobs, text, f[h])
        /\ g[h + 1] = Coordinate(Client, text, g[h])
    BY <1>1, <1>2, <2>1
  <2>3. f[h] = g[h] /\ SeatsRead(text, p, h, f[h])
    BY <1>4, ParserAssumption
  <2> QED
    BY <2>2, <2>3, CoordinateRead, CoordinateSame
<1>5. MaxReservation \in U
  <2> HIDE DEF U
  <2> QED
    BY <1>3, <1>4, Induction, ParserAssumption
<1>6. ReadCoordinates(Jobs, text, p) = ReadCoordinates(Client, text, p)
  BY <1>1, <1>2, <1>5, ParserAssumption
<1> QED
  BY <1>6 DEF Coordinates, Bounded

\* A RESERVE is the same to both programs, but for the order of its seats.
LEMMA ReserveSame ==
    ASSUME NEW text, IsText(text), NEW p \in 1 .. Len(text) + 1
    PROVE  ParseReserve(Jobs, text, p) = ParseReserve(Client, text, p)
<1> DEFINE a == FirstNumber(Jobs, text, p, {" "})
           b == FirstNumber(Client, text, p, {" "})
<1>1. NumbersRead(text, p, 1, a)
  BY FirstReads, Zenon
<1>2. Same(a, b)
  BY FirstSame DEF Nul
<1>3. /\ ParseReserve(Jobs, text, p)
             = Reserve(text, a, Coordinates(Jobs, text, a.at + 1))
      /\ ParseReserve(Client, text, p)
             = Reserve(text, b, Coordinates(Client, text, b.at + 1))
  BY DEF ParseReserve
<1> HIDE DEF a, b
<1>4. CASE ~a.ok
  <2>1. ~b.ok /\ a.at = b.at
    BY <1>2, <1>4 DEF Same
  <2>2. \A s : /\ Reserve(text, a, s) = Reading(Invalid, Cleanup(text, a.at))
               /\ Reserve(text, b, s) = Reading(Invalid, Cleanup(text, a.at))
    BY <1>4, <2>1 DEF Reserve
  <2> QED
    BY <1>3, <2>2
<1>5. CASE a.ok /\ Char(text, a.at) # "["
  <2>1. a = b
    BY <1>2, <1>5 DEF Same
  <2>2. \A s : Reserve(text, a, s) = Reading(Invalid, Cleanup(text, a.at + 1))
    BY <1>5 DEF Reserve
  <2> QED
    BY <1>3, <2>1, <2>2
<1>6. CASE a.ok /\ Char(text, a.at) = "["
  <2>1. a = b
    BY <1>2, <1>6 DEF Same
  <2>2. a.at \in Nat /\ Len(text) \in Nat
    BY <1>1 DEF NumbersRead, IsText
  <2>3. a.at <= Len(text)
    BY <1>6, <2>2, InText DEF Nul
  <2>4. a.at + 1 \in 1 .. Len(text) + 1
    BY <2>2, <2>3
  <2>5. Coordinates(Jobs, text, a.at + 1) = Coordinates(Client, text, a.at + 1)
    BY <2>4, CoordinatesSame
  <2> QED
    BY <1>3, <2>1, <2>5
<1> QED
  BY <1>4, <1>5, <1>6

\* The numbers of a CREATE but its last.
LEMMA RowsRead ==
    ASSUME NEW text, IsText(text), NEW program, NEW p \in 1 .. Len(text) + 1
    PROVE  LET id   == FirstNumber(program, text, p, {" "})
               rows == Number(program, text, id, {" "})
           IN  /\ NumbersRead(text, p, 2, rows)
               /\ rows.ok => /\ rows.at \in 2 .. Len(text) + 1
                            /\ Char(text, rows.at - 1) # "\n"
<1> DEFINE id   == FirstNumber(program, text, p, {" "})
           rows == Number(program, text, id, {" "})
<1>0. Nul \notin {" "}
  BY DEF Nul
<1>1. p \in Nat \ {0} /\ 1 \in Nat /\ 1 + 1 = 2
  BY DEF IsText
<1>2. /\ NumbersRead(text, p, 1, id) /\ id.at > p
      /\ id.ok => id.at <= Len(text) + 1
  BY <1>0, <1>1, FirstReads, Zenon
<1> HIDE DEF id
<1>3. /\ NumbersRead(text, p, 1 + 1, rows)
      /\ rows.ok => id.ok /\ Char(text, rows.at - 1) \in {" "}
      /\ rows.ok => rows.at <= Len(text) + 1
  BY <1>0, <1>1, <1>2, NumberReads, NumberGoesOn, Zenon
<1>4. id.ok => rows.at > id.at
  BY <1>1, <1>2, NumberIs, Zenon
<1> HIDE DEF rows
<1>5. rows.ok => rows.at \in 2 .. Len(text) + 1
  <2> SUFFICES ASSUME rows.ok PROVE rows.at \in 2 .. Len(text) + 1
    OBVIOUS
  <2>1. rows.at > id.at /\ rows.at <= Len(text) + 1
    BY <1>3, <1>4
  <2>2. Len(text) \in Nat
    BY DEF IsText
  <2>3. rows.at \in p .. Len(text) + 2 /\ id.at \in p .. Len(text) + 2
    BY <1>2, <1>3 DEF NumbersRead
  <2>4. rows.at \in Nat /\ id.at \in Nat /\ id.at > p
    BY <1>1, <1>2, <2>2, <2>3
  <2> QED
    BY <1>1, <2>1, <2>2, <2>4
<1>6. rows.ok => Char(text, rows.at - 1) # "\n"
  BY <1>3
<1>7. NumbersRead(text, p, 2, rows)
  BY <1>1, <1>3
<1> QED
  BY <1>5, <1>6, <1>7 DEF rows, id

\* parse_create of the two programs.
LEMMA CreateAlike ==
    ASSUME NEW text, IsText(text), NEW p \in 1 .. Len(text) + 1
    PROVE  ReadingsAlike(text, ParseCreate(Jobs, text, p),
                         ParseCreate(Client, text, p))
<1> DEFINE idJ   == FirstNumber(Jobs, text, p, {" "})
           idC   == FirstNumber(Client, text, p, {" "})
           rowsJ == Number(Jobs, text, idJ, {" "})
           rowsC == Number(Client, text, idC, {" "})
           allJ  == Number(Jobs, text, rowsJ, LineEnd)
           allC  == Number(Client, text, rowsC, LineEnd)
           Made(all) == [op |-> "create", id |-> all.values[1],
                         rows |-> all.values[2], cols |-> all.values[3]]
<1>1. /\ p \in Nat \ {0} /\ 1 \in Nat /\ 2 \in Nat /\ 2 + 1 = 3
      /\ Nul \notin {" "}
  BY DEF IsText, Nul
<1>2. /\ NumbersRead(text, p, 1, idJ) /\ (idJ.ok => idJ.at <= Len(text) + 1)
  BY <1>1, FirstReads, Zenon
<1>3. Same(idJ, idC)
  BY <1>1, FirstSame
<1>4. /\ NumbersRead(text, p, 2, rowsJ)
      /\ rowsJ.ok => /\ rowsJ.at \in 2 .. Len(text) + 1
                    /\ Char(text, rowsJ.at - 1) # "\n"
  BY RowsRead, Zenon
<1>5. /\ NumbersRead(text, p, 2, rowsC)
      /\ rowsC.ok => /\ rowsC.at \in 2 .. Len(text) + 1
                    /\ Char(text, rowsC.at - 1) # "\n"
  BY RowsRead, Zenon
<1>6. /\ ParseCreate(Jobs, text, p) = Parsed(text, allJ, Made(allJ))
      /\ ParseCreate(Client, text, p) = Parsed(text, allC, Made(allC))
  BY DEF ParseCreate
<1> HIDE DEF idJ, idC
<1>7. Same(rowsJ, rowsC)
  BY <1>1, <1>2, <1>3, NumberSame, Zenon
<1> HIDE DEF rowsJ, rowsC
<1>8. Alike(text, allJ, allC)
  BY <1>1, <1>4, <1>7, LastNumber, Zenon
<1>9. NumbersRead(text, p, 2 + 1, allJ) /\ NumbersRead(text, p, 2 + 1, allC)
  <2>1. /\ rowsJ.ok => rowsJ.at <= Len(text) + 1
        /\ rowsC.ok => rowsC.at <= Len(text) + 1
    BY <1>4, <1>5
  <2> QED
    BY <1>1, <1>4, <1>5, <2>1, NumberReads, Zenon
<1> HIDE DEF allJ, allC
<1>10. Made(allJ).op = Made(allC).op
  OBVIOUS
<1>11. allJ = allC => Made(allJ) = Made(allC)
  OBVIOUS
<1> HIDE DEF Made
<1>12. ReadingsAlike(text, Parsed(text, allJ, Made(allJ)),
                     Parsed(text, allC, Made(allC)))
  BY <1>8, <1>9, <1>10, <1>11, ParsedAlike, Zenon
<1> QED
  BY <1>6, <1>12

\* The first number of a line, at the end of the text or not.
LEMMA StartAlike ==
    ASSUME NEW text, IsText(text), NEW p \in 2 .. Len(text) + 1,
           Char(text, p - 1) # "\n", NEW ends
    PROVE  Alike(text, FirstNumber(Jobs, text, p, ends),
                 FirstNumber(Client, text, p, ends))
<1> DEFINE a == Start(p)
<1>1. p \in 1 .. Len(text) + 1 /\ p \in Nat \ {0} /\ 0 \in Nat
  BY DEF IsText
<1>2. NumbersRead(text, p, 0, a) /\ a.at = p
  BY <1>1, StartReads
<1>3. Same(a, a)
  BY DEF Same
<1> HIDE DEF a
<1>4. a.at \in 2 .. Len(text) + 1 /\ Char(text, a.at - 1) # "\n"
  BY <1>2
<1>5. Alike(text, Number(Jobs, text, a, ends), Number(Client, text, a, ends))
  BY <1>1, <1>2, <1>3, <1>4, LastNumber, Zenon
<1> QED
  BY <1>5 DEF FirstNumber, a

\* parse_show of the two programs.
LEMMA ShowAlike ==
    ASSUME NEW text, IsText(text), NEW p \in 2 .. Len(text) + 1,
           Char(text, p - 1) # "\n"
    PROVE  ReadingsAlike(text, ParseShow(Jobs, text, p),
                         ParseShow(Client, text, p))
<1> DEFINE a == FirstNumber(Jobs, text, p, LineEnd)
           b == FirstNumber(Client, text, p, LineEnd)
           Made(id) == [op |-> "show", id |-> id.values[1]]
<1>1. p \in 1 .. Len(text) + 1
  BY DEF IsText
<1>2. NumbersRead(text, p, 1, a) /\ NumbersRead(text, p, 1, b)
  BY <1>1, FirstReads, Zenon
<1>3. Alike(text, a, b)
  BY StartAlike
<1>4. /\ ParseShow(Jobs, text, p) = Parsed(text, a, Made(a))
      /\ ParseShow(Client, text, p) = Parsed(text, b, Made(b))
  BY DEF ParseShow
<1> HIDE DEF a, b
<1>5. Made(a).op = Made(b).op
  OBVIOUS
<1>6. a = b => Made(a) = Made(b)
  OBVIOUS
<1> HIDE DEF Made
<1>7. ReadingsAlike(text, Parsed(text, a, Made(a)), Parsed(text, b, Made(b)))
  BY <1>1, <1>2, <1>3, <1>5, <1>6, ParsedAlike, Zenon
<1> QED
  BY <1>4, <1>7

\* What the client makes of the WAIT that projeto1 has read.
WaitsAlike(text, jobs, client) ==
    /\ jobs.at = client.at \/ (jobs.at > Len(text) /\ client.at > Len(text))
    /\ jobs.command.op = "wait"
    /\ \/ client.command = Wait(jobs.command.delay, Everybody)
       \/ /\ BothEnded(text, jobs, client)
          /\ client.command = Invalid \/ client.command.op = "wait"

\* The position before the one where the reading goes on.
LEMMA OneBefore ==
    ASSUME NEW n \in Nat, NEW m \in Nat, NEW x \in n + 1 .. m + 2
    PROVE  x - 1 \in n .. m + 1 /\ x = (x - 1) + 1
  OBVIOUS

\* A WAIT that projeto1 has read, with a thread or without one.
LEMMA WaitAlike ==
    ASSUME NEW text, IsText(text), NEW p \in 2 .. Len(text) + 1,
           Char(text, p - 1) # "\n"
    PROVE  \/ ParseWait(text, p).command = Invalid
           \/ WaitsAlike(text, ParseWait(text, p), ClientParseWait(text, p))
<1> DEFINE ends   == {" "} \cup LineEnd
           a      == FirstNumber(Jobs, text, p, ends)
           b      == FirstNumber(Client, text, p, ends)
           both   == Number(Jobs, text, a, LineEnd)
           jobs   == ParseWait(text, p)
           client == ClientParseWait(text, p)
           one(d) == Wait(d.values[1], Everybody)
           two    == Wait(both.values[1], both.values[2])
           spaceJ == a.ok /\ Char(text, a.at - 1) = " "
           spaceC == b.ok /\ Char(text, b.at - 1) = " "
<1>1. p \in 1 .. Len(text) + 1 /\ Len(text) \in Nat /\ p \in Nat \ {0}
  BY DEF IsText
<1>2. /\ NumbersRead(text, p, 1, a) /\ a.at > p
      /\ a.ok => Char(text, a.at - 1) \in ends
  BY <1>1, FirstReads, Zenon
<1>3. /\ NumbersRead(text, p, 1, b) /\ b.at > p
      /\ b.ok => Char(text, b.at - 1) \in ends
  BY <1>1, FirstReads, Zenon
<1>4. Alike(text, a, b)
  BY StartAlike
<1>5. jobs = IF spaceJ THEN Parsed(text, both, two)
             ELSE Parsed(text, a, one(a))
  BY DEF ParseWait
<1>6. client = IF spaceC THEN Reading(one(b), Cleanup(text, b.at))
               ELSE Parsed(text, b, one(b))
  BY DEF ClientParseWait
<1>7. \A d : one(d).op = "wait" /\ one(d).delay = d.values[1]
  BY DEF Wait
<1>8. two.op = "wait" /\ two.delay = both.values[1]
  BY DEF Wait
<1> SUFFICES ASSUME jobs.command # Invalid PROVE WaitsAlike(text, jobs, client)
  OBVIOUS
<1> HIDE DEF a, b, both, jobs, client, two, ends
<1>9. a.at \in Nat /\ a.at \in p + 1 .. Len(text) + 2 /\ b.at = a.at
  BY <1>1, <1>2, <1>4 DEF NumbersRead, Alike
<1>10. CASE spaceJ
  <2>1. jobs = Parsed(text, both, two)
    BY <1>5, <1>10
  <2>2. both.ok /\ jobs.at = both.at /\ jobs.command = two
    BY <2>1 DEF Parsed, Reading
  <2>3. a.at - 1 \in Nat /\ a.at - 1 <= Len(text)
    <3>1. a.at - 1 \in Nat
      BY <1>1, <1>9
    <3> QED
      BY <1>10, <3>1, InText DEF Nul
  <2>4. a.at \in 1 .. Len(text) + 1 /\ a.at <= Len(text) + 1
    BY <1>1, <1>9, <2>3
  <2>5. a = b
    <3>1. a.at # Len(text) + 2
      BY <1>1, <2>4
    <3> QED
      BY <1>4, <1>10, <3>1 DEF Alike
  <2>6. client.command = one(a) /\ client.at = Cleanup(text, a.at)
    <3>1. client = Reading(one(a), Cleanup(text, a.at))
      BY <1>6, <1>10, <2>5
    <3> HIDE DEF one
    <3> QED
      BY <3>1 DEF Reading
  <2> DEFINE u == Uint(Jobs, text, a.at)
  <2>7. /\ UintRead(text, a.at, u) /\ both.at = u.at
        /\ both.values = Append(a.values, u.value)
        /\ Char(text, both.at - 1) \in LineEnd
    <3>1. a.ok => a.at <= Len(text) + 1
      BY <2>4
    <3>2. 1 \in Nat /\ a.ok
      BY <1>10
    <3>3. NumbersRead(text, p, 1, a)
      BY <1>2
    <3>4. /\ NumbersRead(text, p, 1 + 1, both)
          /\ ~a.ok => both = a
          /\ a.ok => /\ UintRead(text, a.at, u)
                     /\ both.at = u.at /\ both.at > a.at
                     /\ both.ok <=> u.ok /\ u.next \in LineEnd
                     /\ both.values = Append(a.values, u.value)
          /\ both.ok => a.ok /\ Char(text, both.at - 1) \in LineEnd
      BY <1>1, <3>1, <3>2, <3>3, NumberIs, Zenon DEF both, u
    <3> QED
      BY <2>2, <3>2, <3>4
  <2> HIDE DEF u
  <2>8. both.values[1] = a.values[1]
    <3>1. a.values \in Seq(0 .. MaxUint) /\ Len(a.values) = 1
      BY <1>2, <1>10 DEF NumbersRead
    <3> QED
      BY <2>7, <3>1
  <2>9. client.command = Wait(jobs.command.delay, Everybody)
    BY <1>8, <2>2, <2>6, <2>8
  <2>10. PICK e \in a.at .. Len(text) + 1 :
            /\ both.at = e + 1 /\ Char(text, e) \in LineEnd
            /\ \A r \in a.at .. e - 1 : Char(text, r) # "\n"
    <3>1. both.at \in a.at + 1 .. Len(text) + 2
      BY <2>7 DEF UintRead
    <3>2. both.at - 1 \in a.at .. Len(text) + 1 /\ both.at = (both.at - 1) + 1
      <4>1. a.at \in Nat /\ Len(text) \in Nat
        BY <1>1, <1>9
      <4> QED
        BY <3>1, <4>1, OneBefore
    <3>3. PICK e \in a.at .. Len(text) + 1 : both.at = e + 1 /\ e = both.at - 1
      BY <3>2
    <3>4. \A r \in a.at .. both.at - 2 : IsDigit(Char(text, r))
      BY <2>7 DEF UintRead
    <3>5. both.at - 2 = e - 1
      BY <1>9, <3>3
    <3>6. \A r \in a.at .. e - 1 : Char(text, r) # "\n"
      BY <3>4, <3>5, NoDigits
    <3> QED
      BY <2>7, <3>3, <3>6
  <2>11. a.at \in Nat /\ e \in Nat
    BY <1>9, <2>10
  <2>12. CASE Char(text, e) = "\n"
    <3>1. e <= Len(text)
      BY <2>11, <2>12, InText DEF Nul
    <3>2. e \in a.at .. Len(text)
      BY <2>10, <3>1
    <3>3. Cleanup(text, a.at) = e + 1
      BY <1>1, <2>10, <2>11, <2>12, <3>2, CleanupFound
    <3> QED
      BY <1>8, <2>2, <2>6, <2>9, <2>10, <3>3 DEF WaitsAlike
  <2>13. CASE Char(text, e) # "\n"
    <3>1. Char(text, e) = Nul
      BY <2>10, <2>13 DEF LineEnd
    <3>2. e = Len(text) + 1
      <4>1. ~(e \in 1 .. Len(text))
        BY <3>1 DEF IsText
      <4> QED
        BY <1>1, <1>9, <2>10, <2>11, <4>1
    <3>3. EndsLine(text, a.at, Cleanup(text, a.at))
      BY <1>1, <2>11, CleanupEndsLine
    <3>4. \A r \in a.at .. Len(text) : Char(text, r) # "\n"
      <4>1. e - 1 = Len(text)
        BY <1>1, <3>2
      <4> QED
        BY <2>10, <4>1
    <3>5. Cleanup(text, a.at) = Len(text) + 1
      BY <3>3, <3>4 DEF EndsLine
    <3>6. jobs.at > Len(text) /\ client.at > Len(text)
      BY <1>1, <2>2, <2>6, <2>10, <3>2, <3>5
    <3> QED
      BY <1>8, <2>2, <2>9, <3>6 DEF WaitsAlike
  <2> QED
    BY <2>12, <2>13
<1>11. CASE ~spaceJ
  <2>1. jobs = Parsed(text, a, one(a))
    BY <1>5, <1>11
  <2> HIDE DEF one
  <2>2. a.ok /\ jobs.at = a.at /\ jobs.command = one(a)
    BY <2>1 DEF Parsed, Reading
  <2>3. CASE a = b
    <3>1. client = Parsed(text, a, one(a))
      BY <1>6, <1>11, <2>3
    <3>2. client = jobs
      BY <2>1, <3>1
    <3>3. one(a) = Wait(one(a).delay, Everybody)
      BY <1>7 DEF one
    <3> QED
      BY <1>7, <2>2, <3>2, <3>3 DEF WaitsAlike
  <2>4. CASE a.at = Len(text) + 2 /\ Char(text, Len(text)) # "\n"
    <3>1. Char(text, b.at - 1) = Nul
      <4>1. b.at - 1 = Len(text) + 1 /\ ~(Len(text) + 1 <= Len(text))
        BY <1>1, <1>9, <2>4
      <4> QED
        BY <4>1 DEF Char
    <3>2. client = Parsed(text, b, one(b))
      BY <1>6, <3>1 DEF Nul
    <3>3. /\ client.at = IF b.ok THEN b.at ELSE Cleanup(text, b.at)
          /\ client.command = IF b.ok THEN one(b) ELSE Invalid
      BY <3>2 DEF Parsed, Reading
    <3>4. Cleanup(text, b.at) = Len(text) + 1
      <4>1. b.at \in Nat /\ b.at >= Len(text) + 1
        BY <1>1, <1>9, <2>4
      <4> QED
        BY <1>1, <4>1, CleanupRange
    <3>5. client.at > Len(text) /\ jobs.at > Len(text)
      BY <1>1, <1>9, <2>2, <2>4, <3>3, <3>4
    <3>6. client.command = Invalid \/ client.command.op = "wait"
      BY <1>7, <3>3
    <3>7. BothEnded(text, jobs, client)
      BY <2>4, <3>5 DEF BothEnded
    <3> QED
      BY <1>7, <2>2, <3>5, <3>6, <3>7 DEF WaitsAlike
  <2> QED
    BY <1>4, <2>2, <2>3, <2>4 DEF Alike
<1> QED
  BY <1>10, <1>11 DEF jobs, client

\* get_next of the two programs.
LEMMA GetNextSame ==
    ASSUME NEW text, NEW p, Char(text, p) # "B"
    PROVE  GetNext(JobWords, text, p) = GetNext(ClientWords, text, p)
<1>1. /\ Char(text, p) \in DOMAIN ClientWords
             <=> Char(text, p) \in DOMAIN JobWords
      /\ Char(text, p) \in DOMAIN ClientWords =>
             ClientWords[Char(text, p)] = JobWords[Char(text, p)]
  <2>1. /\ \A first \in DOMAIN JobWords \ {"B"} : first \in DOMAIN ClientWords
        /\ \A first \in DOMAIN ClientWords :
              first \in DOMAIN JobWords /\ ClientWords[first] = JobWords[first]
    BY WordsAre DEF AreWords
  <2> QED
    BY <2>1
<1> QED
  BY <1>1 DEF GetNext

\* The command that get_next returns is that of the first character.
LEMMA WordOfFirst ==
    ASSUME NEW text, NEW p
    PROVE  LET r == GetNext(JobWords, text, p)
           IN  \/ r.command \in {Empty, Invalid}
               \/ /\ Char(text, p) \in DOMAIN JobWords
                  /\ r.command = [op |-> JobWords[Char(text, p)]]
BY DEF GetNext, Reading

\* Neither an empty nor an invalid line has a word.
LEMMA NoCommand ==
    /\ \A c \in {Empty, Invalid} : c.op = "empty" \/ c.op = "invalid"
    /\ \A word : [op |-> word].op = word
BY DEF Empty, Invalid

\* A line with the word WAIT starts with a W.
LEMMA WaitIsRead ==
    ASSUME NEW text, NEW p, GetNext(JobWords, text, p).command.op = "WAIT "
    PROVE  Char(text, p) = "W"
<1> DEFINE r == GetNext(JobWords, text, p)
           first == Char(text, p)
<1>1. \/ r.command \in {Empty, Invalid}
      \/ first \in DOMAIN JobWords /\ r.command = [op |-> JobWords[first]]
  BY WordOfFirst, Zenon
<1>2. r.command.op = "WAIT "
  OBVIOUS
<1> HIDE DEF r, first
<1>3. first \in DOMAIN JobWords /\ JobWords[first] = "WAIT "
  <2>1. r.command \in {Empty, Invalid} =>
           r.command.op = "empty" \/ r.command.op = "invalid"
    BY NoCommand
  <2>2. r.command \notin {Empty, Invalid}
    BY <1>2, <2>1, Zenon
  <2>4. r.command = [op |-> JobWords[first]] => r.command.op = JobWords[first]
    BY NoCommand, Zenon
  <2> QED
    BY <1>1, <1>2, <2>2, <2>4, Zenon
<1>4. \A f \in DOMAIN JobWords : f # "W" => JobWords[f] # "WAIT "
  <2>1. DOMAIN JobWords = {"C", "R", "S", "L", "B", "W", "H"}
    BY DEF JobWords
  <2>2. /\ JobWords["C"] = "CREATE " /\ JobWords["R"] = "RESERVE "
        /\ JobWords["S"] = "SHOW " /\ JobWords["L"] = "LIST"
        /\ JobWords["B"] = "BARRIER" /\ JobWords["H"] = "HELP"
    BY DEF JobWords
  <2> QED
    BY <2>1, <2>2
<1> QED
  BY <1>3, <1>4 DEF first

\* Commands that the client reads as projeto1 does.
LEMMA SameView ==
    ASSUME NEW c,
           c.op \in {"create", "show", "list", "help", "empty", "invalid"}
    PROVE  Sorted(c) = c /\ ClientView(c) = c
BY DEF Sorted, ClientView

\* Readings that are alike, of a command that both programs know.
LEMMA AlikeReads ==
    ASSUME NEW text, NEW p,
           ReadingsAlike(text, Command(Jobs, text, p),
                         Command(Client, text, p)),
           Sorted(Command(Client, text, p).command)
               = Command(Client, text, p).command,
           ClientView(Command(Jobs, text, p).command)
               = Command(Jobs, text, p).command
    PROVE  ReadAlike(text, p)
BY DEF ReadAlike, SameReading, ReadingsAlike, BothEnded

\* BARRIER, which the client does not know.
LEMMA BarrierAlike ==
    ASSUME NEW text, IsText(text), NEW p \in 1 .. Len(text),
           Char(text, p) = "B"
    PROVE  Refused(text, p) \/ ReadAlike(text, p)
<1> DEFINE jobs   == Command(Jobs, text, p)
           client == Command(Client, text, p)
           r      == GetNext(JobWords, text, p)
           word   == "BARRIER"
           after  == p + Len(word)
           differs == \E h \in 1 .. Len(word) :
                          Char(text, p + h - 1) # Char(word, h)
<1>1. "B" \in DOMAIN JobWords /\ JobWords["B"] = word
  BY DEF JobWords
<1>2. client = Reading(Invalid, Cleanup(text, p + 1))
  <2>1. "B" \notin DOMAIN ClientWords
    BY WordsAre
  <2>2. GetNext(ClientWords, text, p) = Reading(Invalid, Cleanup(text, p + 1))
    BY <2>1 DEF GetNext
  <2>3. ClientSwitch(text, Reading(Invalid, Cleanup(text, p + 1)))
            = Reading(Invalid, Cleanup(text, p + 1))
    BY DEF ClientSwitch, Reading, Invalid
  <2> QED
    BY <2>2, <2>3 DEF Command
<1>3. r = IF differs THEN Reading(Invalid, Cleanup(text, after))
          ELSE IF Char(text, after) \in LineEnd
          THEN Reading([op |-> word], after + 1)
          ELSE Reading(Invalid, Cleanup(text, after + 1))
  BY <1>1 DEF GetNext, WordsAlone
<1>4. jobs = JobSwitch(text, r)
  BY DEF Command, Jobs, Client
<1>5. ASSUME NEW q, r = Reading(Invalid, q) PROVE Refused(text, p)
  <2>1. JobSwitch(text, Reading(Invalid, q)) = Reading(Invalid, q)
    BY DEF JobSwitch, Reading, Invalid
  <2>2. jobs = Reading(Invalid, q)
    BY <1>4, <1>5, <2>1
  <2> HIDE DEF jobs
  <2>3. jobs.command = Invalid
    BY <2>2 DEF Reading
  <2> QED
    BY <2>3 DEF Refused, jobs
<1>6. CASE ~differs /\ Char(text, after) \in LineEnd
  <2>1. r = Reading([op |-> "BARRIER"], after + 1)
    BY <1>3, <1>6
  <2>2. JobSwitch(text, Reading([op |-> "BARRIER"], after + 1))
            = Reading([op |-> "barrier"], after + 1)
    BY DEF JobSwitch, Reading
  <2>3. jobs = Reading([op |-> "barrier"], after + 1)
    BY <1>4, <2>1, <2>2
  <2>4. /\ after \in p + 1 .. Len(text) + 1
        /\ Len(word) \in Nat \ {0}
        /\ \A h \in 1 .. Len(word) : Char(word, h) \notin LineEnd
    <3>1. \A h \in 1 .. Len(JobWords["B"]) :
              Char(text, p + h - 1) = Char(JobWords["B"], h)
      BY <1>1, <1>6
    <3>2. p + Len(JobWords["B"]) \in p + 1 .. Len(text) + 1
      BY <1>1, <3>1, WordFits
    <3>3. /\ Len(JobWords["B"]) \in Nat \ {0}
          /\ \A h \in 1 .. Len(JobWords["B"]) :
                Char(JobWords["B"], h) \notin LineEnd
      BY <1>1, WordsAssumption
    <3> QED
      BY <1>1, <3>2, <3>3
  <2>5. \A h \in 1 .. Len(word) : Char(text, p + h - 1) \notin LineEnd
    BY <1>6, <2>4
  <2> DEFINE n == Len(word)
  <2>6. n \in Nat \ {0} /\ after = p + n /\ p \in Nat /\ Len(text) \in Nat
    BY <2>4 DEF IsText
  <2> HIDE DEF n, after, jobs, client
  <2>7. \A q \in p + 1 .. after - 1 : Char(text, q) # "\n"
    <3> TAKE q \in p + 1 .. after - 1
    <3>1. q - p + 1 \in 1 .. n /\ p + (q - p + 1) - 1 = q
      BY <2>6
    <3>2. Char(text, p + (q - p + 1) - 1) \notin LineEnd
      BY <2>5, <3>1 DEF n
    <3> QED
      BY <3>1, <3>2 DEF LineEnd
  <2>8. /\ jobs.at = after + 1 /\ jobs.command = [op |-> "barrier"]
        /\ client.at = Cleanup(text, p + 1) /\ client.command = Invalid
    BY <1>2, <2>3 DEF Reading
  <2>9. Sorted(client.command) = ClientView(jobs.command)
    BY <2>8 DEF Sorted, ClientView, Invalid
  <2>10. CASE Char(text, after) = "\n"
    <3>1. after \in Nat
      BY <2>6
    <3>2. after <= Len(text)
      BY <2>10, <3>1, InText DEF Nul
    <3>3. after \in p + 1 .. Len(text) /\ p + 1 \in Nat
      BY <2>4, <2>6, <3>2
    <3>4. Cleanup(text, p + 1) = after + 1
      BY <2>6, <2>7, <2>10, <3>3, CleanupFound
    <3>5. jobs.at = client.at
      BY <2>8, <3>4
    <3> QED
      BY <2>9, <3>5 DEF ReadAlike, SameReading, jobs, client
  <2>11. CASE Char(text, after) = Nul
    <3>1. ~(after \in 1 .. Len(text))
      BY <2>11 DEF IsText
    <3>2. after = Len(text) + 1
      BY <2>4, <2>6, <3>1
    <3>3. EndsLine(text, p + 1, Cleanup(text, p + 1))
      BY <2>6, CleanupEndsLine
    <3>4. \A q \in p + 1 .. Len(text) : Char(text, q) # "\n"
      BY <2>6, <2>7, <3>2
    <3>5. Cleanup(text, p + 1) = Len(text) + 1
      BY <3>3, <3>4 DEF EndsLine
    <3>6. jobs.at > Len(text) /\ client.at > Len(text)
      BY <2>6, <2>8, <3>2, <3>5
    <3> QED
      BY <2>9, <3>6 DEF ReadAlike, SameReading, jobs, client
  <2> QED
    BY <1>6, <2>10, <2>11 DEF LineEnd
<1> QED
  BY <1>3, <1>5, <1>6

\* WAIT, of which the client does not know the thread.
LEMMA WaitReads ==
    ASSUME NEW text, NEW p, NEW jobs, NEW client,
           jobs = Command(Jobs, text, p), client = Command(Client, text, p),
           WaitsAlike(text, jobs, client)
    PROVE  ReadAlike(text, p)
<1>1. ClientView(jobs.command) = Wait(jobs.command.delay, Everybody)
  BY DEF WaitsAlike, ClientView
<1>2. Sorted(Wait(jobs.command.delay, Everybody))
          = Wait(jobs.command.delay, Everybody)
  BY DEF Sorted, Wait
<1>3. jobs.at = client.at \/ (jobs.at > Len(text) /\ client.at > Len(text))
  BY DEF WaitsAlike
<1>4. CASE client.command = Wait(jobs.command.delay, Everybody)
  <2>1. Sorted(client.command) = ClientView(jobs.command)
    BY <1>1, <1>2, <1>4
  <2> QED
    BY <1>3, <2>1 DEF ReadAlike, SameReading
<1>5. CASE /\ BothEnded(text, jobs, client)
           /\ client.command = Invalid \/ client.command.op = "wait"
  <2>1. jobs.command.op = "wait"
    BY DEF WaitsAlike
  <2> QED
    BY <1>5, <2>1 DEF ReadAlike, SameReading, BothEnded
<1> QED
  BY <1>4, <1>5 DEF WaitsAlike

\* The client reads a text without a run of digits that overruns buf as projeto1
\* does, from each of its positions on, with two exceptions: a BARRIER or WAIT
\* that projeto1 refuses may end elsewhere (Refused), and of the last command of
\* a text without final newline only the end is certain, and the kind if neither
\* program refuses it (SameReading).
THEOREM TextReadAlike ==
    ASSUME NEW text, IsText(text), NEW p \in 1 .. Len(text)
    PROVE  Refused(text, p) \/ ReadAlike(text, p)
<1> DEFINE jobs   == Command(Jobs, text, p)
           client == Command(Client, text, p)
           r      == GetNext(JobWords, text, p)
<1>1. CASE Char(text, p) = "B"
  BY <1>1, BarrierAlike
<1>2. CASE Char(text, p) # "B"
  <2>1. r = GetNext(ClientWords, text, p)
    BY <1>2, GetNextSame
  <2>2. WordRead(text, p, r)
    BY WordsAre, GetNextReads
  <2>3. r.command.op # "BARRIER"
    BY <2>1, ClientHasNoBarrier
  <2>4. jobs = JobSwitch(text, r)
    BY DEF Command, Jobs, Client
  <2>5. client = ClientSwitch(text, r)
    BY <2>1 DEF Command
  <2>6. r.command.op = "WAIT " => Char(text, p) = "W"
    BY WaitIsRead
  <2> HIDE DEF r, jobs, client
  <2>7. CASE r.command \in {Empty, Invalid}
    <3>1. r.command.op = "empty" \/ r.command.op = "invalid"
      BY <2>7 DEF Empty, Invalid
    <3>2. jobs = r /\ client = r
      BY <2>4, <2>5, <3>1 DEF JobSwitch, ClientSwitch
    <3>3. Sorted(r.command) = r.command /\ ClientView(r.command) = r.command
      BY <3>1, SameView
    <3>4. ReadingsAlike(text, jobs, client)
      BY <3>2 DEF ReadingsAlike
    <3> QED
      BY <3>2, <3>3, <3>4, AlikeReads DEF jobs, client
  <2>8. CASE \E word \in LoneWords : r.command = [op |-> word]
    <3>1. r.command.op \in LoneWords
      BY <2>8
    <3>2. \/ r.command.op = "LIST" \/ r.command.op = "HELP"
      BY <2>3, <3>1 DEF LoneWords
    <3>3. jobs = client
      BY <2>4, <2>5, <3>2 DEF JobSwitch, ClientSwitch
    <3>4. \/ jobs = Reading([op |-> "list"], r.at)
          \/ jobs = Reading([op |-> "help"], r.at)
      BY <2>4, <3>2 DEF JobSwitch
    <3>5. jobs.command.op = "list" \/ jobs.command.op = "help"
      BY <3>4 DEF Reading
    <3>6. /\ Sorted(jobs.command) = jobs.command
          /\ ClientView(jobs.command) = jobs.command
      BY <3>5, SameView
    <3>7. ReadingsAlike(text, jobs, client)
      BY <3>3 DEF ReadingsAlike
    <3> QED
      BY <3>3, <3>6, <3>7, AlikeReads DEF jobs, client
  <2>9. CASE /\ \E word \in HeadWords : r.command = [op |-> word]
             /\ r.at <= Len(text) + 1 /\ Char(text, r.at - 1) # "\n"
    <3>1. r.command.op \in HeadWords
      BY <2>9
    <3>2. r.at \in 2 .. Len(text) + 1 /\ r.at \in 1 .. Len(text) + 1
      BY <2>2, <2>9 DEF WordRead, IsText
    <3>3. CASE r.command.op = "CREATE "
      <4>1. /\ jobs = ParseCreate(Jobs, text, r.at)
            /\ client = ParseCreate(Client, text, r.at)
        BY <2>4, <2>5, <3>3 DEF JobSwitch, ClientSwitch
      <4>2. ReadingsAlike(text, jobs, client)
        BY <3>2, <4>1, CreateAlike
      <4>3. /\ jobs.command.op \in {"create", "invalid"}
            /\ client.command.op \in {"create", "invalid"}
        BY <3>2, <4>1, CreateParsed DEF CreateCommands, Invalid
      <4>4. /\ Sorted(client.command) = client.command
            /\ ClientView(jobs.command) = jobs.command
        BY <4>3, SameView
      <4> QED
        BY <4>2, <4>4, AlikeReads DEF jobs, client
    <3>4. CASE r.command.op = "SHOW "
      <4>1. /\ jobs = ParseShow(Jobs, text, r.at)
            /\ client = ParseShow(Client, text, r.at)
        BY <2>4, <2>5, <3>4 DEF JobSwitch, ClientSwitch
      <4>2. ReadingsAlike(text, jobs, client)
        BY <2>9, <3>2, <4>1, ShowAlike
      <4>3. /\ jobs.command.op \in {"show", "invalid"}
            /\ client.command.op \in {"show", "invalid"}
        BY <3>2, <4>1, ShowParsed DEF ShowCommands, Invalid
      <4>4. /\ Sorted(client.command) = client.command
            /\ ClientView(jobs.command) = jobs.command
        BY <4>3, SameView
      <4> QED
        BY <4>2, <4>4, AlikeReads DEF jobs, client
    <3>5. CASE r.command.op = "RESERVE "
      <4>1. /\ jobs = ParseReserveSorted(text, r.at)
            /\ client = ParseReserve(Client, text, r.at)
        BY <2>4, <2>5, <3>5 DEF JobSwitch, ClientSwitch
      <4>2. /\ jobs.at = client.at
            /\ jobs.command = Sorted(client.command)
        BY <3>2, <4>1, ReserveSame
           DEF ParseReserveSorted, SortedReading, Reading
      <4>3. client.command \in ReserveCommands \cup {Invalid}
        BY <3>2, <4>1, ReserveParsed
      <4>4. jobs.command.op \in {"reserve", "invalid"}
        <5>1. CASE client.command \in ReserveCommands
          <6>1. jobs.command \in ReserveCommands
            BY <4>2, <5>1, SeatsSorted
          <6> QED
            BY <6>1 DEF ReserveCommands
        <5>2. CASE client.command = Invalid
          BY <4>2, <5>2 DEF Sorted, Invalid
        <5> QED
          BY <4>3, <5>1, <5>2
      <4>5. ClientView(jobs.command) = jobs.command
        BY <4>4 DEF ClientView
      <4> QED
        BY <4>2, <4>5 DEF ReadAlike, SameReading, jobs, client
    <3>6. CASE r.command.op = "WAIT "
      <4>1. /\ jobs = ParseWait(text, r.at)
            /\ client = ClientParseWait(text, r.at)
        BY <2>4, <2>5, <3>6 DEF JobSwitch, ClientSwitch
      <4>2. jobs.command = Invalid \/ WaitsAlike(text, jobs, client)
        BY <2>9, <3>2, <4>1, WaitAlike
      <4>3. CASE jobs.command = Invalid
        BY <2>6, <3>6, <4>3 DEF Refused, jobs
      <4>4. CASE WaitsAlike(text, jobs, client)
        BY <4>4, WaitReads DEF jobs, client
      <4> QED
        BY <4>2, <4>3, <4>4
    <3> QED
      BY <3>1, <3>3, <3>4, <3>5, <3>6 DEF HeadWords
  <2> QED
    BY <2>2, <2>7, <2>8, <2>9 DEF WordRead
<1> QED
  BY <1>1, <1>2

------------------------------------------------------------------------------
(*****************************************************************************)
(* Jobs files.                                                               *)
(*****************************************************************************)

\* The lines of a jobs file that are operations are requests, as JobThreads
\* assumes of Files, if no run of digits of the file overruns buf of read_uint:
\* any number in them fits an unsigned int, and a RESERVE has a seat.
THEOREM LinesAreRequests ==
    ASSUME NEW text, IsText(text)
    PROVE  LET lines == Commands(Jobs, text)
           IN  /\ lines \in Seq({lines[l] : l \in DOMAIN lines})
               /\ \A l \in DOMAIN lines :
                     lines[l].op \in OpNames => lines[l] \in Request
<1> DEFINE lines == Commands(Jobs, text)
<1>1. lines \in Seq(JobCommands)
  BY TextIsRead
<1> HIDE DEF lines
<1>2. DOMAIN lines = 1 .. Len(lines) /\ Len(lines) \in Nat
  BY <1>1, LenProperties
<1>3. lines \in Seq({lines[l] : l \in DOMAIN lines})
  <2> DEFINE S == {lines[l] : l \in DOMAIN lines}
  <2>1. lines \in [1 .. Len(lines) -> S]
    <3>1. lines \in [1 .. Len(lines) -> JobCommands]
      BY <1>1, LenProperties
    <3> QED
      BY <1>2, <3>1
  <2> HIDE DEF S
  <2>2. lines \in Seq(S)
    BY <1>2, <2>1, SeqDef
  <2> QED
    BY <2>2 DEF S
<1>4. Uints \subseteq Nat
  BY ParserAssumption DEF Uints
<1>5. \A c \in JobCommands : c.op \in OpNames => c \in Request
  <2> SUFFICES ASSUME NEW c \in JobCommands, c.op \in OpNames
               PROVE  c \in Request
    OBVIOUS
  <2>1. CASE c \in CreateCommands
    <3>1. c \in CreateRequest
      BY <1>4, <2>1 DEF CreateCommands, CreateRequest
    <3> QED
      BY <3>1 DEF Request
  <2>2. CASE c \in ShowCommands
    <3>1. c \in ShowRequest
      BY <1>4, <2>2 DEF ShowCommands, ShowRequest
    <3> QED
      BY <3>1 DEF Request
  <2>3. CASE c \in ReserveCommands
    <3>1. PICK id \in Uints, seats \in SeatLists :
              c = [op |-> "reserve", id |-> id, seats |-> seats]
      BY <2>3 DEF ReserveCommands
    <3>2. seats \in Seq(Nat \X Nat) \ {<<>>}
      <4>1. seats \in Seq(SeatPairs) /\ Len(seats) \in 1 .. MaxReservation - 1
        BY DEF SeatLists
      <4>2. seats \in [1 .. Len(seats) -> SeatPairs] /\ Len(seats) \in Nat
        BY <4>1, LenProperties
      <4>3. SeatPairs \subseteq Nat \X Nat
        BY <1>4 DEF SeatPairs
      <4>4. seats \in [1 .. Len(seats) -> Nat \X Nat]
        BY <4>2, <4>3
      <4>5. seats \in Seq(Nat \X Nat)
        BY <4>2, <4>4, SeqDef
      <4>6. seats # <<>>
        BY <4>1, EmptySeq
      <4> QED
        BY <4>5, <4>6
    <3>3. c \in ReserveRequest
      BY <1>4, <3>1, <3>2 DEF ReserveRequest
    <3> QED
      BY <3>3 DEF Request
  <2>4. CASE c \in WaitCommands
    BY <2>4 DEF WaitCommands, OpNames
  <2>5. CASE c \in OtherCommands
    <3>1. c = [op |-> "list"]
      BY <2>5 DEF OtherCommands, OpNames
    <3>2. c \in ListRequest
      BY <3>1 DEF ListRequest
    <3> QED
      BY <3>2 DEF Request
  <2> QED
    BY <2>1, <2>2, <2>3, <2>4, <2>5 DEF JobCommands
<1>6. \A l \in DOMAIN lines : lines[l] \in JobCommands
  BY <1>1, <1>2, ElementOfSeq
<1> QED
  BY <1>3, <1>5, <1>6 DEF lines

\* No process changes its jobs file.
LEMMA FileKept ==
    ASSUME [Next]_vars
    PROVE  file' = file
<1>1. CASE UNCHANGED threads
  BY <1>1 DEF threads, control
<1>2. CASE ThreadsNext
  <2>1. CASE MainStep
    BY <2>1 DEF MainStep, StartThread, JoinThread, RestartThread
  <2>2. ASSUME NEW t \in Threads, ThreadStep(t) PROVE file' = file
    BY <2>2 DEF ThreadStep, StopAtBarrier, SkipLine, RunLine, EndOfFile,
                RunOperation, control
  <2> QED
    BY <1>2, <2>1, <2>2 DEF ThreadsNext
<1> QED
  BY <1>1, <1>2 DEF Next, At, vars

\* Whichever jobs file a process is given, a client that is given the same one
\* reads the same commands, from each position in it on, but for a BARRIER or
\* WAIT that projeto1 refuses and for the last command of a file without final
\* newline, as in TextReadAlike.
THEOREM ParsersReadAlike == Spec => []ParsersAgree
<1>1. Init => file \in Files
  BY DEF Init, ThreadsInit
<1>2. file \in Files /\ [Next]_vars => (file \in Files)'
  BY FileKept
<1>3. file \in Files => ParsersAgree
  <2> SUFFICES ASSUME file \in Files, NEW p \in 1 .. Len(file.text)
               PROVE  Refused(file.text, p) \/ ReadAlike(file.text, p)
    BY DEF ParsersAgree
  <2>1. IsText(file.text)
    BY TextsAssumption
  <2> QED
    BY <2>1, TextReadAlike
<1> QED
  BY <1>1, <1>2, <1>3, PTL DEF Spec

==============================================================================
