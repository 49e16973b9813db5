---------------------------- MODULE CheckDigits ----------------------------
(***************************************************************************)
(* pii/detect/validators.go and validators_eu.go: the check digits that    *)
(* make a match of a pattern an entity.  A character is a number: 0 .. 9   *)
(* are the digits, 10 .. 35 the letters; then three separators.  Numbers   *)
(* are issued by the arithmetic of their standards, and written down as    *)
(* they are, with a separator, with one character mistyped or with two     *)
(* neighbours swapped.                                                     *)
(***************************************************************************)
EXTENDS Integers, Sequences, FiniteSets
LOCAL INSTANCE Functions
LOCAL INSTANCE SequencesExt

CONSTANT Bodies   \* what is issued, but for what the check makes of it: [kind, of]

VARIABLES
  kind,      \* the name of a validator
  number,    \* as it is written
  slip,      \* "none", "separated", "mistyped", "swapped"
  verdict    \* "open", then "valid" or "refused"

vars == <<kind, number, slip, verdict>>

Digit  == 0 .. 9
Letter == 10 .. 35
Space  == 36
Hyphen == 37
Slash  == 38
X      == 33
AllOf(v, from, to, class) == \A i \in from .. to : v[i] \in class
Without(v, separators)    == SelectSeq(v, LAMBDA ch : ch \notin separators)
\* The value of digits as one number, modulo m.
Modulo(f, m) == SumFunction(f) % m
Value(v, m)  == FoldLeft(LAMBDA sum, d : (sum * 10 + d) % m, 0, v)

-----------------------------------------------------------------------------
\* LuhnValid: from the right, every second digit is doubled.
Doubled(d)     == IF 2 * d > 9 THEN 2 * d - 9 ELSE 2 * d
Second(v, i)   == (Len(v) - i) % 2 = 1
LuhnValid(v) ==
  /\ Len(v) >= 2 /\ AllOf(v, 1, Len(v), Digit)
  /\ Modulo([i \in DOMAIN v |-> IF Second(v, i) THEN Doubled(v[i]) ELSE v[i]], 10) = 0

\* cardNetworks: a range of prefixes of so many digits, and the lengths they have.
Network(digits, from, to, lengths) == [digits |-> digits, from |-> from, to |-> to, lengths |-> lengths]
CardNetworks ==
  {Network(1, 4, 4, {13, 16, 19}), Network(2, 51, 55, {16}), Network(4, 2221, 2720, {16}),
   Network(2, 34, 34, {15}), Network(2, 37, 37, {15}), Network(2, 62, 62, 16 .. 19),
   Network(4, 3528, 3589, 16 .. 19), Network(2, 36, 36, {14, 16, 19}), Network(2, 38, 39, {14, 16, 19}),
   Network(3, 300, 305, {14, 16, 19}), Network(4, 6011, 6011, {16, 19}), Network(2, 65, 65, {16, 19}),
   Network(6, 622126, 622925, {16, 19})}
    \cup {Network(4, p, p, 12 .. 19) : p \in {5018, 5020, 5038, 6304, 6759, 6761, 6762, 6763}}
Prefix(v, n) == Value(SubSeq(v, 1, n), 1000000)
CardNetworkKnown(v) ==
  \E n \in CardNetworks : Prefix(v, n.digits) \in n.from .. n.to /\ Len(v) \in n.lengths
BankCardValid(v) ==
  Len(v) \in 12 .. 19 /\ AllOf(v, 1, Len(v), Digit) /\ CardNetworkKnown(v) /\ LuhnValid(v)
BankCardLuhnValid(v) == Len(v) \in 12 .. 19 /\ LuhnValid(v)

\* CNIDCardValid: the date of birth, and the check character of the weighted sum.
IdWeights    == <<7, 9, 10, 5, 8, 4, 2, 1, 6, 3, 7, 9, 10, 5, 8, 4, 2>>
IdCheckChars == <<1, 0, X, 9, 8, 7, 6, 5, 4, 3, 2>>
CNIDCardValid(v) ==
  /\ Len(v) = 18 /\ AllOf(v, 1, 17, Digit)
  /\ v[11] * 10 + v[12] \in 1 .. 12 /\ v[13] * 10 + v[14] \in 1 .. 31
  /\ v[18] = IdCheckChars[Modulo([i \in 1 .. 17 |-> v[i] * IdWeights[i]], 11) + 1]

\* CNUSCCValid: 31 characters, without I, O, S, V and Z.
UsccChars   == Digit \cup (Letter \ {18, 24, 28, 31, 35})
UsccIndex(ch) == Cardinality({u \in UsccChars : u < ch})
UsccWeights == <<1, 3, 9, 27, 19, 26, 16, 17, 20, 29, 25, 13, 8, 24, 10, 30, 28>>
CNUSCCValid(v) ==
  /\ Len(v) = 18 /\ AllOf(v, 1, 18, UsccChars)
  /\ UsccIndex(v[18])
       = (31 - Modulo([i \in 1 .. 17 |-> UsccIndex(v[i]) * UsccWeights[i]], 31)) % 31

-----------------------------------------------------------------------------
\* IBANValid: a length for each country, and what the rearranged number leaves,
\* taken digit by digit; a letter is two digits.
IbanLengths == [DE |-> 22, GB |-> 22, NO |-> 15]   \* of the countries of the corpus
Countries   == [DE |-> <<13, 14>>, GB |-> <<16, 11>>, NO |-> <<23, 24>>]
AdvanceOnce(remainder, ch) == (remainder * 10 + ch) % 97   \* mutant: a letter as one digit
Advance(remainder, ch) == (remainder * (IF ch \in Letter THEN 100 ELSE 10) + ch) % 97
Remainder(v) == FoldLeft(Advance, 0, v)
IBANValid(w) ==
  LET v == Without(w, {Space, Hyphen}) IN
  /\ Len(v) \in 15 .. 34
  /\ \E code \in DOMAIN Countries : SubSeq(v, 1, 2) = Countries[code] /\ Len(v) = IbanLengths[code]
  /\ AllOf(v, 3, 4, Digit) /\ AllOf(v, 1, Len(v), Digit \cup Letter)
  /\ Remainder(SubSeq(v, 5, Len(v)) \o SubSeq(v, 1, 4)) = 1

\* ItalyCodiceFiscaleValid: values by decree at the odd places.
CfOddLetters == <<1, 0, 5, 7, 9, 13, 15, 17, 19, 21, 2, 4, 18, 20, 11, 3, 6, 8, 12, 14, 16, 10, 22, 25, 24, 23>>
CfEvenValue(ch) == IF ch \in Letter THEN ch - 10 ELSE ch
CfOddValue(ch)  == CfOddLetters[CfEvenValue(ch) + 1]
ItalyCodiceFiscaleValid(v) ==
  /\ Len(v) = 16 /\ AllOf(v, 1, 16, Digit \cup Letter)
  /\ v[16] - 10 =
       Modulo([i \in 1 .. 15 |-> IF i % 2 = 1 THEN CfOddValue(v[i]) ELSE CfEvenValue(v[i])], 26)

\* GermanyTaxIDValid: one digit of the first ten is there twice or three times, not
\* three times in a row; and a check digit that is carried along.
Times(v, d) == Cardinality({i \in 1 .. 10 : v[i] = d})
GermanTaxIDStructureValid(v) ==
  /\ Cardinality({d \in Digit : Times(v, d) \in {2, 3}}) = 1
  /\ \A d \in Digit : Times(v, d) <= 3
  /\ \A i \in 1 .. 8 : ~(v[i] = v[i + 1] /\ v[i] = v[i + 2])
Carry(product, d) == LET sum == (d + product) % 10 IN (2 * (IF sum = 0 THEN 10 ELSE sum)) % 11
GermanTaxIDCheckDigit(v) ==
  LET check == 11 - FoldLeft(Carry, 10, SubSeq(v, 1, 10)) IN IF check = 10 THEN 0 ELSE check
GermanyTaxIDValid(w) ==
  LET v == Without(w, {Space, Hyphen, Slash}) IN
  /\ Len(v) = 11 /\ AllOf(v, 1, 11, Digit) /\ v[1] # 0
  /\ GermanTaxIDStructureValid(v) /\ v[11] = GermanTaxIDCheckDigit(v)

\* SpainDNIValid: X, Y and Z stand for 0, 1 and 2 in the first place.
DniLetters == <<29, 27, 32, 10, 16, 22, 34, 15, 25, 13, 33, 11, 23, 19, 35, 28, 26, 31, 17, 21, 12, 20, 14>>
DniDigits(v) == (IF v[1] \in 33 .. 35 THEN <<v[1] - 33>> ELSE <<v[1]>>) \o SubSeq(v, 2, 8)
SpainDNIValid(w) ==
  LET v == Without(w, {Space, Hyphen}) IN
  /\ Len(v) = 9 /\ AllOf(DniDigits(v), 1, 8, Digit)
  /\ v[9] = DniLetters[Value(DniDigits(v), 23) + 1]

\* The validators, by the names that rules may give them; a card of the built-in
\* pattern is checked without its separators.
Valid(name, v) ==
  CASE name = "luhn" -> LuhnValid(v)
    [] name = "bank_card" -> BankCardLuhnValid(v)
    [] name = "card_network" -> BankCardValid(Without(v, {Space, Hyphen}))
    [] name = "cn_id_card" -> CNIDCardValid(v)
    [] name = "cn_uscc" -> CNUSCCValid(v)
    [] name = "iban" -> IBANValid(v)
    [] name = "it_codice_fiscale" -> ItalyCodiceFiscaleValid(v)
    [] name = "de_steuer_id" -> GermanyTaxIDValid(v)
    [] name = "es_dni" -> SpainDNIValid(v)

-----------------------------------------------------------------------------
\* What the standards say, in closed form.
Power(b, m) == LET p[n \in 0 .. 70] == IF n = 0 THEN 1 ELSE (p[n - 1] * b) % m IN p
Weighted(v, b, m) ==   \* the last character counts once, each before it b times the next
  LET p == Power(b, m) IN Modulo([i \in DOMAIN v |-> v[i] * p[Len(v) - i]], m)
Expanded(v) == FlattenSeq([i \in DOMAIN v |-> IF v[i] \in Letter THEN <<v[i] \div 10, v[i] % 10>> ELSE <<v[i]>>])
Indices(v)  == [i \in DOMAIN v |-> UsccIndex(v[i])]
LuhnTable   == <<0, 2, 4, 6, 8, 1, 3, 5, 7, 9>>
Digital     == {"luhn", "bank_card", "card_network"}
Standard(name, v) ==
  LET n == Len(v) IN
  CASE name \in Digital ->
         Modulo([i \in 1 .. n |-> IF i % 2 = n % 2 THEN v[i] ELSE LuhnTable[v[i] + 1]], 10) = 0
    [] name = "cn_id_card" ->      \* ISO 7064 MOD 11-2
         Weighted(SubSeq(v, 1, 17) \o <<IF v[18] = X THEN 10 ELSE v[18]>>, 2, 11) = 1
    [] name = "cn_uscc" ->         \* powers of 3, from the left
         (Weighted(Reverse(SubSeq(Indices(v), 1, 17)), 3, 31) + UsccIndex(v[18])) % 31 = 0
    [] name = "iban" ->            \* MOD 97-10
         Weighted(Expanded(SubSeq(v, 5, n) \o SubSeq(v, 1, 4)), 10, 97) = 1
    [] name = "de_steuer_id" ->    \* ISO 7064 MOD 11,10
         (FoldLeft(Carry, 10, SubSeq(v, 1, 10)) + v[11]) % 10 = 1
    [] name = "es_dni" -> DniLetters[Weighted(DniDigits(v), 10, 23) + 1] = v[9]
    [] OTHER -> Valid(name, v)
Checks(name, v) ==   \* ways to write the characters that check it
  CASE name = "iban" -> {SubSeq(v, 1, 2) \o <<n \div 10, n % 10>> \o SubSeq(v, 3, Len(v)) : n \in 2 .. 98}
    [] name \in Digital \cup {"de_steuer_id"} -> {Append(v, ch) : ch \in Digit}
    [] name = "cn_id_card" -> {Append(v, ch) : ch \in Digit \cup {X}}
    [] name = "cn_uscc"    -> {Append(v, ch) : ch \in UsccChars}
    [] OTHER               -> {Append(v, ch) : ch \in Letter}
Class(name, ch) ==
  IF name = "cn_uscc" THEN UsccChars ELSE IF ch \in Digit THEN Digit ELSE Letter

Init ==
  /\ \E body \in Bodies : \E v \in Checks(body.kind, body.of) :
       kind = body.kind /\ number = v /\ Standard(kind, v)
  /\ slip = "none" /\ verdict = "open"

Written == verdict = "open" /\ slip = "none" /\ UNCHANGED <<kind, verdict>>
Separate(i, s) ==
  /\ Written /\ i < Len(number) /\ slip' = "separated"
  /\ number' = SubSeq(number, 1, i) \o <<s>> \o SubSeq(number, i + 1, Len(number))
Mistype(i, ch) ==
  /\ Written /\ ch # number[i] /\ slip' = "mistyped" /\ number' = [number EXCEPT ![i] = ch]
Swap(i) ==
  /\ Written /\ i < Len(number) /\ number[i] # number[i + 1] /\ slip' = "swapped"
  /\ number[i + 1] \in Class(kind, number[i])
  /\ number' = [number EXCEPT ![i] = number[i + 1], ![i + 1] = number[i]]
Validate ==
  /\ verdict = "open" /\ verdict' = (IF Valid(kind, number) THEN "valid" ELSE "refused")
  /\ UNCHANGED <<kind, number, slip>>

Next ==
  \/ \E i \in 1 .. Len(number) :
       \/ \E s \in {Space, Hyphen, Slash} : Separate(i, s)
       \/ \E ch \in Class(kind, number[i]) : Mistype(i, ch)
       \/ Swap(i)
  \/ Validate
Spec == Init /\ [][Next]_vars

-----------------------------------------------------------------------------
\* What an issuer gave out is recognised, with the separators its validator strips;
\* and a slip is not taken for another number: no mistyped character passes, and no
\* two swapped ones where the standard rules that out (Luhn is blind to 0 and 9,
\* the German and the Italian checks to more).
Strips == [iban |-> {Space, Hyphen}, es_dni |-> {Space, Hyphen}, card_network |-> {Space, Hyphen},
           de_steuer_id |-> {Space, Hyphen, Slash}]
Stripped(ch) == kind \in DOMAIN Strips /\ ch \in Strips[kind]
BlindToSwap  == kind \in Digital \cup {"de_steuer_id", "it_codice_fiscale"}
IssuedRecognised ==
  verdict # "open" =>
    /\ slip = "none" => verdict = "valid"
    /\ slip = "separated" => ((verdict = "valid") = \A i \in DOMAIN number : number[i] > 35 => Stripped(number[i]))
    /\ slip = "mistyped" => verdict = "refused"
    /\ slip = "swapped" => verdict = "refused" \/ BlindToSwap
=============================================================================
