------------------------------- MODULE Salary -------------------------------
(***************************************************************************)
(* ParseSalary: free text about a salary becomes two bounds in rupiah and a  *)
(* degree of confidence (internal/parser), and these become columns          *)
(* (salaryBoundsToDB).                                                       *)
(*                                                                          *)
(* A text is a sequence of tokens, set apart from each other: a number is    *)
(* its groups of digits between full stops or commas, a group its value and  *)
(* its number of digits; a unit is what it multiplies by; every other token  *)
(* is a word of one of the kinds below.  What is computed in 64-bit          *)
(* integers and, for fractions, in floating point is exact for the amounts   *)
(* a salary has.                                                             *)
(***************************************************************************)
EXTENDS Text

Group == [value : Nat, digits : Nat]

Number(groups) == [kind |-> "number", groups |-> groups]
Unit(times) == [kind |-> "unit", times |-> times]

\* The words: "vague" (nego, competitive), "foreign" ($, USD), "rupiah" (Rp, IDR),
\* "period" (/bulan, per month), "dash" (and s/d), "until" (hingga, sampai, which are
\* separators and upper bounds alike), "upto" (up to, maks), "from" (mulai dari, min)
\* and "other".
Token(kind) == [kind |-> kind]

Kilo == 1000
Mega == 1000000

\* An amount is a set of at most one number.
Unreadable == {}

Unknown == [min |-> 0, max |-> 0, conf |-> "unknown"]

Has(text, kinds) == \E i \in DOMAIN text : text[i].kind \in kinds

\* stripNoise.
StripNoise(text) == Without(text, {Token("rupiah"), Token("period")})

----------------------------------------------------------------------------
(* Amounts *)

\* TrimRight(s, ".,").
TrimmedGroups(groups) ==
    SubSeq(groups, 1, SelectLastInSeq(groups, LAMBDA g : g.digits > 0))

\* The digits of all groups, read as one number.
JoinGroups(groups) ==
    LET read[i \in 0 .. Len(groups)] ==
            IF i = 0 THEN 0 ELSE read[i - 1] * 10 ^ groups[i].digits + groups[i].value
    IN  read[Len(groups)]

\* A lone trailing group of one or two digits before a unit word is a fraction.
IsDecimal(groups, times) == times > 1 /\ Len(groups) = 2 /\ groups[2].digits <= 2

\* parseNumericCore and parseAmountToken; times is 1 for a number without a unit.
ParseAmountToken(number, times) ==
    LET groups == TrimmedGroups(number.groups)
    IN  IF \E n \in DOMAIN groups : groups[n].digits = 0 THEN Unreadable
        ELSE IF IsDecimal(groups, times)
        THEN {(JoinGroups(groups) * times) \div 10 ^ groups[2].digits}
        ELSE {JoinGroups(groups) * times}

----------------------------------------------------------------------------
(* Extraction *)

IsKind(text, i, kind) == i \in DOMAIN text /\ text[i].kind = kind

\* The unit at place i, if one is there, and the place after it.
UnitAt(text, i) == IF IsKind(text, i, "unit") THEN text[i].times ELSE 1
AfterUnit(text, i) == IF IsKind(text, i, "unit") THEN i + 1 ELSE i

\* The separator of a range that begins at place i, and its second number.
SepOf(text, i) == AfterUnit(text, i + 1)

RangeAt(text, i) ==
    /\ IsKind(text, i, "number")
    /\ IsKind(text, SepOf(text, i), "dash") \/ IsKind(text, SepOf(text, i), "until")
    /\ IsKind(text, SepOf(text, i) + 1, "number")

\* Mutant of Shared: each number has its own unit only.
NotShared(own, others) == own

\* A unit written on one side only stands for both.
Shared(own, others) == IF own = 1 THEN others ELSE own

\* extractRange: of the leftmost range, its two bounds in order.
ExtractRange(text) ==
    LET starts == {i \in DOMAIN text : RangeAt(text, i)}
        i == Min(starts)
        j == SepOf(text, i) + 1
        unit1 == UnitAt(text, i + 1)
        unit2 == UnitAt(text, j + 1)
        a == ParseAmountToken(text[i], Shared(unit1, unit2))
        b == ParseAmountToken(text[j], Shared(unit2, unit1))
    IN  IF starts = {} \/ a = Unreadable \/ b = Unreadable THEN {}
        ELSE {[min |-> Min(a \cup b), max |-> Max(a \cup b), conf |-> "range"]}

\* What the words before a single amount make of it.
Bound(n, prefix) ==
    IF Has(prefix, {"upto", "until"}) THEN [min |-> 0, max |-> n, conf |-> "estimated"]
    ELSE IF Has(prefix, {"from"}) THEN [min |-> n, max |-> 0, conf |-> "estimated"]
    ELSE [min |-> n, max |-> n, conf |-> "exact"]

\* extractSingle: the leftmost number, by itself.
ExtractSingle(text) ==
    LET i == SelectInSeq(text, LAMBDA x : x.kind = "number")
    IN  IF i = 0 THEN {}
        ELSE {Bound(n, SubSeq(text, 1, i - 1)) :
                 n \in ParseAmountToken(text[i], UnitAt(text, i + 1))}

ParseSalary(text) ==
    LET cleaned == StripNoise(text)
        found == IF ExtractRange(cleaned) # {}
                 THEN ExtractRange(cleaned) ELSE ExtractSingle(cleaned)
    IN  IF Has(text, {"vague", "foreign"}) \/ found = {} THEN Unknown
        ELSE CHOOSE s \in found : TRUE

----------------------------------------------------------------------------
(* The columns *)

\* The positive amount, or NULL, as a set of at most one number.
Stated(amount) == {n \in {amount} : n > 0}

\* salaryBoundsToDB.
SalaryBoundsToDB(s) ==
    CASE s.conf = "unknown"   -> [min |-> {}, max |-> {}]
      [] s.conf = "estimated" -> [min |-> Stated(s.min), max |-> Stated(s.max)]
      [] OTHER                -> [min |-> {s.min}, max |-> {s.max}]
=============================================================================
