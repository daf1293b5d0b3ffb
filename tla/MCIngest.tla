------------------------------ MODULE MCIngest ------------------------------
(***************************************************************************)
(* Instances of Ingest for TLC: the ways to write each part of a posting.    *)
(***************************************************************************)
EXTENDS Ingest

MCCompanies ==
    [name : {<<<<"Maju">>, <<"jaya">>>>, <<<<"pt", "s">>, <<"cv">>, <<"corp">>>>},
     form : {<<>>, <<"PT", Blank>>, <<"PT", ".", Blank>>, <<Blank, "cv", Blank>>},
     gap : {<<Blank>>, <<Blank, Blank>>},
     suffix : {<<>>, <<",", Blank, "Tbk">>, <<Blank, "(persero)", Blank, "Tbk", ".">>}]

MCTitles ==
    [name : {<<<<"backend">>, <<"Developer">>>>, <<<<"lead", "ership">>, <<"coach">>>>},
     level : {<<>>, <<"Senior">>, <<"junior">>, <<"Lead">>, <<"Magang">>},
     mark : {<<Blank>>, <<Blank, "-", Blank>>},
     gap : {<<Blank>>, <<"-">>},
     badge : {<<>>, <<Blank, "(hybrid)">>}]

MCCities == {<<"jakarta">>, <<"kota", Blank, "bandung">>}

----------------------------------------------------------------------------
(* Salaries in words; amounts are counted in thousands *)

G(value, digits) == [value |-> value, digits |-> digits]

Thousands(k) == IF k < 1000 THEN <<G(k, 3)>> ELSE <<G(k \div 1000, 2), G(k % 1000, 3)>>

\* With its unit, as millions if it can be, and in full.
WithUnit(k) ==
    IF k < 1000 THEN <<Number(<<G(k, 3)>>), Unit(Kilo)>>
    ELSE IF k % 1000 = 0 THEN <<Number(<<G(k \div 1000, 2)>>), Unit(Mega)>>
    ELSE <<Number(<<G(k \div 1000, 2), G((k % 1000) \div 100, 1)>>), Unit(Mega)>>

InFull(k) == <<Number(Append(Thousands(k), G(0, 3)))>>

Writings(k) == {WithUnit(k), InFull(k), <<Token("rupiah")>> \o InFull(k)}

Said(min, max, text) == [min |-> min, max |-> max, text |-> text]

Amounts == {500, 6500, 8000, 12000}

Ranges ==
    UNION {
        LET said(t) == Said({Min({a, b}) * 1000}, {Max({a, b}) * 1000}, t)
        IN  {said(x \o <<Token(sep)>> \o y) :
                x \in {InFull(a), <<Token("rupiah")>> \o InFull(a)}, y \in {InFull(b)},
                sep \in {"dash", "until"}}
            \cup {said(WithUnit(a) \o <<Token("dash")>> \o WithUnit(b) \o <<Token("period")>>)}
            \cup (IF a < 1000 \/ b < 1000 THEN {}
                  ELSE {said(Front(WithUnit(a)) \o <<Token("until")>> \o WithUnit(b)),
                        said(WithUnit(a) \o <<Token("dash")>> \o Front(WithUnit(b)))}) :
        a, b \in Amounts}

Singles ==
    UNION {UNION {
        {Said({k * 1000}, {k * 1000}, <<Token("other")>> \o w \o <<Token("period")>>),
         Said({k * 1000}, {}, <<Token("from")>> \o w),
         Said({}, {k * 1000}, <<Token("upto")>> \o w),
         Said({}, {k * 1000}, <<Token("until")>> \o w),
         Said({}, {}, <<Token("foreign")>> \o w)} : w \in Writings(k)} : k \in Amounts}

MCOffers == Ranges \cup Singles \cup {Said({}, {}, <<>>), Said({}, {}, <<Token("vague")>>)}

----------------------------------------------------------------------------
(* Experience *)

Age == <<"n25", "+", "years", "old">>

\* The forms that state n years as a minimum, and those that need no word
\* besides the plus.
Demands(n) ==
    {<<n, "-", "n25", "years", "of", "experience">>,
     <<n, "to", "n25", "+", "years", "experience">>,
     <<n, "years'", "experience">>,
     <<"experience", ":", "at least", n, "+", "years">>,
     <<"at least", n, "years", "in", "a", "role">>,
     <<"minimum", n, "years">>,
     <<"minimal", n, "tahun">>,
     <<"min", ".", n, "tahun">>,
     <<n, "tahun", "pengalaman">>,
     <<"pengalaman", "kerja", "minimal", n, "tahun">>}

Bare(n) == <<n, "+", "years", "in", "a", "role">>

Asked(n, text) == [years |-> {Numeral[n]}, text |-> text]

\* An age before a bare "3+ years" is left out: it hides the demand.
MCRequirements ==
    UNION {
        UNION {{Asked(n, d), Asked(n, Age \o <<",">> \o d), Asked(n, d \o <<",">> \o Age)} :
                   d \in Demands(n)}
        \cup {Asked(n, Bare(n)), Asked(n, Bare(n) \o <<",">> \o Age)} :
        n \in {"n1", "n2", "n3", "n5"}}
    \cup {[years |-> {}, text |-> Age], [years |-> {}, text |-> <<"n25", "years", "in", "business">>]}

----------------------------------------------------------------------------
(* Technologies *)

K(skill, text) == [skill |-> skill, text |-> text]

Spellings ==
    {K("Go", <<"Go">>), K("Go", <<"golang">>), K("JavaScript", <<"java", "script">>),
     K("JavaScript", <<"JS">>), K("Java", <<"java">>), K("React", <<"React">>), K("React", <<"React", "JS">>),
     K("ReactNative", <<"React", Blank, "Native">>), K("ReactNative", <<"React", "-", "Native">>),
     K("NodeJs", <<"node", ".", "js">>), K("Docker", <<"Doc", "ker">>)}

MCSkills ==
    [named : SeqOf(Spellings, 2),
     layout : {"prose", "bold", "items"},
     lead : {<<>>, <<"we", Blank, "go", Blank, "further">>}]
=============================================================================
