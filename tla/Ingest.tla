------------------------------- MODULE Ingest -------------------------------
(***************************************************************************)
(* From a posting as Kalibrr serves it to the columns of a row: toRawJob     *)
(* (internal/scraper/kalibrr.go), then Normalize (internal/normalizer), then *)
(* the bounds of the salary (internal/store/jobs.go).  Employers write and   *)
(* rewrite their postings, and the next scrape writes the columns anew.      *)
(*                                                                          *)
(* A posting is kept as what its employer means and how he writes it down:   *)
(* the texts Kalibrr serves are computed from that, and the properties       *)
(* compare what the program reads out of the texts with what was meant.      *)
(* What is passed on unchanged (ids, URLs, the texts for display) is left    *)
(* out.                                                                      *)
(***************************************************************************)
EXTENDS Classify, Description, Salary

CONSTANTS
    Companies,      \* forms of company names
    Titles,         \* forms of titles
    Figures,        \* amounts of Kalibrr's salary fields
    Offers,         \* salaries in words, as other boards print them
    Cities,         \* names of cities
    Skills,         \* lists of technologies, and how they are laid out
    Requirements,   \* demands for experience
    HtmlAtoms,      \* what the body of a posting is typed from
    MaxTokens       \* its length, at most

\* What texts are written in: no tag is typed outside the body.
Written == STRING \ Tags

ASSUME TextAssumption ==
    /\ HtmlAtoms \subseteq STRING
    /\ \A k \in Skills :
          /\ k.named \in Seq([skill : STRING, text : Seq(Written) \ {<<>>}])
          /\ k.lead \in Seq(Written)
    /\ \A r \in Requirements : r.text \in Seq(Written)

\* The words of a name, each written in one fragment or more.
Words == Seq(STRING \ Marks) \ {<<>>}

\* All words that stand for a level.
LevelWords == UNION {LevelPatterns[i].words : i \in DOMAIN LevelPatterns}

\* How a title is dressed up: one level before it, set apart by a mark, and a
\* badge after it.  The bound OneLevel: its name says no level besides.
ASSUME TitleAssumption ==
    \A t \in Titles :
        /\ t.name \in Seq(Words) \ {<<>>}
        /\ t.level # <<>> =>
              /\ t.level \in Seq(STRING) /\ Len(t.level) = 1
              /\ Lower(Head(t.level)) \in Seniority
        /\ t.mark \in Seq(Marks) \ {<<>>} /\ t.gap \in Seq(Marks) \ {<<>>}
        /\ t.badge \in Seq(Marks)
        /\ ~Says(Spaced(t.name, t.gap), LevelWords)

\* The text does not open with a legal form, and the word tbk is not in it.
LacksForm(s) ==
    /\ ~Says(s, {"tbk"})
    /\ ~(Lower(s[1]) \in {"pt", "cv"} /\ Bounded(s, 1, 1))

\* How the name of a company is dressed up: a legal form before it, set apart
\* by a blank, and Tbk and (Persero) after it.  The bound NoForm: its name does
\* not open with a form, nor has it a word tbk.
ASSUME CompanyAssumption ==
    \A c \in Companies :
        /\ c.name \in Seq(Words) \ {<<>>}
        /\ c.gap \in Seq({Blank}) \ {<<>>}
        /\ LacksForm(Spaced(c.name, c.gap))
        /\ c.form # <<>> =>
              \E i \in DOMAIN c.form :
                  /\ Lower(c.form[i]) \in {"pt", "cv"}
                  /\ \A j \in 1 .. i - 1 : c.form[j] = Blank
                  /\ \A j \in i + 1 .. Len(c.form) : c.form[j] \in {Blank, ".", Comma}
                  /\ i < Len(c.form) /\ Last(c.form) = Blank
        /\ \A i \in DOMAIN c.suffix :
              \/ c.suffix[i] \in {Blank, ".", Comma, "(persero)"}
              \/ Lower(c.suffix[i]) = "tbk" /\ i > 1 /\ ~IsFragment(c.suffix[i - 1])
        /\ c.form \in Seq(STRING) /\ c.suffix \in Seq(STRING)

\* What a city is called: no comma, no badge and no word that stands for a
\* work mode, and a single blank between its words.
ASSUME CityAssumption ==
    \A c \in Cities :
        /\ c \in Seq(STRING) \ {<<>>}
        /\ Collapse(c, Blank) = c
        /\ \A i \in DOMAIN c :
              c[i] # Comma /\ \A mode \in DOMAIN ModeWords : Lower(c[i]) \notin ModeWords[mode]

\* The bound EightDigits of what Decimal writes.
ASSUME FigureAssumption == \A n \in Figures : n \in Nat /\ n < 10 ^ 8

VARIABLES
    posting,    \* what one employer posts
    row         \* the columns of its row, as the scrape after the latest edit left them

vars == <<posting, row>>

----------------------------------------------------------------------------
(* What Kalibrr serves: the writing down of a posting *)

CompanyText(c) == c.form \o Spaced(c.name, c.gap) \o c.suffix

TitleText(t) ==
    (IF t.level = <<>> THEN <<>> ELSE t.level \o t.mark) \o Spaced(t.name, t.gap) \o t.badge

\* One technology: as it is, or with its first fragment in bold.
SkillHtml(s, layout) ==
    IF layout = "bold" THEN <<"<b>", Head(s), "</b>">> \o Tail(s) ELSE s

SkillsHtml(k) ==
    LET names == [i \in DOMAIN k.named |-> SkillHtml(k.named[i].text, k.layout)]
    IN  k.lead \o
        (IF k.layout = "items"
         THEN <<"<ul>">> \o FlattenSeq([i \in DOMAIN names |->
                                <<"<li>">> \o names[i] \o <<"</li>">>]) \o <<"</ul>">>
         ELSE <<"<p>">> \o Spaced(names, <<Comma, Blank>>) \o <<"</p>">>)

\* A blank before each word, figures and their marks staying together.
RequirementHtml(r) ==
    <<"<p>">>
        \o FlattenSeq([i \in DOMAIN r.text |->
               IF IsFragment(r.text[i]) THEN <<Blank, r.text[i]>> ELSE <<r.text[i]>>])
        \o <<"</p>">>

KalibrrJob(p) ==
    [name |-> TitleText(p.title), companyName |-> CompanyText(p.company),
     description |-> p.body,
     qualifications |-> SkillsHtml(p.skills) \o RequirementHtml(p.requirement),
     pay |-> p.pay, place |-> p.place]

\* The posting the employer starts from.
Plain ==
    [company |-> [name |-> <<<<"maju">>>>, form |-> <<>>, gap |-> <<Blank>>, suffix |-> <<>>],
     title |-> [name |-> <<<<"developer">>>>, level |-> <<>>, mark |-> <<>>,
                gap |-> <<Blank>>, badge |-> <<>>],
     pay |-> [shown |-> FALSE, base |-> {}, max |-> {}, currency |-> "", interval |-> ""],
     offer |-> [min |-> {}, max |-> {}, text |-> <<>>],
     place |-> [location |-> {}, home |-> FALSE, hybrid |-> FALSE],
     skills |-> [named |-> <<>>, layout |-> "prose", lead |-> <<>>],
     requirement |-> [years |-> {}, text |-> <<>>],
     body |-> <<>>]

----------------------------------------------------------------------------
(* toRawJob *)

\* The marks a currency code is to the parser; no code stands for IDR.
Currency(code) ==
    IF code \in {"", "IDR"} THEN Token("rupiah")
    ELSE IF code \in {"USD", "SGD", "MYR", "EUR", "GBP"} THEN Token("foreign")
    ELSE Token("other")

Interval(i) ==
    IF i = "" THEN <<>> ELSE IF i = "month" THEN <<Token("period")>> ELSE <<Token("other")>>

\* %d, of up to eight digits.
Decimal(n) ==
    Number(<<[value |-> n, digits |-> Min({d \in 1 .. 8 : n < 10 ^ d})]>>)

The(set) == CHOOSE x \in set : TRUE

\* Mutant of ShowsSalary: figures that are there are taken for shown.
HasSalary(pay) == pay.base \cup pay.max # {}

\* Kalibrr displays the salary: a flag, distinct from the figures' being there.
ShowsSalary(pay) == pay.shown /\ pay.base \cup pay.max # {}

\* salaryRawText: the figures that are known, the way Kalibrr words them.
SalaryRawText(pay) ==
    LET money(side) == <<Currency(pay.currency), Decimal(The(side))>>
    IN  IF ~ShowsSalary(pay) THEN <<>>
        ELSE (IF pay.base = {} THEN <<Token("upto")>> \o money(pay.max)
              ELSE IF pay.max = {} THEN <<Token("from")>> \o money(pay.base)
              ELSE money(pay.base) \o <<Token("dash"), Decimal(The(pay.max))>>)
             \o Interval(pay.interval)

Badge(place) ==
    IF place.home THEN <<Blank, "(remote)">>
    ELSE IF place.hybrid THEN <<Blank, "(hybrid)">> ELSE <<>>

\* locationText: city and country, as far as they are known, and a badge;
\* nothing at all, flags included, without a location.
LocationText(place) ==
    IF place.location = {} THEN <<>>
    ELSE LET l == The(place.location)
         IN  Spaced(Without(<<l.city, l.country>>, {<<>>}), <<Comma, Blank>>)
                 \o Badge(place)

\* toRawJob: description and qualifications are one text, with white space
\* between them and none around them.
ToRawJob(j) ==
    [title |-> j.name, company |-> j.companyName,
     salaryRaw |-> SalaryRawText(j.pay), location |-> LocationText(j.place),
     description |-> Collapse(j.description \o <<Blank>> \o j.qualifications, Blank)]

----------------------------------------------------------------------------
(* Normalize *)

Normalize(raw) ==
    LET description == SanitizeDescription(raw.description)
    IN  [description |-> description,
         salary |-> ParseSalary(raw.salaryRaw),
         stack |-> ExtractStack(raw.title, description),
         mode |-> DetectMode(raw.title, raw.location, description),
         level |-> DetectLevel(raw.title, description),
         locationCity |-> ExtractCity(raw.location),
         fingerprint |-> Fingerprint(NormalizeCompany(raw.company),
                                     NormalizeTitle(raw.title))]

\* What a scraper hands on: the posting as Kalibrr serves it, or as a board
\* does that words salaries freely.
Scraped(p) ==
    LET raw == ToRawJob(KalibrrJob(p))
    IN  IF p.offer = Plain.offer THEN raw ELSE [raw EXCEPT !.salaryRaw = p.offer.text]

\* What becomes of it: the columns, and the bounds of its salary.
Ingested(p) ==
    LET n == Normalize(Scraped(p))
    IN  [columns |-> n, bounds |-> SalaryBoundsToDB(n.salary)]

----------------------------------------------------------------------------
(* Employers *)

Maybe(set) == {{}} \cup {{x} : x \in set}

Pays ==
    [shown : BOOLEAN, base : Maybe(Figures), max : Maybe(Figures),
     currency : {"", "IDR", "USD"}, interval : {"", "month"}]

Places ==
    [location : Maybe([city : {<<>>} \cup Cities, country : {<<>>} \cup Cities]),
     home : BOOLEAN, hybrid : BOOLEAN]

\* The bound OneThingAtATime: apart from these other parts, the posting is as
\* it was at first.  A property is about parts that are rewritten together.
OnlyIn(parts) == \A f \in DOMAIN Plain \ parts : posting[f] = Plain[f]

Init == posting = Plain /\ row = Ingested(Plain)

\* One part is rewritten, and the next scrape comes across it.
Write(part, value) ==
    /\ posting' = [posting EXCEPT ![part] = value]
    /\ row' = Ingested(posting')

Rename ==
    /\ OnlyIn({"title"})
    /\ \E c \in Companies : Write("company", c)

Retitle ==
    /\ OnlyIn({"company"}) \/ OnlyIn({"requirement"})
    /\ \E t \in Titles : Write("title", t)

Pay ==
    /\ OnlyIn({})
    /\ \E pay \in Pays : Write("pay", pay)

\* Another board's posting, which words its salary freely.
Offer ==
    /\ OnlyIn({})
    /\ \E o \in Offers : Write("offer", o)

Move ==
    /\ OnlyIn({})
    /\ \E place \in Places : Write("place", place)

Ask ==
    /\ OnlyIn({"title"})
    /\ \E r \in Requirements : Write("requirement", r)

ListSkills ==
    /\ OnlyIn({})
    /\ \E k \in Skills : Write("skills", k)

\* The tokenizer takes all that follows a script tag, up to its end, for text.
InScript(html) ==
    \E i \in DOMAIN html :
        html[i] \in RawTextStart /\ \A j \in i .. Len(html) : html[j] \notin RawTextEnd

\* The body is typed token by token, well-formed or not.
Type ==
    /\ OnlyIn({"body"})
    /\ Len(posting.body) < MaxTokens
    /\ \E a \in HtmlAtoms :
          /\ InScript(posting.body) => a \notin Tags \ RawTextEnd
          /\ a = Blank /\ posting.body # <<>> => Last(posting.body) # Blank
          /\ Write("body", Append(posting.body, a))

Next == Rename \/ Retitle \/ Pay \/ Offer \/ Move \/ Ask \/ ListSkills \/ Type

Spec == Init /\ [][Next]_vars

----------------------------------------------------------------------------
(* What the properties compare the columns with *)

\* The tags a browser breaks the line at.
Block == Tags \ (RawTextStart \cup RawTextEnd \cup {"<b>", "</b>"})

\* The text a browser shows.
Displayed(html) ==
    FlattenSeq([i \in DOMAIN html |->
        IF html[i] \in Block THEN <<LineBreak>>
        ELSE IF html[i] \in Tags \/ InScript(SubSeq(html, 1, i)) THEN <<>>
        ELSE <<html[i]>>])

\* The bound LaidOut: no text node of white space alone between two inline
\* tags, and nothing but a block after the end of a list or of an item
\* (sanitize.go writes nothing in either case, and the words around it fuse).
Closers == {"</li>", "</ul>", "</ol>"}

LaidOut(html) ==
    \A i \in DOMAIN html :
        /\ html[i] = Blank =>
              \/ i > 1 /\ html[i - 1] \notin Tags \ Block
              \/ i < Len(html) /\ html[i + 1] \notin Tags \ Block
        /\ html[i] \in Closers =>
              \A j \in i + 1 .. Len(html) :
                  (\A k \in i + 1 .. j - 1 : html[k] \in Closers \cup {Blank})
                      => html[j] \in Closers \cup BreakingTags \cup {Blank}

LevelOf ==
    [senior |-> "senior", junior |-> "junior", lead |-> "lead",
     intern |-> "intern", magang |-> "intern"]

----------------------------------------------------------------------------
(* Properties *)

\* However a company and a title are dressed up - legal form, Tbk, (Persero),
\* level, work mode badge, punctuation, case - the fingerprint is that of the
\* bare names: a cosmetic edit never makes dedup lose a posting, and a word
\* that only begins like a legal form or a level stays in the key.
PresentationKeepsKey ==
    row.columns.fingerprint =
        ToLower(Spaced(posting.company.name, <<Blank>>) \o FlattenSeq(posting.title.name))

\* The level the key leaves out of the title is recorded in the level column,
\* whatever the description asks for (title.go: "DetectLevel is what records
\* the seniority distinction, not the title dedup key").
StrippedLevelIsRecorded ==
    posting.title.level # <<>> =>
        row.columns.level = LevelOf[Lower(Head(posting.title.level))]

\* Without a level in the title the years asked for decide, by the lower
\* bound of a range; an age ("25+ years old") is not experience, and hides no
\* experience stated after it.
YearsDecideLevel ==
    posting.title.level = <<>> =>
        row.columns.level = IF posting.requirement.years = {} THEN "unknown"
                    ELSE LevelFromYears(The(posting.requirement.years))

\* A salary written out in words is read as the amounts meant, whichever way
\* its unit, its digits, its separator and its order are written.
StatedSalaryIsParsed ==
    posting.offer # Plain.offer =>
        row.bounds = [min |-> posting.offer.min, max |-> posting.offer.max]

\* The columns hold the figures Kalibrr displays, in order, and nothing else:
\* neither figures it hides nor foreign currencies.  A zero that is shown alone
\* stands for "not stated" and leaves its column NULL; one shown in a pair is
\* a bound like any other and is stored (the default case of salaryBoundsToDB).
ShownFiguresAreStored ==
    LET p == posting.pay
    IN  posting.offer = Plain.offer => row.bounds =
        IF ~p.shown \/ p.currency = "USD" THEN [min |-> {}, max |-> {}]
        ELSE IF p.base # {} /\ p.max # {}
        THEN [min |-> {Min(p.base \cup p.max)}, max |-> {Max(p.base \cup p.max)}]
        ELSE [min |-> p.base \ {0}, max |-> p.max \ {0}]

\* City and work mode both come back out of the one text they are put into.
PlaceSurvives ==
    LET p == posting.place
        known == \E l \in p.location : l.city # <<>> \/ l.country # <<>>
    IN  /\ \A l \in p.location : l.city # <<>> => row.columns.locationCity = l.city
        /\ p.location # {} /\ p.home => row.columns.mode = "remote"
        /\ p.location # {} /\ ~p.home /\ p.hybrid => row.columns.mode = "hybrid"
        /\ known /\ ~p.home /\ ~p.hybrid => row.columns.mode = "onsite"

\* The clean description has the words a browser shows, whole and apart:
\* markup neither splits a word nor fuses two (sanitize.go: "a real
\* word-separating space around an inline tag must survive").
MarkupKeepsWords ==
    LET html == ToRawJob(KalibrrJob(posting)).description
    IN  LaidOut(html) => WordsOf(row.columns.description) = WordsOf(Displayed(html))

\* The technologies a posting names are the ones it is tagged with, in any
\* layout, however they are spelled or set in bold, and no other is because
\* its name is part of theirs or a word of everyday English.
StackSurvivesMarkup ==
    row.columns.stack = {posting.skills.named[i].skill : i \in DOMAIN posting.skills.named}
=============================================================================
