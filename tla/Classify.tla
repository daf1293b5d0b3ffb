------------------------------ MODULE Classify ------------------------------
(***************************************************************************)
(* What the normalizer reads out of a posting's words: the work mode, the    *)
(* experience level, the city and the technologies (classify.go, stack.go    *)
(* and extractCity of internal/normalizer).                                  *)
(***************************************************************************)
EXTENDS DedupKeys

----------------------------------------------------------------------------
(* Work mode and city *)

\* The words and badges that stand for a mode.
ModeWords ==
    [hybrid |-> {"hybrid", "(hybrid)"},
     remote |-> {"remote", "remotely", "(remote)", "wfh", "wfa"},
     onsite |-> {"onsite", "(onsite)", "wfo"}]

\* The text says so in a word of its own.
Says(text, marks) ==
    \E i \in DOMAIN text : Lower(text[i]) \in marks /\ Bounded(text, i, i)

\* DetectMode: the first of the three that is mentioned; a posting that
\* mentions none is on site if it has a location.
DetectMode(title, location, description) ==
    LET text == title \o <<Blank>> \o location \o <<Blank>> \o description
        modes == <<"hybrid", "remote", "onsite">>
        first == SelectInSeq(modes, LAMBDA mode : Says(text, ModeWords[mode]))
    IN  IF first # 0 THEN modes[first]
        ELSE IF Collapse(location, Blank) # <<>> THEN "onsite" ELSE "unknown"

\* Mutant of ExtractCity: the badge is only expected after a country.
ExtractCityAsIs(location) ==
    LET comma == SelectInSeq(location, LAMBDA a : a = Comma)
    IN  Collapse(IF comma = 0 THEN location ELSE SubSeq(location, 1, comma - 1), Blank)

\* extractCity: all that precedes the first comma, without a badge.
ExtractCity(location) ==
    LET comma == SelectInSeq(location, LAMBDA a : a = Comma)
        city  == IF comma = 0 THEN location ELSE SubSeq(location, 1, comma - 1)
    IN  Collapse(Without(city, ModeTags), Blank)

----------------------------------------------------------------------------
(* Experience level *)

\* The figures of a text, and what they amount to.
Numeral == [n1 |-> 1, n2 |-> 2, n3 |-> 3, n5 |-> 5, n25 |-> 25]
Figure == DOMAIN Numeral

\* One element of a pattern: the words it takes, and whether it may be absent.
Req(words) == [words |-> words, optional |-> FALSE]
Opt(words) == [words |-> words, optional |-> TRUE]

Year == {"year", "years", "years'"}

\* yearsOfExperiencePatterns, in order, and what must not follow a match.
YearsOfExperiencePatterns ==
    << [find |-> <<Req(Figure), Req({"-", "to"}), Req(Figure), Opt({"+"}), Req(Year),
                   Opt({"of"}), Req({"experience"})>>,                reject |-> {}],
       [find |-> <<Req(Figure), Opt({"+"}), Req(Year), Opt({"of"}),
                   Req({"experience"})>>,                             reject |-> {}],
       [find |-> <<Req({"experience"}), Opt({":"}), Opt({"of"}),
                   Opt({"at least", "minimum"}), Req(Figure), Opt({"+"}),
                   Req(Year)>>,                                       reject |-> {}],
       [find |-> <<Req({"at least"}), Req(Figure), Opt({"+"}), Req(Year)>>,
                                                                      reject |-> {}],
       [find |-> <<Req({"minimum"}), Req(Figure), Opt({"+"}), Req(Year)>>,
                                                                      reject |-> {}],
       [find |-> <<Req(Figure), Req({"+"}), Req(Year)>>,         reject |-> {"old"}],
       [find |-> <<Req({"minimal"}), Req(Figure), Req({"tahun"})>>,   reject |-> {}],
       [find |-> <<Req({"min"}), Opt({"."}), Req(Figure), Req({"tahun"})>>,
                                                                      reject |-> {}],
       [find |-> <<Req(Figure), Req({"tahun"}), Req({"pengalaman"})>>, reject |-> {}],
       [find |-> <<Req({"pengalaman"}), Opt({"kerja"}), Opt({"minimal"}), Req(Figure),
                   Req({"tahun"})>>,                                  reject |-> {}] >>

\* Where a match of the pattern that begins at position i of s may end.
Ends(pattern, s, i) ==
    FoldLeft(LAMBDA at, e :
                {j + 1 : j \in {k \in at : k <= Len(s) /\ s[k] \in e.words}}
                    \cup (IF e.optional THEN at ELSE {}),
             {i}, pattern)

\* The leftmost match, if there is one: what precedes its end, from its start.
LeftmostMatch(pattern, s) ==
    LET starts == {i \in DOMAIN s : Ends(pattern, s, i) # {}}
    IN  IF starts = {} THEN {}
        ELSE LET i == Min(starts) IN {[from |-> i, to |-> Max(Ends(pattern, s, i)) - 1]}

\* The figure a match captures: its first one.
Captured(s, m) ==
    Numeral[s[SelectInSubSeq(s, m.from, m.to, LAMBDA a : a \in Figure)]]

\* Mutant of YearsFrom: the text after a match is not looked at.
YearsFromAny(p, s) == {Captured(s, m) : m \in LeftmostMatch(p.find, s)}

\* The figure a pattern reads, none if its leftmost match is rejected.
YearsFrom(p, s) ==
    {Captured(s, m) : m \in {x \in LeftmostMatch(p.find, s) :
                                 x.to < Len(s) => s[x.to + 1] \notin p.reject}}

\* yearsOfExperience: of the first pattern that reads one.
YearsOfExperience(description) ==
    LET s == Without(ToLower(description), Blanks)
        first == SelectInSeq(YearsOfExperiencePatterns, LAMBDA p : YearsFrom(p, s) # {})
    IN  IF first = 0 THEN {} ELSE YearsFrom(YearsOfExperiencePatterns[first], s)

LevelFromYears(years) ==
    IF years < 2 THEN "junior" ELSE IF years < 5 THEN "mid" ELSE "senior"

\* Mutant of LevelPatterns: without the Indonesian word.
EnglishLevelPatterns ==
    << [level |-> "lead", words |-> {"lead"}],
       [level |-> "senior", words |-> {"senior"}],
       [level |-> "junior", words |-> {"junior"}],
       [level |-> "intern", words |-> {"intern", "internship"}] >>

LevelPatterns ==
    << [level |-> "lead", words |-> {"lead"}],
       [level |-> "senior", words |-> {"senior"}],
       [level |-> "junior", words |-> {"junior"}],
       [level |-> "intern", words |-> {"intern", "internship", "magang"}] >>

\* DetectLevel: a word of the title decides, the highest level first, and
\* only without one do the years in the description.
DetectLevel(title, description) ==
    LET first == SelectInSeq(LevelPatterns, LAMBDA p : Says(title, p.words))
        years == YearsOfExperience(description)
    IN  IF first # 0 THEN LevelPatterns[first].level
        ELSE IF years = {} THEN "unknown"
        ELSE CHOOSE level \in {LevelFromYears(y) : y \in years} : TRUE

----------------------------------------------------------------------------
(* Technologies *)

\* word, for an alias of letters and digits, and for one that holds others.
Word(text, alias) == HasWord(text, alias)
Substring(text, alias) == Occurrences(text, alias) # {}

\* capitalized: one of the spellings that mean the technology.
CapitalizedAt(text, spellings) ==
    {i \in DOMAIN text : text[i] \in spellings /\ Bounded(text, i, i)}

\* reactNativeSuffixRe.
NativeFollows(text, i) ==
    \E k \in i + 1 .. Len(text) :
        /\ Lower(text[k]) = "native" /\ Bounded(text, k, k)
        /\ \A j \in i + 1 .. k - 1 : text[j] \in Blanks \cup {"-"}

\* Mutant of NotAfter: the occurrence before the exception is enough.
AnyOccurrence(text, alias, mark) == HasWord(text, alias)

\* wordExceptPrecededBy.
NotAfter(text, alias, mark) ==
    \E i \in Occurrences(text, alias) :
        Bounded(text, i, i + Len(alias) - 1) /\ (i > 1 => text[i - 1] # mark)

\* stackKeywords, a row for each way the rows of the table combine the matchers.
StackKeywords(text) ==
    [Go |-> CapitalizedAt(text, {"Go", "GO"}) # {} \/ Word(text, <<"golang">>),
     JavaScript |-> Word(text, <<"java", "script">>) \/ NotAfter(text, <<"js">>, "."),
     Java |-> Word(text, <<"java">>),
     React |-> \/ \E i \in CapitalizedAt(text, {"React"}) : ~NativeFollows(text, i)
               \/ Substring(text, <<"react", ".", "js">>) \/ Word(text, <<"react", "js">>),
     ReactNative |-> \/ Substring(text, <<"react", Blank, "native">>)
                     \/ Substring(text, <<"react", "-", "native">>),
     NodeJs |-> Substring(text, <<"node", ".", "js">>) \/ Word(text, <<"node", "js">>),
     Docker |-> Word(text, <<"doc", "ker">>)]

ExtractStack(title, description) ==
    LET tagged == StackKeywords(title \o <<LineBreak>> \o description)
    IN  {k \in DOMAIN tagged : tagged[k]}
=============================================================================
