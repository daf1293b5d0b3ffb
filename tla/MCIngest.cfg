SPECIFICATION Spec
CONSTANTS
    Companies <- MCCompanies
    Titles <- MCTitles
    Figures = {0, 5, 8}
    Offers <- MCOffers
    Cities <- MCCities
    Skills <- MCSkills
    Requirements <- MCRequirements
    HtmlAtoms = {"de", "sign", " ", "<b>", "</b>", "<p>", "</p>", "<br>", "<li>", "</li>", "<ul>", "</ul>", "<script>", "</script>"}
    MaxTokens = 4
INVARIANTS
    PresentationKeepsKey
    StrippedLevelIsRecorded
    YearsDecideLevel
    StatedSalaryIsParsed
    ShownFiguresAreStored
    PlaceSurvives
    MarkupKeepsWords
    StackSurvivesMarkup
CHECK_DEADLOCK FALSE
