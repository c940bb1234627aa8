CONSTANTS
    s1 = s1  c1 = c1  c2 = c2
    Scenario = {s1}
    Call = {c1, c2}
    Kept = 1
SPECIFICATION HSpec
INVARIANTS
    TypeOK
    PinnedIsShown
    CorrectionsKept
PROPERTIES
    TableUnlessTorn
    RefusedOnlyIfOvertaken
    KeepsToTheLadder
SYMMETRY Symmetry
