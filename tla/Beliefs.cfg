CONSTANTS
    genesis = genesis
    m1 = m1
    m2 = m2
    Id = {genesis, m1, m2}
    Core = {genesis}
    Strength = {420, 1960, 2800}
    MaxContradictions = 5

SPECIFICATION Spec
SYMMETRY Interchangeable
INVARIANTS
    NothingLearnedHardens
    NoBeliefIsShaken
    CharacterIsInborn
PROPERTY
    TrustComesFirst
