SPECIFICATION Spec
CONSTANTS
    Plans <- EachPlan
    Slots <- TwoSlots
    Long = {"pmt1"}
    MaxFreqs = 2
    LastBs = 1
INVARIANTS TypeOK SectionIsCurrent NothingFreedIsUsed SleepsForAReason FrequencyAnswered JoinsEnd
