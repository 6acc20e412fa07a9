CONSTANTS
    Width4 = 2
    Width6 = 2
    Nobody = Nobody
    Instants = {1, 2}
    Labels = {"a", "b", "h"}
    Ips <- OneOfEach
    Cases <- SmallCases
    Workers = {w1, w2}
    Policies <- TwoPolicies
    Requests <- TwoRequests
    MaxPublished = 2
    MaxMinute = 1
    WeekDays = 3
    DayTicks = 6
    HourTicks = 2
    Others <- SomeOthers
    Zones <- SomeZones
    MaxUtc = 12
SYMMETRY Symmetry
SPECIFICATION PolicySpec
INVARIANTS
    AnsweredAsDocumented
    AnswersAreExact
    RequestsAreWhole
    SchedulesHold
