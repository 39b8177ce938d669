SPECIFICATION Spec
CONSTANT Bits = 4
INVARIANTS
    ArithmeticIsExact
    ValuesAreOrdered
    HistogramKeepsCounts
    JoinedKeysAgree
    OverlapIsSound
    TablesKeepValues
    StreamsKeepBytes
    CollectionsBecomeFacts
    TextsMeanTheTree
