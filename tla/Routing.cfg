SPECIFICATION FairSpec
CONSTANTS
    Label <- MCLabel
    Key <- MCKey
    Order <- MCOrder
    Node <- MCNode
    SfuNode <- MCNode
    Home <- A
    Request = {"r1", "r2"}
    App = {"m"}
    Texts <- MCTexts
    Poller <- MCPoller
INVARIANTS
    TypeOK
    WiresAgree
    Unaltered
    ReachesAddressee
    AnswersMatch
    UnknownOnceAnswered
PROPERTIES
    OffersSettle
CHECK_DEADLOCK FALSE
