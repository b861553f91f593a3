\* What a web server sends, cut anywhere, in reads of at most four records.
SPECIFICATION Spec
CONSTANTS
    Conversation <- MCConversation
    ReadSize = 8
    Width = 8
INVARIANTS
    TypeOK
    ServedAsAsked
    OnlyOneRequest
    NotForgotten
PROPERTIES
    AnsweredOnce
