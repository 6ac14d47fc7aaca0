SPECIFICATION Spec
CONSTANTS
    Session = s1
    Account = a1
    None = None
    NewAddress_ = New
    Missing = Missing
    Choices <- MCChoices
    MaxRows = 2
INVARIANTS StatementsAreComplete AnswersComeFromOneQuery SchemaAgrees
