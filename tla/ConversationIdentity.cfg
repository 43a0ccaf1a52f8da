SPECIFICATION Spec
CONSTANTS
    ann1 = ann1  ann2 = ann2  bare = bare  group = group
    m1 = m1  m2 = m2
    Json = {ann1, ann2, bare, group}
    Unknown = Unknown
    None = None
    Message = {m1, m2}
    Numbers <- SmallNumbers
    IsGroup <- SmallGroups
    Sent <- SmallSent
INVARIANTS
    TypeOK
    OrderlyStayWithTheirPeople
PROPERTY
    PreservedForGood
