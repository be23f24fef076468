SPECIFICATION FairSpec
CONSTANTS
    e1 = e1  e2 = e2  p1 = p1  q1 = q1  q2 = q2
    Emails = {e1, e2}
    People = {p1}
    Requests = {q1, q2}
    May <- MCMay
    Looked <- MCLooked
    MaxId = 2
INVARIANTS TypeOK CalmIsFresh
PROPERTIES StaleAnswersEnd
