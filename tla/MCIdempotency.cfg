\* Three calls of one key with two payloads; a row lives two ticks and a
\* claimed call takes at most one.  No symmetry: RowsExpire is a liveness
\* property.
SPECIFICATION FairSpec
CONSTANTS
    Request = {r1, r2, r3}
    Key = {k1}
    Payload = {p1, p2}
    NoKey = NoKey
    Nobody = Nobody
    TTL = 2
    MaxRun = 1
INVARIANTS
    RunnerKeepsItsRow
    ReplayIsFaithful
PROPERTIES
    ClaimsAreSpaced
    StoredAnswerIsFinal
    KeepsPromise
    RowsExpire
