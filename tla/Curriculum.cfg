\* The whole catalogue, its paths in every order.
SPECIFICATION Spec
INVARIANTS MirrorsAgree GivenBefore PositionUseless RankPromise AlwaysAWayIn
