----------------------------- MODULE MCTopicMap -----------------------------
EXTENDS TopicMap, TLC

CONSTANTS m1, m2

\* The first class is in either module, or in both by mistake; the second in one.
MCDeclaration == {<<1, m1>>, <<1, m2>>, <<2, m1>>}
=============================================================================
