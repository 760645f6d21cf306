---------------------------- MODULE MCAnalyzeIntake ----------------------------
\* Small instances of AnalyzeIntake.
EXTENDS AnalyzeIntake, TLC

CONSTANTS p1, p2, u1, u2, c1, c2, k1, i1, i2, i3

TwoProcs == {p1, p2}
OneProc  == {p1}
OneUser  == {u1}
TwoUsers == {u1, u2}
OneContent == {c1}
TwoContents == {c1, c2}
OneKey   == {k1}
TwoRequests == {i1, i2}
ThreeRequests == {i1, i2, i3}
================================================================================
