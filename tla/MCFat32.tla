------------------------------ MODULE MCFat32 ------------------------------
EXTENDS Fat32, TLC

AllCalls  == {"f_truncate", "f_expand", "f_unlink", "f_rename"}
SafeCalls == {"f_expand", "f_unlink"}
TwoNames  == {"a", "b"}
ThreeNames == {"a", "b", "c"}
Buffers   == {1, 3}
=============================================================================
