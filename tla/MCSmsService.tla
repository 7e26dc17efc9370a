---------------------------- MODULE MCSmsService ----------------------------
EXTENDS SmsService, TLC

Symmetry == Permutations(Proc) \cup Permutations(Code) \cup Permutations(Phone)
            \cup Permutations(Purpose)
=============================================================================
