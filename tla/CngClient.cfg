\* Every store of up to three certificates and every call failing.
SPECIFICATION Spec
CONSTANT MaxCerts = 3
INVARIANT ConnectsWithItsPair
PROPERTIES GivesUpForAReason LeavesWhatItForgets SearchEnds
CHECK_DEADLOCK FALSE
