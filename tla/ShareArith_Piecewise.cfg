SPECIFICATION Spec
CONSTANT Half = 16
CONSTANT Inputs <- OnlyPiecewise
INVARIANT PiecewiseIsPlain
CHECK_DEADLOCK FALSE
