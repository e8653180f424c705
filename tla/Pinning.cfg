\* Every method of Ctx, with templates of up to two values.
SPECIFICATION PinSpec
CONSTANT MaxValues = 2
INVARIANTS NoDangling NoPinLeft
