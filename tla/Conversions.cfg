\* Two tokens, labels of up to three characters for a width of two.
SPECIFICATION Spec
CONSTANTS
  Slots = {0, 1}
  Width = 2
  Letters = {"a"}
  UintMod = 65536
  MaxSalt = 64
  Salts <- MCSalts
  Base = 3
  MaxSig = 4
INVARIANTS  FieldsArrive SignsWhatWasAsked
