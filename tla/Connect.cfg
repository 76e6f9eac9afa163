\* Two requests to connect and four upsets.  The specification may rest when
\* everything is quiet and nowhere else: the deadlock check then shows that
\* every call returns and every event is handled.
SPECIFICATION MCSpec
CONSTANTS
  Bsses = {a, b}
  NoBss = none
  MaxConnects = 2
  MaxUpsets = 4
SYMMETRY Symmetry
INVARIANTS
  InStep
  
  ResultsOnce
