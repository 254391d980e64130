\* Two lookups in a set and its sub set while two goroutines register; a server with two
\* clients, an application and a signal that close it.
SPECIFICATION MCSpec
CONSTANTS
  Ops = {o1}
  Fns = {h1, h2}
  NoFn = NoFn
  Depth = 2
  Finders = {f1, f2}
  Registrars = {r1, r2}
  Funcs <- MCFuncs
  Conns = {n1, n2}
  Closers = {k1, g1}
  Signalled = {g1}
  MaxErrors = 9
INVARIANT FindIsAtomic
INVARIANT FuncsAsListed
PROPERTY CallsReturn
PROPERTY ServesUntilClosed
