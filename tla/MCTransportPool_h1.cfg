SPECIFICATION Spec
CONSTANTS
  w1 = w1 w2 = w2 w3 = w3
  c1 = c1 c2 = c2
  k1 = k1 k2 = k2
  NoConn = NoConn Err = Err
  Wants = {w1, w2, w3}
  Conns = {c1, c2}
  Keys = {k1}
  WKey <- OneKey
  HTTP2 = FALSE
  DisableKeepAlives = FALSE
  IdleConnTimeout = FALSE
  MaxIdleConns = 1
  MaxIdleConnsPerHost = 2
  MaxConnsPerHost = 2
SYMMETRY Symmetry
INVARIANTS TypeOK ConnsAccounted LateBinding NotStranded
PROPERTIES AnsweredOnce ImplementsConnOwner
