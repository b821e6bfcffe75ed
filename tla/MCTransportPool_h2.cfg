SPECIFICATION Spec
CONSTANTS
  w1 = w1 w2 = w2 w3 = w3
  c1 = c1 c2 = c2
  k1 = k1 k2 = k2
  NoConn = NoConn Err = Err
  Wants = {w1, w2, w3}
  Conns = {c1, c2}
  Keys = {k1}
  WKey <- OneKey
  HTTP2 = TRUE
  DisableKeepAlives = FALSE
  IdleConnTimeout = TRUE
  MaxIdleConns = 0
  MaxIdleConnsPerHost = 1
  MaxConnsPerHost = 1
SYMMETRY Symmetry
INVARIANT IdleListsSound
