SPECIFICATION FairSpec
CONSTANTS
  w1 = w1 w2 = w2 w3 = w3
  c1 = c1 c2 = c2
  k1 = k1 k2 = k2
  NoConn = NoConn Err = Err
  Wants = {w1, w2, w3}
  Conns = {c1}
  Keys = {k1}
  WKey <- OneKey
  HTTP2 = FALSE
  DisableKeepAlives = FALSE
  IdleConnTimeout = FALSE
  MaxIdleConns = 0
  MaxIdleConnsPerHost = 1
  MaxConnsPerHost = 1
PROPERTY GetConnReturns
