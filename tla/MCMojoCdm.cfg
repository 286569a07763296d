\* Two calls in flight, replies in any order, destruction at any point.
CONSTANTS
  p1 = p1
  p2 = p2
  Promises <- MCPromises
  MaxSessionEvents = 1
SPECIFICATION Spec
\* The CDM idles once the app stops calling.
CHECK_DEADLOCK FALSE
INVARIANT TypeOK
