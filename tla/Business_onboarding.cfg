SPECIFICATION Spec
CONSTANTS
  company = company e0 = e0 e1 = e1 e2 = e2 m1 = m1 m2 = m2 boss = boss
  c0 = c0 c1 = c1 c2 = c2 w0 = w0 w1 = w1 w2 = w2 g0 = g0 g1 = g1 g2 = g2 k0 = k0 k1 = k1 k2 = k2
  u0 = u0 u1 = u1 u2 = u2 h1 = h1 h2 = h2 r1 = r1 s1 = s1 s2 = s2 v1 = v1 v2 = v2
  None = None
  Slow = TRUE Chosen = {"onboarding"}
INVARIANTS UnitsAsConfirmed ClosedAsPlanned
PROPERTY SessionGoesForward
SYMMETRY Alike
CHECK_DEADLOCK FALSE
