------------------------------ MODULE MCTenants ------------------------------
EXTENDS Tenants, TLC
CONSTANTS h1, h2, h3, s, r1, r2, tick, a, b
MCSymmetry == Permutations({h1, h2, h3}) \cup Permutations({r1, r2})
=============================================================================
