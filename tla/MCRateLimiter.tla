---------------------------- MODULE MCRateLimiter ----------------------------
\* The 10s cooldown, the 60s grace and the 30s interval, scaled down to units in
\* which every order of stamps, cutoffs and ticks still occurs.
EXTENDS RateLimiter
=============================================================================
