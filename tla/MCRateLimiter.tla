--------------------------- MODULE MCRateLimiter ---------------------------
EXTENDS RateLimiter, TLC

\* The venue sends no limit headers.
NoHeaders == {}
ThreadSymmetry == Permutations(Threads)

============================================================================
